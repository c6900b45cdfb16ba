-------------------------- MODULE ConnectionProofs --------------------------
(***************************************************************************)
(* What TLAPS proves of the connections.  A TCP connection (TcpConnection) *)
(* is a channel of whole messages until a frame is torn, whatever pieces   *)
(* the stream is written and read in, and its decoder's buffer is bounded, *)
(* whatever a peer writes.  A WebSocket connection with its session        *)
(* (WebSocketSession) is a channel of whole texts, loses none, and gives   *)
(* up no client that answers.                                              *)
(***************************************************************************)
EXTENDS TcpConnection, WebSocketSession, Runs

Bytes == Seq(Byte)
Frames == {payload \in Bytes : Encodable(payload)}

\* A frame's payload is bytes, at least one and no more than a frame holds.
LEMMA FramesAreBytes ==
  \A payload \in Frames :
    payload \in Bytes /\ Len(payload) \in 1 .. MaxFrameBytes /\ Len(payload) \in Nat \ {0}
BY TcpAssumption DEF Frames, Encodable

(***************************************************************************)
(* Cutting byte sequences.                                                 *)
(***************************************************************************)
LEMMA FromProperties ==
  ASSUME NEW S, NEW s \in Seq(S), NEW i \in 1 .. Len(s) + 1
  PROVE  /\ From(s, i) \in Seq(S)
         /\ Len(From(s, i)) = Len(s) + 1 - i
         /\ \A j \in 1 .. Len(s) + 1 - i : From(s, i)[j] = s[i + j - 1]
<1>1. \A j \in i .. Len(s) : s[j] \in S
  OBVIOUS
<1>2. i \in Int /\ Len(s) \in Int /\ i <= Len(s) + 1
  OBVIOUS
<1>3. /\ SubSeq(s, i, Len(s)) \in Seq(S)
      /\ Len(SubSeq(s, i, Len(s))) = IF i <= Len(s) THEN Len(s) - i + 1 ELSE 0
      /\ \A j \in 1 .. Len(s) - i + 1 : SubSeq(s, i, Len(s))[j] = s[i + j - 1]
  BY <1>1, <1>2, SubSeqProperties
<1> QED
  BY <1>2, <1>3 DEF From

\* A sequence is its first n elements and the rest.
LEMMA CutInTwo ==
  ASSUME NEW S, NEW s \in Seq(S), NEW n \in 0 .. Len(s)
  PROVE  /\ SubSeq(s, 1, n) \in Seq(S) /\ Len(SubSeq(s, 1, n)) = n
         /\ From(s, n + 1) \in Seq(S)
         /\ s = SubSeq(s, 1, n) \o From(s, n + 1)
<1>1. /\ SubSeq(s, 1, n) \in Seq(S)
      /\ Len(SubSeq(s, 1, n)) = n
  <2>1. \A i \in 1 .. n : s[i] \in S
    OBVIOUS
  <2> QED
    BY <2>1, SubSeqProperties
<1>2. From(s, n + 1) \in Seq(S)
  BY FromProperties
<1>3. /\ 1 \in 1 .. Len(s) + 1 /\ n \in 1 - 1 .. Len(s) /\ Len(s) \in n .. Len(s)
  OBVIOUS
<1>4. SubSeq(s, 1, n) \o SubSeq(s, n + 1, Len(s)) = SubSeq(s, 1, Len(s))
  BY <1>3, ConcatAdjacentSubSeq
<1>5. SubSeq(s, 1, Len(s)) = s
  BY SubSeqFull
<1> QED
  BY <1>1, <1>2, <1>4, <1>5 DEF From

\* What a concatenation begins with, and what follows.
LEMMA PartsOfConcat ==
  ASSUME NEW S, NEW s \in Seq(S), NEW t \in Seq(S)
  PROVE  SubSeq(s \o t, 1, Len(s)) = s /\ From(s \o t, Len(s) + 1) = t
<1> DEFINE u == s \o t
           h == SubSeq(u, 1, Len(s))
           r == From(u, Len(s) + 1)
<1>1. /\ u \in Seq(S) /\ Len(u) = Len(s) + Len(t) /\ Len(s) \in Nat /\ Len(t) \in Nat
      /\ \A i \in 1 .. Len(s) + Len(t) : u[i] = IF i <= Len(s) THEN s[i] ELSE t[i - Len(s)]
  BY ConcatProperties
<1> HIDE DEF u
<1>2. /\ h \in Seq(S) /\ Len(h) = Len(s)
      /\ \A i \in 1 .. Len(s) : h[i] = u[i]
  <2>1. \A i \in 1 .. Len(s) : u[i] \in S
    BY <1>1
  <2>2. /\ h \in Seq(S) /\ Len(h) = (IF 1 <= Len(s) THEN Len(s) - 1 + 1 ELSE 0)
        /\ \A i \in 1 .. Len(s) - 1 + 1 : h[i] = u[1 + i - 1]
    BY <1>1, <2>1, SubSeqProperties
  <2> QED
    BY <1>1, <2>2
<1>3. /\ r \in Seq(S) /\ Len(r) = Len(t)
      /\ \A i \in 1 .. Len(t) : r[i] = u[Len(s) + i]
  <2>1. Len(s) + 1 \in 1 .. Len(u) + 1
    BY <1>1
  <2>2. /\ r \in Seq(S) /\ Len(r) = Len(u) + 1 - (Len(s) + 1)
        /\ \A i \in 1 .. Len(u) + 1 - (Len(s) + 1) : r[i] = u[(Len(s) + 1) + i - 1]
    <3>1. u \in Seq(S)
      BY <1>1
    <3> QED
      BY <2>1, <3>1, FromProperties
  <2>3. Len(u) + 1 - (Len(s) + 1) = Len(t)
    BY <1>1
  <2>4. \A i \in 1 .. Len(t) : (Len(s) + 1) + i - 1 = Len(s) + i
    BY <1>1
  <2> HIDE DEF r
  <2>5. /\ Len(r) = Len(t)
        /\ \A i \in 1 .. Len(t) : r[i] = u[(Len(s) + 1) + i - 1]
    BY <2>2, <2>3
  <2> QED
    BY <2>2, <2>4, <2>5
<1> HIDE DEF h, r
<1>4. \A i \in 1 .. Len(h) : h[i] = s[i]
  BY <1>1, <1>2
<1>5. ASSUME NEW i \in 1 .. Len(r) PROVE r[i] = t[i]
  <2>1. i \in 1 .. Len(t) /\ r[i] = u[Len(s) + i]
    BY <1>3
  <2>2. Len(s) + i \in 1 .. Len(s) + Len(t) /\ ~(Len(s) + i <= Len(s)) /\ (Len(s) + i) - Len(s) = i
    BY <1>1, <2>1
  <2>3. u[Len(s) + i] = t[(Len(s) + i) - Len(s)]
    BY <1>1, <2>2
  <2> QED
    BY <2>1, <2>2, <2>3
<1>6. h = s /\ r = t
  BY <1>2, <1>3, <1>4, <1>5, SeqEqual
<1> QED
  BY <1>6 DEF h, r, u

\* Streams of bytes are put together in either order.
LEMMA ConcatAssociates ==
  ASSUME NEW s \in Bytes, NEW t \in Bytes, NEW u \in Bytes
  PROVE  (s \o t) \o u = s \o (t \o u)
BY ConcatAssociative DEF Bytes

\* The same, with a name that the provers can look for.
Associates(s, t, u) == (s \o t) \o u = s \o (t \o u)

\* The same, as the proofs below name it.
LEMMA BytesAssociate ==
  ASSUME NEW s \in Bytes, NEW t \in Bytes, NEW u \in Bytes
  PROVE  Associates(s, t, u)
BY ConcatAssociates DEF Associates

\* The same of sequences of anything.
LEMMA SequencesAssociate ==
  ASSUME NEW S, NEW s \in Seq(S), NEW t \in Seq(S), NEW u \in Seq(S)
  PROVE  Associates(s, t, u)
BY ConcatAssociative DEF Associates

\* Bytes after bytes are bytes.
LEMMA ConcatIsBytes ==
  ASSUME NEW s \in Bytes, NEW t \in Bytes
  PROVE  s \o t \in Bytes
BY ConcatProperties DEF Bytes

(***************************************************************************)
(* Frames.                                                                 *)
(***************************************************************************)
\* A frame's first four bytes are its payload's length, and the rest the payload.
LEMMA EncodedFrame ==
  ASSUME NEW payload \in Frames
  PROVE  /\ EncodeFrame(payload) \in Bytes
         /\ Len(EncodeFrame(payload)) = 4 + Len(payload)
         /\ PeekLength(EncodeFrame(payload)) = Len(payload)
         /\ From(EncodeFrame(payload), 5) = payload
<1> DEFINE n == Len(payload)
           header == Uint32Be(n)
<1>1. payload \in Bytes /\ n \in Nat /\ n <= MaxFrameBytes
  BY FramesAreBytes, TcpAssumption
<1>2. n \div (256 * 256 * 256) < 256
  BY <1>1, TcpAssumption
<1> HIDE DEF n
<1>3. header \in Bytes /\ Len(header) = 4
  <2>1. /\ n \div (256 * 256 * 256) \in Byte /\ (n \div (256 * 256)) % 256 \in Byte
        /\ (n \div 256) % 256 \in Byte /\ n % 256 \in Byte
    BY <1>1, <1>2 DEF Byte
  <2> QED
    BY <2>1 DEF Uint32Be, Bytes
<1>4. ((header[1] * 256 + header[2]) * 256 + header[3]) * 256 + header[4] = n
  BY <1>1, <1>2 DEF Uint32Be
<1> HIDE DEF header
<1>5. EncodeFrame(payload) = header \o payload
  BY DEF EncodeFrame, header, n
<1>6. /\ header \o payload \in Bytes /\ Len(header \o payload) = 4 + Len(payload)
      /\ \A i \in 1 .. 4 : (header \o payload)[i] = header[i]
  <2>1. header \in Seq(Byte) /\ payload \in Seq(Byte)
    BY <1>1, <1>3 DEF Bytes
  <2>2. /\ header \o payload \in Seq(Byte)
        /\ Len(header \o payload) = Len(header) + Len(payload)
        /\ \A i \in 1 .. Len(header) + Len(payload) :
             (header \o payload)[i] = IF i <= Len(header) THEN header[i] ELSE payload[i - Len(header)]
    BY <2>1, ConcatProperties
  <2> QED
    BY <1>1, <1>3, <2>2 DEF Bytes, n
<1>7. From(header \o payload, 5) = payload
  <2>1. header \in Seq(Byte) /\ payload \in Seq(Byte) /\ Len(header) + 1 = 5
    BY <1>1, <1>3 DEF Bytes
  <2> QED
    BY <2>1, PartsOfConcat
<1>8. PeekLength(header \o payload) = n
  BY <1>4, <1>6 DEF PeekLength
<1> QED
  BY <1>5, <1>6, <1>7, <1>8 DEF n

(***************************************************************************)
(* The stream of a sequence of payloads.                                   *)
(***************************************************************************)
IsStream(payloads, g) ==
  /\ g \in [0 .. Len(payloads) -> Bytes]
  /\ g[0] = <<>>
  /\ \A i \in 1 .. Len(payloads) : g[i] = g[i - 1] \o EncodeFrame(payloads[i])

\* The stream of frames is what a run over them, one frame at a time, ends with.
LEMMA StreamRuns ==
  ASSUME NEW payloads \in Seq(Frames)
  PROVE  \E g : IsStream(payloads, g) /\ Stream(payloads) = g[Len(payloads)]
<1> DEFINE N == Len(payloads)
           Encoded == [n \in 1 .. N |-> EncodeFrame(payloads[n])]
           Step == [n \in 1 .. N |-> [r \in Bytes |-> r \o Encoded[n]]]
           Body(g) == [i \in 0 .. N |-> IF i = 0 THEN <<>> ELSE g[i - 1] \o EncodeFrame(payloads[i])]
           upTo == CHOOSE g : g = Body(g)
<1>1. N \in Nat /\ \A n \in 1 .. N : Encoded[n] \in Bytes /\ Encoded[n] = EncodeFrame(payloads[n])
  <2>1. N \in Nat /\ \A n \in 1 .. N : payloads[n] \in Frames
    OBVIOUS
  <2> QED
    BY <2>1, EncodedFrame
<1>2. Stream(payloads) = upTo[N]
  BY DEF Stream
<1> HIDE DEF N, Encoded
<1>3. \A n \in 1 .. N : \A r \in Bytes : Step[n][r] = r \o Encoded[n]
  OBVIOUS
<1>4. \A n \in 1 .. N : \A r \in Bytes : r \o Encoded[n] \in Bytes
  BY <1>1, ConcatProperties DEF Bytes
<1>5. Step \in [1 .. N -> [Bytes -> Bytes]]
  BY <1>4
<1> HIDE DEF Step
<1>6. PICK g \in [0 .. N -> Bytes] : IsRun(N, <<>>, Step, g)
  <2>1. <<>> \in Bytes
    BY DEF Bytes
  <2> QED
    BY <1>1, <1>5, <2>1, RunsExist
<1>7. g[0] = <<>> /\ \A n \in 1 .. N : g[n] = g[n - 1] \o EncodeFrame(payloads[n])
  <2>1. 0 \in 0 .. N
    BY <1>1
  <2>2. ASSUME NEW n \in 1 .. N PROVE g[n] = g[n - 1] \o EncodeFrame(payloads[n])
    <3>1. n \in 0 .. N /\ n # 0 /\ n - 1 \in 0 .. N
      BY <1>1
    <3>2. g[n] = Step[n][g[n - 1]] /\ g[n - 1] \in Bytes
      BY <1>6, <3>1 DEF IsRun
    <3> QED
      BY <1>1, <1>3, <3>2
  <2> QED
    BY <1>6, <2>1, <2>2 DEF IsRun
<1>8. g = Body(g)
  <2>1. ASSUME NEW n \in 0 .. N
        PROVE  g[n] = IF n = 0 THEN <<>> ELSE g[n - 1] \o EncodeFrame(payloads[n])
    <3>1. n # 0 => n \in 1 .. N
      BY <1>1
    <3> QED
      BY <1>7, <3>1
  <2> QED
    BY <2>1
<1>9. upTo = Body(upTo)
  BY <1>8
<1> HIDE DEF upTo
<1>10. /\ DOMAIN upTo = 0 .. N /\ upTo[0] = <<>>
       /\ \A n \in 1 .. N : upTo[n] = upTo[n - 1] \o EncodeFrame(payloads[n])
  <2>1. \A n \in 0 .. N : upTo[n] = IF n = 0 THEN <<>> ELSE upTo[n - 1] \o EncodeFrame(payloads[n])
    BY <1>9, Zenon
  <2>2. DOMAIN upTo = 0 .. N
    BY <1>9, Zenon
  <2>3. 0 \in 0 .. N /\ \A n \in 1 .. N : n \in 0 .. N /\ n # 0
    BY <1>1
  <2> QED
    BY <2>1, <2>2, <2>3, Zenon
<1>11. \A n \in Nat : n <= N => upTo[n] = g[n]
  <2> DEFINE S == {n \in Nat : n <= N => upTo[n] = g[n]}
  <2>1. 0 \in S
    BY <1>7, <1>10
  <2>2. ASSUME NEW n \in Nat, n \in S PROVE n + 1 \in S
    <3>1. SUFFICES ASSUME n + 1 <= N PROVE upTo[n + 1] = g[n + 1]
      OBVIOUS
    <3>2. n + 1 \in 1 .. N /\ (n + 1) - 1 = n /\ upTo[n] = g[n]
      BY <1>1, <2>2, <3>1
    <3>3. /\ upTo[n + 1] = upTo[(n + 1) - 1] \o EncodeFrame(payloads[n + 1])
          /\ g[n + 1] = g[(n + 1) - 1] \o EncodeFrame(payloads[n + 1])
      BY <1>7, <1>10, <3>2
    <3> QED
      BY <3>2, <3>3
  <2> HIDE DEF S
  <2>3. \A n \in Nat : n \in S
    BY <2>1, <2>2, SetNatInduction
  <2> QED
    BY <2>3 DEF S
<1>12. upTo[N] = g[N]
  BY <1>1, <1>11
<1> QED
  BY <1>2, <1>7, <1>12 DEF IsStream, N

\* A stream of frames is bytes.
LEMMA StreamIsBytes ==
  ASSUME NEW payloads \in Seq(Frames)
  PROVE  Stream(payloads) \in Bytes
<1>1. PICK g : IsStream(payloads, g) /\ Stream(payloads) = g[Len(payloads)]
  BY StreamRuns
<1>2. Len(payloads) \in 0 .. Len(payloads)
  OBVIOUS
<1> QED
  BY <1>1, <1>2 DEF IsStream

\* No frames make the empty stream.
LEMMA EmptyStream == Stream(<<>>) = <<>>
<1>1. <<>> \in Seq(Frames) /\ Len(<<>>) = 0
  OBVIOUS
<1>2. PICK g : IsStream(<<>>, g) /\ Stream(<<>>) = g[Len(<<>>)]
  BY <1>1, StreamRuns
<1> QED
  BY <1>1, <1>2 DEF IsStream

\* The stream of a concatenation is the concatenation of the streams.
LEMMA StreamOfConcat ==
  ASSUME NEW a \in Seq(Frames), NEW b \in Seq(Frames)
  PROVE  a \o b \in Seq(Frames) /\ Stream(a \o b) = Stream(a) \o Stream(b)
<1> DEFINE c == a \o b
           m == Len(a)
           n == Len(b)
<1>1. /\ m \in Nat /\ n \in Nat /\ c \in Seq(Frames) /\ Len(c) = m + n
      /\ \A i \in 1 .. m + n : c[i] = IF i <= m THEN a[i] ELSE b[i - m]
  BY ConcatProperties
<1>2. PICK f : IsStream(a, f) /\ Stream(a) = f[m]
  BY StreamRuns
<1>3. PICK g : IsStream(b, g) /\ Stream(b) = g[n]
  BY StreamRuns
<1> HIDE DEF c
<1>4. PICK h : IsStream(c, h) /\ Stream(c) = h[Len(c)]
  BY <1>1, StreamRuns
<1>5. /\ f \in [0 .. m -> Bytes] /\ f[0] = <<>>
      /\ \A i \in 1 .. m : f[i] = f[i - 1] \o EncodeFrame(a[i])
  BY <1>2 DEF IsStream
<1>6. /\ g \in [0 .. n -> Bytes] /\ g[0] = <<>>
      /\ \A i \in 1 .. n : g[i] = g[i - 1] \o EncodeFrame(b[i])
  BY <1>3 DEF IsStream
<1>7. /\ h \in [0 .. m + n -> Bytes] /\ h[0] = <<>>
      /\ \A i \in 1 .. m + n : h[i] = h[i - 1] \o EncodeFrame(c[i])
  BY <1>1, <1>4 DEF IsStream
<1> HIDE DEF m, n
<1>8. \A i \in Nat : i <= m => h[i] = f[i]
  <2> DEFINE S == {i \in Nat : i <= m => h[i] = f[i]}
  <2>1. 0 \in S
    BY <1>5, <1>7
  <2>2. ASSUME NEW i \in Nat, i \in S PROVE i + 1 \in S
    <3>1. SUFFICES ASSUME i + 1 <= m PROVE h[i + 1] = f[i + 1]
      OBVIOUS
    <3>2. i + 1 \in 1 .. m /\ i + 1 \in 1 .. m + n /\ (i + 1) - 1 = i /\ h[i] = f[i]
      BY <1>1, <2>2, <3>1
    <3>3. c[i + 1] = a[i + 1]
      BY <1>1, <3>1, <3>2
    <3>4. /\ h[i + 1] = h[(i + 1) - 1] \o EncodeFrame(c[i + 1])
          /\ f[i + 1] = f[(i + 1) - 1] \o EncodeFrame(a[i + 1])
      BY <1>5, <1>7, <3>2
    <3> QED
      BY <3>2, <3>3, <3>4
  <2> HIDE DEF S
  <2>3. \A i \in Nat : i \in S
    BY <2>1, <2>2, SetNatInduction
  <2> QED
    BY <2>3 DEF S
<1>9. \A i \in Nat : i <= n => h[m + i] = f[m] \o g[i]
  <2> DEFINE S == {i \in Nat : i <= n => h[m + i] = f[m] \o g[i]}
  <2>1. 0 \in S
    <3>1. m \in 0 .. m /\ m <= m /\ m + 0 = m
      BY <1>1
    <3>2. h[m] = f[m] /\ f[m] \in Bytes
      BY <1>1, <1>5, <1>8, <3>1
    <3>3. f[m] \o <<>> = f[m]
      BY <3>2, ConcatEmptySeq DEF Bytes
    <3> QED
      BY <1>6, <3>1, <3>2, <3>3
  <2>2. ASSUME NEW i \in Nat, i \in S PROVE i + 1 \in S
    <3>0. i + 1 \in Nat
      OBVIOUS
    <3>1. SUFFICES ASSUME i + 1 <= n PROVE h[m + (i + 1)] = f[m] \o g[i + 1]
      BY <3>0, Zenon
    <3> DEFINE k == m + (i + 1)
               e == EncodeFrame(b[i + 1])
    <3>2. /\ i + 1 \in 1 .. n /\ i \in 0 .. n /\ (i + 1) - 1 = i /\ i <= n
          /\ k \in 1 .. m + n /\ k - 1 = m + i /\ ~(k <= m) /\ k - m = i + 1 /\ m \in 0 .. m
      BY <1>1, <3>1
    <3>3. h[m + i] = f[m] \o g[i]
      BY <2>2, <3>2
    <3> HIDE DEF k
    <3>4. c[k] = b[i + 1]
      BY <1>1, <3>2
    <3>5. h[k] = h[k - 1] \o EncodeFrame(c[k])
      BY <1>7, <3>2
    <3>6. g[i + 1] = g[(i + 1) - 1] \o e
      BY <1>6, <3>2
    <3>7. b[i + 1] \in Frames
      BY <3>2 DEF n
    <3>8. f[m] \in Seq(Byte) /\ g[i] \in Seq(Byte) /\ e \in Seq(Byte)
      BY <1>5, <1>6, <3>2, <3>7, EncodedFrame DEF Bytes
    <3> HIDE DEF e
    <3>9. (f[m] \o g[i]) \o e = f[m] \o (g[i] \o e)
      BY <3>8, ConcatAssociates DEF Bytes
    <3>10. h[k] = (f[m] \o g[i]) \o e
      BY <3>2, <3>3, <3>4, <3>5 DEF e
    <3>11. g[i + 1] = g[i] \o e
      BY <3>2, <3>6
    <3> QED
      BY <3>9, <3>10, <3>11 DEF k
  <2> HIDE DEF S
  <2>3. \A i \in Nat : i \in S
    BY <2>1, <2>2, SetNatInduction
  <2> QED
    BY <2>3 DEF S
<1>10. h[m + n] = f[m] \o g[n]
  <2>1. n \in Nat /\ n <= n
    BY <1>1
  <2> QED
    BY <1>9, <2>1, Zenon
<1> QED
  BY <1>1, <1>2, <1>3, <1>4, <1>10 DEF c, m, n

\* One frame makes its own encoding.
LEMMA StreamOfOne ==
  ASSUME NEW payload \in Frames
  PROVE  <<payload>> \in Seq(Frames) /\ Stream(<<payload>>) = EncodeFrame(payload)
<1> DEFINE one == <<payload>>
<1>1. one \in Seq(Frames) /\ Len(one) = 1 /\ one[1] = payload
  OBVIOUS
<1> HIDE DEF one
<1>2. PICK g : IsStream(one, g) /\ Stream(one) = g[Len(one)]
  BY <1>1, StreamRuns
<1>3. g[0] = <<>> /\ g[1] = g[1 - 1] \o EncodeFrame(one[1])
  BY <1>1, <1>2 DEF IsStream
<1>4. <<>> \o EncodeFrame(payload) = EncodeFrame(payload)
  BY EncodedFrame, ConcatEmptySeq DEF Bytes
<1>5. 1 - 1 = 0
  OBVIOUS
<1> QED
  BY <1>1, <1>2, <1>3, <1>4, <1>5 DEF one

\* A stream with any byte begins with the frame of its first payload.
LEMMA StreamBegins ==
  ASSUME NEW payloads \in Seq(Frames), Stream(payloads) # <<>>
  PROVE  \E payload \in Frames, others \in Seq(Frames) :
           /\ payloads = <<payload>> \o others
           /\ Stream(payloads) = EncodeFrame(payload) \o Stream(others)
<1>1. payloads # <<>>
  BY EmptyStream
<1> DEFINE p == Head(payloads)
           others == Tail(payloads)
<1>2. p \in Frames /\ others \in Seq(Frames)
  BY <1>1, HeadTailProperties
<1>3. payloads = <<p>> \o others
  <2>1. 1 \in 1 .. Len(payloads) /\ Len(payloads) \in 1 .. Len(payloads)
    BY <1>1
  <2>2. SubSeq(payloads, 1, Len(payloads)) = <<payloads[1]>> \o SubSeq(payloads, 1 + 1, Len(payloads))
    BY <2>1, SubSeqRecursiveFirst
  <2>3. SubSeq(payloads, 1, Len(payloads)) = payloads
    BY SubSeqFull
  <2>4. others = SubSeq(payloads, 2, Len(payloads))
    BY <1>1, TailIsSubSeq
  <2>5. payloads[1] = p
    BY <1>1
  <2>6. 1 + 1 = 2
    OBVIOUS
  <2> QED
    BY <2>2, <2>3, <2>4, <2>5, <2>6
<1> HIDE DEF p, others
<1>4. Stream(payloads) = EncodeFrame(p) \o Stream(others)
  <2>1. <<p>> \in Seq(Frames) /\ Stream(<<p>>) = EncodeFrame(p)
    BY <1>2, StreamOfOne
  <2>2. Stream(<<p>> \o others) = Stream(<<p>>) \o Stream(others)
    BY <1>2, <2>1, StreamOfConcat
  <2> QED
    BY <1>3, <2>1, <2>2
<1> QED
  BY <1>2, <1>3, <1>4

(***************************************************************************)
(* The decoder.  One that has failed holds nothing.                        *)
(***************************************************************************)
DecoderRecord == [buffer : Bytes, frames : Seq(Frames), error : BOOLEAN]
DecoderState == {d \in DecoderRecord : d.error => d.buffer = <<>>}

\* It needs more bytes, or has failed.
Done(d) == DecodeOne(d) = d /\ Len(d.buffer) < 4 + MaxFrameBytes

Failed(d) == [d EXCEPT !.error = TRUE, !.buffer = <<>>]

\* It takes a frame of this length.
Taken(d, length) ==
  [d EXCEPT !.frames = Append(@, SubSeq(d.buffer, 5, 4 + length)), !.buffer = From(@, 5 + length)]

\* What a step of the decoder does, case by case.
LEMMA DecodeOneCases ==
  ASSUME NEW d
  PROVE  LET length == PeekLength(d.buffer)
         IN  /\ (d.error \/ Len(d.buffer) < 4) => DecodeOne(d) = d
             /\ (~(d.error \/ Len(d.buffer) < 4) /\ length \notin 1 .. MaxFrameBytes)
                  => DecodeOne(d) = Failed(d)
             /\ (~(d.error \/ Len(d.buffer) < 4) /\ length \in 1 .. MaxFrameBytes)
                  => DecodeOne(d) = IF Len(d.buffer) < 4 + length THEN d ELSE Taken(d, length)
BY DEF DecodeOne, Failed, Taken

\* A decoder that failed is one, and is done.
LEMMA FailedDecoder ==
  ASSUME NEW d \in DecoderRecord
  PROVE  Failed(d) \in DecoderState /\ Done(Failed(d))
<1>1. /\ Failed(d) \in DecoderRecord /\ Failed(d).error /\ Failed(d).buffer = <<>>
  <2>1. <<>> \in Bytes
    BY DEF Bytes
  <2> QED
    BY <2>1 DEF DecoderRecord, Failed
<1>2. DecodeOne(Failed(d)) = Failed(d)
  BY <1>1, DecodeOneCases
<1>3. Len(<<>>) < 4 + MaxFrameBytes
  BY TcpAssumption
<1> QED
  BY <1>1, <1>2, <1>3 DEF Done, DecoderState

\* Taking a frame moves it from the buffer to the frames.
LEMMA TakenFrame ==
  ASSUME NEW d \in DecoderRecord, NEW length \in 1 .. MaxFrameBytes, ~d.error,
         4 + length <= Len(d.buffer)
  PROVE  /\ SubSeq(d.buffer, 5, 4 + length) \in Frames
         /\ Taken(d, length) \in DecoderState /\ ~Taken(d, length).error
         /\ Taken(d, length).frames = Append(d.frames, SubSeq(d.buffer, 5, 4 + length))
         /\ Taken(d, length).buffer = From(d.buffer, 5 + length)
         /\ Len(Taken(d, length).buffer) + 5 <= Len(d.buffer)
<1> DEFINE B == d.buffer
           payload == SubSeq(B, 5, 4 + length)
           left == From(B, 5 + length)
<1>1. B \in Seq(Byte) /\ d.frames \in Seq(Frames) /\ length \in Nat /\ length >= 1 /\ Len(B) \in Nat
  BY TcpAssumption DEF DecoderRecord, Bytes
<1>2. payload \in Frames
  <2>1. \A i \in 5 .. 4 + length : B[i] \in Byte
    BY <1>1
  <2> HIDE DEF B
  <2>2. payload \in Seq(Byte) /\ Len(payload) = length
    BY <1>1, <2>1, SubSeqProperties
  <2> HIDE DEF payload
  <2> QED
    BY <2>2 DEF Frames, Bytes, Encodable
<1>3. left \in Seq(Byte) /\ Len(left) + 5 <= Len(B)
  <2>1. 5 + length \in 1 .. Len(B) + 1
    BY <1>1
  <2> HIDE DEF B
  <2>2. left \in Seq(Byte) /\ Len(left) = Len(B) + 1 - (5 + length)
    BY <1>1, <2>1, FromProperties
  <2> QED
    BY <1>1, <2>2
<1>4. Append(d.frames, payload) \in Seq(Frames)
  BY <1>1, <1>2
<1> DEFINE frames == Append(d.frames, payload)
<1>5. Taken(d, length) = [d EXCEPT !.frames = frames, !.buffer = left]
  BY DEF Taken
<1> HIDE DEF frames, left, payload, B
<1>6. /\ Taken(d, length) \in DecoderRecord /\ Taken(d, length).error = d.error
      /\ Taken(d, length).frames = frames /\ Taken(d, length).buffer = left
  BY <1>3, <1>4, <1>5 DEF DecoderRecord, Bytes, frames
<1> QED
  BY <1>2, <1>3, <1>6 DEF DecoderState, frames, left, payload, B

\* A step of the decoder takes a frame or is its last.
LEMMA DecodeOneAdvances ==
  ASSUME NEW d \in DecoderState
  PROVE  /\ DecodeOne(d) \in DecoderState
         /\ Done(DecodeOne(d)) \/ Len(DecodeOne(d).buffer) + 5 <= Len(d.buffer)
<1> DEFINE length == PeekLength(d.buffer)
<1>1. d \in DecoderRecord /\ d.buffer \in Bytes /\ Len(d.buffer) \in Nat /\ MaxFrameBytes \in Nat
  BY TcpAssumption DEF DecoderState, DecoderRecord, Bytes
<1>2. CASE d.error \/ Len(d.buffer) < 4
  <2>1. DecodeOne(d) = d
    BY <1>2, DecodeOneCases
  <2>2. Len(d.buffer) < 4 + MaxFrameBytes
    BY <1>1, <1>2, TcpAssumption DEF DecoderState
  <2> QED
    BY <2>1, <2>2 DEF Done
<1>3. CASE ~(d.error \/ Len(d.buffer) < 4) /\ length \notin 1 .. MaxFrameBytes
  <2>1. DecodeOne(d) = Failed(d)
    BY <1>3, DecodeOneCases
  <2> QED
    BY <1>1, <2>1, FailedDecoder
<1>4. CASE ~(d.error \/ Len(d.buffer) < 4) /\ length \in 1 .. MaxFrameBytes
  <2>1. DecodeOne(d) = IF Len(d.buffer) < 4 + length THEN d ELSE Taken(d, length)
    BY <1>4, DecodeOneCases
  <2> HIDE DEF length
  <2>2. CASE Len(d.buffer) < 4 + length
    <3>1. Len(d.buffer) < 4 + MaxFrameBytes
      BY <1>1, <1>4, <2>2
    <3> QED
      BY <2>1, <2>2, <3>1 DEF Done
  <2>3. CASE ~(Len(d.buffer) < 4 + length)
    <3>1. 4 + length <= Len(d.buffer)
      BY <1>1, <1>4, <2>3
    <3>2. Taken(d, length) \in DecoderState /\ Len(Taken(d, length).buffer) + 5 <= Len(d.buffer)
      BY <1>1, <1>4, <3>1, TakenFrame
    <3> QED
      BY <2>1, <2>3, <3>2
  <2> QED
    BY <2>2, <2>3
<1> QED
  BY <1>2, <1>3, <1>4

Start(whole) == [buffer |-> whole, frames |-> <<>>, error |-> FALSE]

\* A decoder starts with the whole of what it is given.
LEMMA StartState ==
  ASSUME NEW whole \in Bytes
  PROVE  Start(whole) \in DecoderState /\ Start(whole).buffer = whole
BY DEF Start, DecoderState, DecoderRecord

\* What a read gives is what a run of the decoder's steps gives, of which there are enough.
LEMMA FeedRuns ==
  ASSUME NEW held \in Bytes, NEW bytes \in Bytes,
         ~(Len(held) + Len(bytes) > MaxBufferedBytes)
  PROVE  \E N \in Nat : \E done :
           /\ Feed(held, bytes) = done[N] /\ done[0] = Start(held \o bytes)
           /\ \A n \in 1 .. N : done[n] = DecodeOne(done[n - 1])
           /\ 5 * N > Len(held \o bytes)
<1> DEFINE whole == held \o bytes
           N == Len(whole) \div 5 + 1
           Step == [n \in 1 .. N |-> [d \in DecoderState |-> DecodeOne(d)]]
           Body(g) == [k \in 0 .. N |-> IF k = 0 THEN Start(whole) ELSE DecodeOne(g[k - 1])]
           done == CHOOSE g : g = Body(g)
<1>1. whole \in Bytes /\ Len(whole) \in Nat
  BY ConcatProperties DEF Bytes
<1>2. N \in Nat /\ 5 * N > Len(whole)
  BY <1>1
<1>3. Feed(held, bytes) = done[N]
  BY DEF Feed, Start
<1> HIDE DEF N, whole
<1>4. Start(whole) \in DecoderState
  BY <1>1, StartState
<1>5. Step \in [1 .. N -> [DecoderState -> DecoderState]]
  BY DecodeOneAdvances
<1>6. \A n \in 1 .. N : \A d \in DecoderState : Step[n][d] = DecodeOne(d)
  OBVIOUS
<1> HIDE DEF Step
<1>7. PICK g \in [0 .. N -> DecoderState] : IsRun(N, Start(whole), Step, g)
  BY <1>2, <1>4, <1>5, RunsExist
<1>8. g = Body(g)
  <2>1. ASSUME NEW n \in 0 .. N
        PROVE  g[n] = IF n = 0 THEN Start(whole) ELSE DecodeOne(g[n - 1])
    <3>1. n # 0 => n \in 1 .. N /\ n - 1 \in 0 .. N
      BY <1>2
    <3> QED
      BY <1>6, <1>7, <3>1 DEF IsRun
  <2> QED
    BY <2>1
<1>9. done = Body(done)
  BY <1>8
<1> HIDE DEF done
<1>10. done[0] = Start(whole) /\ \A n \in 1 .. N : done[n] = DecodeOne(done[n - 1])
  <2>1. \A n \in 0 .. N : done[n] = IF n = 0 THEN Start(whole) ELSE DecodeOne(done[n - 1])
    BY <1>9, Zenon
  <2>2. 0 \in 0 .. N /\ \A n \in 1 .. N : n \in 0 .. N /\ n # 0
    BY <1>2
  <2> QED
    BY <2>1, <2>2, Zenon
<1> QED
  BY <1>2, <1>3, <1>10 DEF whole

\* A frame takes five bytes or more, so a bound with one more frame still holds.
LEMMA FiveMore ==
  ASSUME NEW a \in Nat, NEW b \in Nat, NEW c \in Nat, NEW n \in Nat, a + 5 <= b, b + 5 * n <= c
  PROVE  a + 5 * (n + 1) <= c
OBVIOUS

\* There are not more frames than a fifth of the bytes.
LEMMA TooMany ==
  ASSUME NEW a \in Nat, NEW c \in Nat, NEW n \in Nat, 5 * n > c
  PROVE  ~(a + 5 * n <= c)
OBVIOUS

\* A decoder that was not over its limit has either failed or waits for the end of a frame.
LEMMA FeedEnds ==
  ASSUME NEW held \in Bytes, NEW bytes \in Bytes
  PROVE  Feed(held, bytes) \in DecoderState /\ Len(Feed(held, bytes).buffer) < 4 + MaxFrameBytes
<1>1. CASE Len(held) + Len(bytes) > MaxBufferedBytes
  <2> DEFINE none == [buffer |-> <<>>, frames |-> <<>>, error |-> TRUE]
  <2>1. Feed(held, bytes) = none
    BY <1>1 DEF Feed
  <2>2. <<>> \in Bytes /\ <<>> \in Seq(Frames) /\ Len(<<>>) < 4 + MaxFrameBytes
    BY TcpAssumption DEF Bytes
  <2>3. none \in DecoderState /\ none.buffer = <<>>
    BY <2>2 DEF DecoderState, DecoderRecord
  <2> QED
    BY <2>1, <2>2, <2>3
<1>2. CASE ~(Len(held) + Len(bytes) > MaxBufferedBytes)
  <2>1. PICK N \in Nat : \E done :
          /\ Feed(held, bytes) = done[N] /\ done[0] = Start(held \o bytes)
          /\ \A n \in 1 .. N : done[n] = DecodeOne(done[n - 1])
          /\ 5 * N > Len(held \o bytes)
    BY <1>2, FeedRuns
  <2>0. PICK done :
          /\ Feed(held, bytes) = done[N] /\ done[0] = Start(held \o bytes)
          /\ \A n \in 1 .. N : done[n] = DecodeOne(done[n - 1])
          /\ 5 * N > Len(held \o bytes)
    BY <2>1
  <2> DEFINE whole == held \o bytes
  <2>2. whole \in Bytes /\ Len(whole) \in Nat
    BY ConcatProperties DEF Bytes
  <2> HIDE DEF whole
  <2> DEFINE Left(n) == Done(done[n]) \/ Len(done[n].buffer) + 5 * n <= Len(whole)
             S == {n \in Nat : n <= N => done[n] \in DecoderState /\ Left(n)}
  <2>3. 0 \in S
    <3>1. done[0] \in DecoderState /\ done[0].buffer = whole
      BY <2>0, <2>2, StartState DEF whole
    <3> QED
      BY <2>2, <3>1
  <2>4. ASSUME NEW n \in Nat, n \in S PROVE n + 1 \in S
    <3>0. n + 1 \in Nat
      OBVIOUS
    <3>1. SUFFICES ASSUME n + 1 <= N PROVE done[n + 1] \in DecoderState /\ Left(n + 1)
      BY <3>0, Zenon
    <3>2. n + 1 \in 1 .. N /\ (n + 1) - 1 = n /\ n <= N
      BY <3>1
    <3>3. done[n] \in DecoderState /\ Left(n)
      BY <2>4, <3>2
    <3>4. done[n + 1] = DecodeOne(done[n])
      BY <2>0, <3>2
    <3> DEFINE d == done[n]
               e == done[n + 1]
    <3>5. e \in DecoderState /\ (Done(e) \/ Len(e.buffer) + 5 <= Len(d.buffer))
      BY <3>3, <3>4, DecodeOneAdvances
    <3>6. Len(d.buffer) \in Nat /\ Len(e.buffer) \in Nat
      BY <3>3, <3>5 DEF DecoderState, DecoderRecord, Bytes
    <3>7. Done(d) => e = d
      BY <3>4 DEF Done
    <3>8. Done(d) \/ Len(d.buffer) + 5 * n <= Len(whole)
      BY <3>3
    <3> HIDE DEF d, e
    <3>9. Done(e) \/ Len(e.buffer) + 5 * (n + 1) <= Len(whole)
      <4>1. CASE Done(d)
        BY <3>7, <4>1, Zenon
      <4>2. CASE Done(e)
        BY <4>2, Zenon
      <4>3. CASE ~Done(d) /\ ~Done(e)
        <5>1. Len(e.buffer) + 5 <= Len(d.buffer) /\ Len(d.buffer) + 5 * n <= Len(whole)
          BY <3>5, <3>8, <4>3, Zenon
        <5>2. Len(e.buffer) + 5 * (n + 1) <= Len(whole)
          BY <2>2, <3>6, <5>1, FiveMore
        <5> QED
          BY <5>2, Zenon
      <4> QED
        BY <4>1, <4>2, <4>3, Zenon
    <3> QED
      BY <3>5, <3>9 DEF e
  <2> HIDE DEF S
  <2>5. N \in S
    BY <2>3, <2>4, SetNatInduction
  <2>6. done[N] \in DecoderState /\ Left(N)
    <3>1. N <= N
      OBVIOUS
    <3> QED
      BY <2>5, <3>1, Zenon DEF S
  <2>7. Len(done[N].buffer) \in Nat
    BY <2>6 DEF DecoderState, DecoderRecord, Bytes
  <2>8. 5 * N > Len(whole)
    BY <2>0 DEF whole
  <2>9. Done(done[N])
    <3>1. ~(Len(done[N].buffer) + 5 * N <= Len(whole))
      BY <2>2, <2>7, <2>8, TooMany
    <3> QED
      BY <2>6, <3>1, Zenon
  <2> QED
    BY <2>0, <2>6, <2>9 DEF Done
<1> QED
  BY <1>1, <1>2

(***************************************************************************)
(* The decoder on a stream of whole frames.                                *)
(***************************************************************************)
\* The same bytes, cut at the same place, have the same parts.
Aligned(a, b, c, d) == a \o b = c \o d /\ Len(a) = Len(c)

\* Two ways to cut the same bytes at the same place have the same parts.
LEMMA SameParts ==
  ASSUME NEW a \in Bytes, NEW b \in Bytes, NEW c \in Bytes, NEW d \in Bytes, Aligned(a, b, c, d)
  PROVE  a = c /\ b = d
<1>1. SubSeq(a \o b, 1, Len(a)) = a /\ From(a \o b, Len(a) + 1) = b
  BY PartsOfConcat DEF Bytes
<1>2. SubSeq(c \o d, 1, Len(c)) = c /\ From(c \o d, Len(c) + 1) = d
  BY PartsOfConcat DEF Bytes
<1> QED
  BY <1>1, <1>2 DEF Aligned

\* A whole frame is held.
Complete(held, after, frame, others) ==
  held \o after = frame \o others /\ Len(frame) <= Len(held)

\* A frame that is complete is cut off the stream whole.
LEMMA FrameOfStream ==
  ASSUME NEW held \in Bytes, NEW after \in Bytes, NEW frame \in Bytes, NEW others \in Bytes,
         Complete(held, after, frame, others)
  PROVE  /\ From(held, Len(frame) + 1) \o after = others
         /\ \A m \in 1 .. Len(frame) : SubSeq(held, m, Len(frame)) = From(frame, m)
<1> DEFINE h == SubSeq(held, 1, Len(frame))
           r == From(held, Len(frame) + 1)
<1>1. Len(frame) \in 0 .. Len(held) /\ held \in Seq(Byte)
  BY DEF Bytes, Complete
<1>2. h \in Seq(Byte) /\ Len(h) = Len(frame) /\ r \in Seq(Byte) /\ held = h \o r
  BY <1>1, CutInTwo
<1> HIDE DEF h, r
<1>3. h \in Bytes /\ r \in Bytes
  BY <1>2 DEF Bytes
<1>4. (h \o r) \o after = h \o (r \o after)
  <2>1. Associates(h, r, after)
    BY <1>3, BytesAssociate
  <2> QED
    BY <2>1 DEF Associates
<1>5. r \o after \in Bytes
  BY <1>3, ConcatIsBytes
<1>6. Aligned(h, r \o after, frame, others)
  BY <1>2, <1>4 DEF Aligned, Complete
<1>7. h = frame /\ r \o after = others
  BY <1>3, <1>5, <1>6, SameParts
<1>8. ASSUME NEW m \in 1 .. Len(frame) PROVE SubSeq(held, m, Len(frame)) = From(frame, m)
  <2>1. m \in 1 .. Len(h) /\ Len(frame) \in 1 .. Len(h)
    BY <1>1, <1>2
  <2>2. SubSeq(h \o r, m, Len(frame)) = SubSeq(h, m, Len(frame))
    BY <1>2, <2>1, SubSeqOfConcat1
  <2> QED
    BY <1>2, <1>7, <2>2 DEF From
<1> QED
  BY <1>7, <1>8 DEF r

\* The beginning of the stream is the beginning of a frame, and the decoder reads its length.
LEMMA HeadOfStream ==
  ASSUME NEW held \in Bytes, NEW after \in Bytes, NEW todo \in Seq(Frames),
         held \o after = Stream(todo), Len(held) >= 4
  PROVE  \E payload \in Frames : \E others \in Seq(Frames) :
           /\ todo = <<payload>> \o others
           /\ PeekLength(held) = Len(payload)
           /\ Len(held) >= 4 + Len(payload)
                => /\ SubSeq(held, 5, 4 + Len(payload)) = payload
                   /\ From(held, 5 + Len(payload)) \o after = Stream(others)
<1>1. /\ held \in Seq(Byte) /\ after \in Seq(Byte) /\ Len(held) \in Nat /\ Len(after) \in Nat
      /\ Len(held \o after) = Len(held) + Len(after)
      /\ \A i \in 1 .. Len(held) + Len(after) :
           (held \o after)[i] = IF i <= Len(held) THEN held[i] ELSE after[i - Len(held)]
  BY ConcatProperties DEF Bytes
<1>2. Stream(todo) # <<>>
  <2>1. Len(Stream(todo)) >= 4 /\ Len(<<>>) = 0
    BY <1>1
  <2> QED
    BY <2>1
<1>3. PICK payload \in Frames, others \in Seq(Frames) :
        /\ todo = <<payload>> \o others
        /\ Stream(todo) = EncodeFrame(payload) \o Stream(others)
  BY <1>2, StreamBegins
<1> DEFINE F == EncodeFrame(payload)
           T == Stream(others)
           n == Len(payload)
<1>4. /\ F \in Bytes /\ Len(F) = 4 + n /\ PeekLength(F) = n /\ From(F, 5) = payload
      /\ T \in Bytes /\ n \in Nat \ {0}
  BY EncodedFrame, StreamIsBytes, FramesAreBytes
<1> HIDE DEF F, T, n
<1>5. held \o after = F \o T
  BY <1>3 DEF F, T
<1>6. PeekLength(held) = n
  <2>1. /\ Len(F \o T) = Len(F) + Len(T) /\ Len(T) \in Nat
        /\ \A i \in 1 .. Len(F) + Len(T) : (F \o T)[i] = IF i <= Len(F) THEN F[i] ELSE T[i - Len(F)]
    <3>1. F \in Seq(Byte) /\ T \in Seq(Byte)
      BY <1>4 DEF Bytes
    <3> QED
      BY <3>1, ConcatProperties
  <2>2. ASSUME NEW i \in 1 .. 4
        PROVE  held[i] = F[i]
    <3>1. (held \o after)[i] = held[i]
      BY <1>1
    <3>2. (F \o T)[i] = F[i]
      BY <1>4, <2>1
    <3> QED
      BY <1>5, <3>1, <3>2
  <2>3. held[1] = F[1] /\ held[2] = F[2] /\ held[3] = F[3] /\ held[4] = F[4]
    BY <2>2
  <2> QED
    BY <1>4, <2>3 DEF PeekLength
<1>7. ASSUME Len(held) >= 4 + n
      PROVE  SubSeq(held, 5, 4 + n) = payload /\ From(held, 5 + n) \o after = T
  <2>1. /\ Len(F) <= Len(held) /\ 5 \in 1 .. Len(F) /\ Len(F) + 1 = 5 + n
    BY <1>1, <1>4, <1>7
  <2>2. From(held, Len(F) + 1) \o after = T /\ SubSeq(held, 5, Len(F)) = From(F, 5)
    <3>1. F \in Bytes /\ T \in Bytes /\ 5 \in 1 .. Len(F) /\ Complete(held, after, F, T)
      BY <1>4, <1>5, <2>1 DEF Complete
    <3> QED
      BY <3>1, FrameOfStream
  <2> QED
    BY <1>4, <2>1, <2>2
<1> QED
  BY <1>3, <1>6, <1>7 DEF T, n

\* What is decoded, held and still to come is what was to come.
Keeps(d, after, todo) ==
  /\ ~d.error
  /\ \E left \in Seq(Frames) : todo = d.frames \o left /\ d.buffer \o after = Stream(left)

\* A step of the decoder keeps what is left to decode.
LEMMA DecodeOneKeeps ==
  ASSUME NEW d \in DecoderState, NEW after \in Bytes, NEW todo \in Seq(Frames),
         Keeps(d, after, todo)
  PROVE  Keeps(DecodeOne(d), after, todo)
<1>1. /\ d \in DecoderRecord /\ d.buffer \in Bytes /\ d.frames \in Seq(Frames) /\ ~d.error
      /\ Len(d.buffer) \in Nat
  BY DEF DecoderState, DecoderRecord, Keeps, Bytes
<1>2. PICK left \in Seq(Frames) : todo = d.frames \o left /\ d.buffer \o after = Stream(left)
  BY DEF Keeps
<1>3. CASE Len(d.buffer) < 4
  BY <1>3, DecodeOneCases
<1>4. CASE ~(Len(d.buffer) < 4)
  <2>0. Len(d.buffer) >= 4
    BY <1>1, <1>4
  <2>1. PICK payload \in Frames : \E others \in Seq(Frames) :
          /\ left = <<payload>> \o others
          /\ PeekLength(d.buffer) = Len(payload)
          /\ Len(d.buffer) >= 4 + Len(payload)
               => /\ SubSeq(d.buffer, 5, 4 + Len(payload)) = payload
                  /\ From(d.buffer, 5 + Len(payload)) \o after = Stream(others)
    BY <1>1, <1>2, <2>0, HeadOfStream
  <2>2. PICK others \in Seq(Frames) :
          /\ left = <<payload>> \o others
          /\ PeekLength(d.buffer) = Len(payload)
          /\ Len(d.buffer) >= 4 + Len(payload)
               => /\ SubSeq(d.buffer, 5, 4 + Len(payload)) = payload
                  /\ From(d.buffer, 5 + Len(payload)) \o after = Stream(others)
    BY <2>1
  <2> DEFINE n == Len(payload)
  <2>3. n \in 1 .. MaxFrameBytes /\ n \in Nat
    BY FramesAreBytes
  <2>4. DecodeOne(d) = IF Len(d.buffer) < 4 + n THEN d ELSE Taken(d, n)
    BY <1>1, <1>4, <2>2, <2>3, DecodeOneCases
  <2> HIDE DEF n
  <2>5. CASE Len(d.buffer) < 4 + n
    BY <2>4, <2>5
  <2>6. CASE ~(Len(d.buffer) < 4 + n)
    <3>1. 4 + n <= Len(d.buffer) /\ Len(d.buffer) >= 4 + n
      BY <1>1, <2>3, <2>6
    <3>2. /\ ~Taken(d, n).error
          /\ Taken(d, n).frames = Append(d.frames, payload)
          /\ Taken(d, n).buffer = From(d.buffer, 5 + n)
      BY <1>1, <2>2, <2>3, <3>1, TakenFrame DEF n
    <3>3. From(d.buffer, 5 + n) \o after = Stream(others)
      BY <2>2, <3>1 DEF n
    <3>4. todo = Append(d.frames, payload) \o others
      <4> DEFINE one == <<payload>>
      <4>1. one \in Seq(Frames)
        OBVIOUS
      <4>2. Append(d.frames, payload) = d.frames \o one
        BY <1>1, AppendIsConcat
      <4>3. todo = d.frames \o (one \o others)
        BY <1>2, <2>2
      <4> DEFINE f == d.frames
      <4>4. f \in Seq(Frames)
        BY <1>1
      <4> HIDE DEF one, f
      <4>5. (f \o one) \o others = f \o (one \o others)
        <5>1. Associates(f, one, others)
          BY <4>1, <4>4, SequencesAssociate
        <5> QED
          BY <5>1 DEF Associates
      <4> QED
        BY <4>2, <4>3, <4>5 DEF f
    <3> QED
      BY <2>4, <2>6, <3>2, <3>3, <3>4 DEF Keeps
  <2> QED
    BY <2>5, <2>6
<1> QED
  BY <1>3, <1>4

\* A read that is not over the limit of the buffer loses nothing and never fails.
LEMMA FeedKeeps ==
  ASSUME NEW held \in Bytes, NEW bytes \in Bytes, NEW after \in Bytes, NEW todo \in Seq(Frames),
         (held \o bytes) \o after = Stream(todo),
         ~(Len(held) + Len(bytes) > MaxBufferedBytes)
  PROVE  Keeps(Feed(held, bytes), after, todo)
<1>1. PICK N \in Nat : \E done :
        /\ Feed(held, bytes) = done[N] /\ done[0] = Start(held \o bytes)
        /\ \A n \in 1 .. N : done[n] = DecodeOne(done[n - 1])
        /\ 5 * N > Len(held \o bytes)
  BY FeedRuns
<1>2. PICK done :
        /\ Feed(held, bytes) = done[N] /\ done[0] = Start(held \o bytes)
        /\ \A n \in 1 .. N : done[n] = DecodeOne(done[n - 1])
  BY <1>1
<1> DEFINE whole == held \o bytes
           V == {d \in DecoderState : Keeps(d, after, todo)}
<1>3. whole \in Bytes
  BY ConcatProperties DEF Bytes
<1>4. Start(whole) \in V
  <2>1. Start(whole) \in DecoderState
    BY <1>3, StartState
  <2>2. todo = <<>> \o todo
    BY ConcatEmptySeq
  <2>3. Start(whole).frames = <<>> /\ Start(whole).buffer = whole /\ ~Start(whole).error
    BY DEF Start
  <2> HIDE DEF whole
  <2>4. Keeps(Start(whole), after, todo)
    BY <2>2, <2>3 DEF Keeps, whole
  <2> QED
    BY <2>1, <2>4
<1>5. ASSUME NEW n \in 1 .. N, done[n - 1] \in V PROVE done[n] \in V
  BY <1>2, <1>5, DecodeOneAdvances, DecodeOneKeeps
<1> HIDE DEF V
<1>6. done[N] \in V
  BY <1>2, <1>4, <1>5, RunStays
<1> QED
  BY <1>2, <1>6 DEF V

(***************************************************************************)
(* The invariant.                                                          *)
(***************************************************************************)
\* What a sender has still to write of its frame.
Writing == [frame : Bytes, done : Nat]
Remaining(w) == From(w.frame, w.done + 1)

\* The rest of the frame that is begun, of which there is at most one.
RestIs(o, rest) ==
  /\ \A t \in Senders : o[t].done > 0 => rest = Remaining(o[t])
  /\ (\A t \in Senders : ~(o[t].done > 0)) => rest = <<>>

Alone(o) == \A t, u \in Senders : (o[t].done > 0 /\ o[u].done > 0) => t = u

WritesFrames(o) ==
  /\ o \in [Senders -> Writing]
  /\ \A t \in Senders :
       o[t] # Idle => /\ o[t].done < Len(o[t].frame)
                      /\ \E payload \in Frames : o[t].frame = EncodeFrame(payload)

\* What is held, on its way and still to be written is the stream of the frames to come.
OnTheWay(todo) ==
  \E rest \in Bytes : /\ (buffer \o wire) \o rest = Stream(todo)
                      /\ writable => RestIs(out, rest)

InOrder ==
  ~torn => \E todo \in Seq(Frames) : /\ sent = (delivered \o pending) \o todo
                                     /\ readable => OnTheWay(todo)

Types ==
  /\ WritesFrames(out)
  /\ writable \in BOOLEAN /\ failed \in BOOLEAN /\ readable \in BOOLEAN /\ torn \in BOOLEAN
  /\ wire \in Bytes /\ buffer \in Bytes
  /\ pending \in Seq(Frames) /\ sent \in Seq(Frames) /\ delivered \in Seq(Frames)

IInv ==
  /\ Types
  /\ (writable /\ ~torn) => Alone(out)
  /\ InOrder
  /\ DecoderIsBounded

\* A sender that is idle has written nothing.
LEMMA IdleIsWriting == Idle \in Writing /\ Idle.done = 0 /\ Idle.frame = <<>>
<1>1. <<>> \in Bytes
  BY DEF Bytes
<1> QED
  BY <1>1 DEF Idle, Writing

\* What has not begun a frame does not count.
LEMMA OnlyBegunCount ==
  ASSUME NEW o, NEW p, NEW rest,
         \A t \in Senders : /\ o[t].done > 0 => p[t] = o[t]
                            /\ p[t].done > 0 => o[t].done > 0
  PROVE  /\ RestIs(o, rest) => RestIs(p, rest)
         /\ Alone(o) => Alone(p)
BY DEF RestIs, Alone

\* A sender starts a frame or gives one up.
LEMMA OneSenderChanges ==
  ASSUME NEW t \in Senders, NEW w \in Writing, WritesFrames(out), out' = [out EXCEPT ![t] = w],
         w # Idle => /\ w.done < Len(w.frame)
                     /\ \E payload \in Frames : w.frame = EncodeFrame(payload)
  PROVE  WritesFrames(out') /\ \A u \in Senders : out'[u] = IF u = t THEN w ELSE out[u]
BY DEF WritesFrames

\* The invariant holds to begin with.
LEMMA InitIInv == Init => IInv
<1> SUFFICES ASSUME Init PROVE IInv
  OBVIOUS
<1>1. Types
  <2>1. WritesFrames(out)
    BY IdleIsWriting DEF WritesFrames, Init
  <2>2. writable \in BOOLEAN /\ failed \in BOOLEAN /\ readable \in BOOLEAN /\ torn \in BOOLEAN
    BY Zenon DEF Init
  <2>3. wire \in Bytes /\ buffer \in Bytes
    BY DEF Bytes, Init
  <2>4. pending \in Seq(Frames) /\ sent \in Seq(Frames) /\ delivered \in Seq(Frames)
    BY DEF Init
  <2> QED
    BY <2>1, <2>2, <2>3, <2>4, Zenon DEF Types
<1>2. \A t \in Senders : ~(out[t].done > 0)
  <2>1. \A t \in Senders : out[t] = Idle
    BY DEF Init
  <2>2. Idle.done = 0
    BY IdleIsWriting
  <2>3. ~(Idle.done > 0)
    BY <2>2
  <2>4. ASSUME NEW t \in Senders PROVE ~(out[t].done > 0)
    BY <2>1, <2>3, Zenon
  <2> QED
    BY <2>4, Zenon
<1>3. Alone(out)
  BY <1>2 DEF Alone
<1>4. InOrder
  <2>1. <<>> \in Seq(Frames) /\ <<>> \in Bytes
    BY DEF Bytes
  <2>2. (delivered \o pending) \o <<>> = sent
    BY DEF Init
  <2>3. (buffer \o wire) \o <<>> = <<>>
    BY DEF Init
  <2>4. RestIs(out, <<>>)
    BY <1>2 DEF RestIs
  <2>5. OnTheWay(<<>>)
    BY <2>1, <2>3, <2>4, EmptyStream DEF OnTheWay
  <2> QED
    BY <2>1, <2>2, <2>5 DEF InOrder
<1>5. DecoderIsBounded
  BY TcpAssumption DEF DecoderIsBounded, Init
<1> QED
  BY <1>1, <1>3, <1>4, <1>5 DEF IInv

(***************************************************************************)
(* The sending end.                                                        *)
(***************************************************************************)
\* A step that leaves what is begun and the bytes alone keeps everything else in order.
LEMMA SenderStep ==
  ASSUME IInv, WritesFrames(out'), writable' \in BOOLEAN, torn' \in BOOLEAN,
         UNCHANGED <<wire, sent, receiverVars>>,
         writable' => writable,
         torn => torn',
         (writable' /\ ~torn') =>
           \A t \in Senders : /\ out[t].done > 0 => out'[t] = out[t]
                              /\ out'[t].done > 0 => out[t].done > 0
  PROVE  IInv'
<1> USE DEF receiverVars
<1>1. Types'
  BY DEF IInv, Types
<1>2. (writable' /\ ~torn') => Alone(out')
  BY OnlyBegunCount DEF IInv
<1>3. InOrder'
  <2> SUFFICES ASSUME ~torn'
               PROVE  \E todo \in Seq(Frames) : /\ sent' = (delivered' \o pending') \o todo
                                                /\ readable' => OnTheWay(todo)'
    BY DEF InOrder
  <2>1. PICK todo \in Seq(Frames) : /\ sent = (delivered \o pending) \o todo
                                    /\ readable => OnTheWay(todo)
    BY DEF IInv, InOrder
  <2>2. ASSUME readable PROVE OnTheWay(todo)'
    <3>1. PICK rest \in Bytes : /\ (buffer \o wire) \o rest = Stream(todo)
                                /\ writable => RestIs(out, rest)
      BY <2>1, <2>2 DEF OnTheWay
    <3>2. writable' => RestIs(out', rest)
      BY <3>1, OnlyBegunCount
    <3>3. (buffer' \o wire') \o rest = Stream(todo)
      BY <3>1
    <3> QED
      BY <3>2, <3>3 DEF OnTheWay
  <2> QED
    BY <2>1, <2>2
<1>4. DecoderIsBounded'
  BY DEF IInv, DecoderIsBounded
<1> QED
  BY <1>1, <1>2, <1>3, <1>4 DEF IInv

\* A sender takes the socket for a frame.
LEMMA SendFrameKeeps ==
  ASSUME IInv, NEW t \in Senders, NEW payload \in Payloads, SendFrame(t, payload)
  PROVE  IInv'
<1> DEFINE w == [frame |-> EncodeFrame(payload), done |-> 0]
<1>1. payload \in Frames
  BY TcpAssumption DEF SendFrame, Frames, Bytes
<1>2. w \in Writing /\ w.done = 0 /\ w.frame = EncodeFrame(payload) /\ w.done < Len(w.frame)
  BY <1>1, EncodedFrame, FramesAreBytes DEF Writing
<1>3. /\ WritesFrames(out) /\ out' = [out EXCEPT ![t] = w]
      /\ writable \in BOOLEAN /\ torn \in BOOLEAN
      /\ UNCHANGED <<writable, wire, sent, torn, receiverVars>>
  BY DEF IInv, Types, SendFrame
<1> HIDE DEF w
<1>4. WritesFrames(out') /\ \A u \in Senders : out'[u] = IF u = t THEN w ELSE out[u]
  BY <1>1, <1>2, <1>3, OneSenderChanges
<1>5. out[t].done = 0
  BY IdleIsWriting DEF SendFrame, Busy
<1>6. \A u \in Senders : /\ out[u].done > 0 => out'[u] = out[u]
                         /\ out'[u].done > 0 => out[u].done > 0
  BY <1>2, <1>4, <1>5
<1> QED
  BY <1>3, <1>4, <1>6, SenderStep

\* A flush takes too long, and the sender gives up.
LEMMA SendTimesOutKeeps ==
  ASSUME IInv, NEW t \in Senders, SendTimesOut(t)
  PROVE  IInv'
<1>1. WritesFrames(out') /\ \A u \in Senders : out'[u] = IF u = t THEN Idle ELSE out[u]
  BY IdleIsWriting, OneSenderChanges DEF IInv, Types, SendTimesOut
<1>2. /\ writable' \in BOOLEAN /\ torn' \in BOOLEAN
      /\ writable' => writable
      /\ torn => torn'
      /\ UNCHANGED <<wire, sent, receiverVars>>
  BY DEF IInv, Types, SendTimesOut
<1>3. (writable' /\ ~torn') => ~(out[t].done > 0)
  BY DEF SendTimesOut, Begun
<1>4. (writable' /\ ~torn') =>
        \A u \in Senders : /\ out[u].done > 0 => out'[u] = out[u]
                           /\ out'[u].done > 0 => out[u].done > 0
  BY <1>1, <1>3, IdleIsWriting
<1> QED
  BY <1>1, <1>2, <1>4, SenderStep

\* A write fails.
LEMMA SendFailsKeeps ==
  ASSUME IInv, NEW t \in Senders, SendFails(t)
  PROVE  IInv'
<1>1. WritesFrames(out')
  BY IdleIsWriting, OneSenderChanges DEF IInv, Types, SendFails
<1>2. /\ writable' = FALSE /\ torn' = torn /\ torn \in BOOLEAN
      /\ UNCHANGED <<wire, sent, receiverVars>>
  BY DEF IInv, Types, SendFails
<1> QED
  BY <1>1, <1>2, SenderStep

\* The peer sends a header no frame has.
LEMMA MisframeKeeps ==
  ASSUME IInv, NEW header \in BadHeaders, Misframe(header)
  PROVE  IInv'
<1> USE DEF Misframe, senderVars, receiverVars
<1>1. wire' \in Bytes
  <2>1. header \in Bytes /\ wire \in Bytes
    BY TcpAssumption DEF IInv, Types, Bytes
  <2> QED
    BY <2>1, ConcatIsBytes
<1>2. Types'
  BY <1>1 DEF IInv, Types
<1>3. torn' = TRUE
  OBVIOUS
<1>4. DecoderIsBounded'
  BY DEF IInv, DecoderIsBounded
<1> QED
  BY <1>2, <1>3, <1>4 DEF IInv, InOrder

\* What is written moves from the frame to the wire.
LEMMA WrittenPiece ==
  ASSUME NEW frame \in Bytes, NEW k \in Nat, NEW n \in Nat \ {0}, k + n <= Len(frame)
  PROVE  /\ SubSeq(frame, k + 1, k + n) \in Bytes
         /\ From(frame, k + n + 1) \in Bytes
         /\ From(frame, k + 1) = SubSeq(frame, k + 1, k + n) \o From(frame, k + n + 1)
         /\ k + n = Len(frame) => From(frame, k + n + 1) = <<>>
<1>1. frame \in Seq(Byte) /\ Len(frame) \in Nat
  BY DEF Bytes
<1>2. SubSeq(frame, k + 1, k + n) \in Bytes
  <2>1. \A i \in k + 1 .. k + n : frame[i] \in Byte
    BY <1>1
  <2> QED
    BY <2>1, SubSeqProperties DEF Bytes
<1>3. k + n + 1 \in 1 .. Len(frame) + 1
  BY <1>1
<1>4. From(frame, k + n + 1) \in Bytes
  BY <1>1, <1>3, FromProperties DEF Bytes
<1>5. /\ k + 1 \in 1 .. Len(frame) + 1 /\ k + n \in (k + 1) - 1 .. Len(frame)
      /\ Len(frame) \in k + n .. Len(frame)
  BY <1>1
<1>6. SubSeq(frame, k + 1, k + n) \o SubSeq(frame, (k + n) + 1, Len(frame))
        = SubSeq(frame, k + 1, Len(frame))
  BY <1>1, <1>5, ConcatAdjacentSubSeq
<1>7. k + n = Len(frame) => From(frame, k + n + 1) = <<>>
  BY <1>1, SubSeqEmpty DEF From
<1> QED
  BY <1>2, <1>4, <1>6, <1>7 DEF From

Moves(b, w, p, r) == (b \o (w \o p)) \o r = (b \o w) \o (p \o r)

\* A piece that goes from the sender to the wire leaves the bytes in their order.
LEMMA PieceMoves ==
  ASSUME NEW b \in Bytes, NEW w \in Bytes, NEW p \in Bytes, NEW r \in Bytes
  PROVE  Moves(b, w, p, r)
<1> DEFINE x == b \o w
<1>1. x \in Bytes
  BY ConcatIsBytes
<1>2. b \o (w \o p) = x \o p
  <2>1. (b \o w) \o p = b \o (w \o p)
    BY ConcatAssociates
  <2> QED
    BY <2>1
<1> HIDE DEF x
<1>3. (x \o p) \o r = x \o (p \o r)
  BY <1>1, ConcatAssociates
<1> QED
  BY <1>2, <1>3 DEF x, Moves

\* A sender writes a piece of its frame.
LEMMA WriteKeeps ==
  ASSUME IInv, NEW t \in Senders,
         NEW n \in Pieces \cup {Len(out[t].frame) - out[t].done}, Write(t, n)
  PROVE  IInv'
<1> DEFINE frame == out[t].frame
           k == out[t].done
           w == IF k + n = Len(frame) THEN Idle ELSE [frame |-> frame, done |-> k + n]
           piece == SubSeq(frame, k + 1, k + n)
           rest2 == From(frame, k + n + 1)
<1>1. /\ WritesFrames(out) /\ wire \in Bytes /\ buffer \in Bytes
      /\ pending \in Seq(Frames) /\ sent \in Seq(Frames) /\ delivered \in Seq(Frames)
      /\ writable \in BOOLEAN /\ failed \in BOOLEAN /\ readable \in BOOLEAN /\ torn \in BOOLEAN
  BY DEF IInv, Types
<1>2. out[t] \in Writing /\ frame \in Bytes /\ k \in Nat
  BY <1>1 DEF WritesFrames, Writing
<1>3. PICK payload \in Frames : frame = EncodeFrame(payload)
  BY <1>1 DEF Write, Busy, WritesFrames
<1>4. k < Len(frame) /\ k + n <= Len(frame)
  BY <1>1 DEF Write, Busy, WritesFrames
<1>5. n \in Nat \ {0}
  <2>1. Len(frame) \in Nat
    BY <1>2 DEF Bytes
  <2> QED
    BY <1>2, <1>4, <2>1, TcpAssumption
<1>6. /\ writable /\ writable' = writable
      /\ wire' = wire \o piece
      /\ out' = [out EXCEPT ![t] = IF k + n = Len(frame) THEN Idle ELSE [@ EXCEPT !.done = k + n]]
      /\ sent' = IF k > 0 THEN sent ELSE Append(sent, From(frame, 5))
      /\ torn' = (torn \/ \E other \in Senders \ {t} : Begun(other))
      /\ UNCHANGED <<buffer, failed, pending, readable, delivered>>
  BY DEF Write, Begun, receiverVars
<1>7. out' = [out EXCEPT ![t] = w]
  <2>1. [out[t] EXCEPT !.done = k + n] = [frame |-> frame, done |-> k + n]
    BY <1>2 DEF Writing
  <2> QED
    BY <1>6, <2>1
<1>8. /\ piece \in Bytes /\ rest2 \in Bytes /\ From(frame, k + 1) = piece \o rest2
      /\ k + n = Len(frame) => rest2 = <<>>
  BY <1>2, <1>4, <1>5, WrittenPiece
<1>9. /\ w \in Writing
      /\ w.done > 0 => w.frame = frame /\ w.done = k + n /\ k + n < Len(frame)
      /\ ~(w.done > 0) => k + n = Len(frame)
      /\ w # Idle => w.frame = frame /\ w.done < Len(w.frame)
  <2>1. CASE k + n = Len(frame)
    <3>1. w = Idle
      BY <2>1
    <3> QED
      BY <2>1, <3>1, IdleIsWriting
  <2>2. CASE k + n # Len(frame)
    <3>1. Len(frame) \in Nat
      BY <1>2 DEF Bytes
    <3>2. w = [frame |-> frame, done |-> k + n]
      BY <2>2
    <3> HIDE DEF frame, k, w
    <3>3. w \in Writing /\ w.frame = frame /\ w.done = k + n
      BY <1>2, <1>5, <3>2 DEF Writing
    <3> QED
      BY <1>2, <1>4, <1>5, <2>2, <3>1, <3>3
  <2> QED
    BY <2>1, <2>2
<1> HIDE DEF w
<1>10. WritesFrames(out') /\ \A u \in Senders : out'[u] = IF u = t THEN w ELSE out[u]
  <2>1. w # Idle => w.done < Len(w.frame) /\ \E q \in Frames : w.frame = EncodeFrame(q)
    BY <1>3, <1>9
  <2>2. WritesFrames(out) /\ w \in Writing
    BY <1>1, <1>9
  <2> QED
    BY <1>7, <2>1, <2>2, OneSenderChanges
<1> HIDE DEF frame, piece, rest2
<1>11. From(frame, 5) = payload /\ frame \in Bytes /\ Len(frame) = 4 + Len(payload)
  BY <1>3, EncodedFrame
<1>12. wire' \in Bytes /\ sent' \in Seq(Frames)
  <2>1. wire' \in Bytes
    BY <1>1, <1>6, <1>8, ConcatIsBytes
  <2>2. Append(sent, payload) \in Seq(Frames)
    BY <1>1
  <2> QED
    BY <1>1, <1>6, <1>11, <2>1, <2>2
<1>13. Types'
  BY <1>1, <1>6, <1>10, <1>12, Zenon DEF Types, IInv
<1>14. ASSUME ~torn'
       PROVE  ~torn /\ \A u \in Senders : u # t => ~(out[u].done > 0) /\ ~(out'[u].done > 0)
  BY <1>6, <1>10, <1>14 DEF Begun
<1>15. ~torn' => Alone(out')
  BY <1>14 DEF Alone
<1>16. InOrder'
  <2> SUFFICES ASSUME ~torn'
               PROVE  \E todo \in Seq(Frames) : /\ sent' = (delivered' \o pending') \o todo
                                                /\ readable' => OnTheWay(todo)'
    BY DEF InOrder
  <2>1. PICK todo \in Seq(Frames) : /\ sent = (delivered \o pending) \o todo
                                    /\ readable => OnTheWay(todo)
    BY <1>14 DEF IInv, InOrder
  <2> DEFINE before == delivered \o pending
  <2>0. PICK todo2 \in Seq(Frames) : todo2 = IF k > 0 THEN todo ELSE Append(todo, payload)
    <3>1. Append(todo, payload) \in Seq(Frames)
      OBVIOUS
    <3> QED
      BY <3>1, Zenon
  <2>2. before \in Seq(Frames)
    BY <1>1, ConcatProperties
  <2>3. sent' = before \o todo2
    <3>1. CASE k > 0
      BY <1>6, <2>0, <2>1, <3>1
    <3>2. CASE ~(k > 0)
      <4> DEFINE one == <<payload>>
      <4>1. one \in Seq(Frames)
        OBVIOUS
      <4>2. Append(sent, payload) = sent \o one /\ Append(todo, payload) = todo \o one
        BY <1>1, AppendIsConcat
      <4> HIDE DEF before, one
      <4>3. (before \o todo) \o one = before \o (todo \o one)
        BY <2>2, <4>1, ConcatAssociative
      <4>4. sent' = Append(sent, payload) /\ sent = before \o todo /\ todo2 = Append(todo, payload)
        BY <1>6, <1>11, <2>0, <2>1, <3>2 DEF before
      <4> QED
        BY <4>2, <4>3, <4>4
    <3> QED
      BY <3>1, <3>2
  <2>4. ASSUME readable PROVE OnTheWay(todo2)'
    <3>1. PICK rest \in Bytes : (buffer \o wire) \o rest = Stream(todo) /\ RestIs(out, rest)
      BY <1>6, <2>1, <2>4 DEF OnTheWay
    <3> DEFINE here == buffer \o wire
    <3>2. here \in Bytes
      BY <1>1, ConcatIsBytes
    <3>3. here \o From(frame, k + 1) = Stream(todo2)
      <4>1. CASE k > 0
        <5>1. rest = From(frame, k + 1)
          BY <3>1, <4>1 DEF RestIs, Remaining, frame
        <5> QED
          BY <2>0, <3>1, <4>1, <5>1
      <4>2. CASE ~(k > 0)
        <5>1. k = 0 /\ \A u \in Senders : ~(out[u].done > 0)
          BY <1>2, <1>14, <4>2
        <5>2. rest = <<>>
          BY <3>1, <5>1 DEF RestIs
        <5>3. here = Stream(todo)
          BY <3>1, <3>2, <5>2, ConcatEmptySeq DEF Bytes
        <5>4. From(frame, k + 1) = frame
          BY <1>11, <5>1, SubSeqFull DEF From, Bytes
        <5>5. Stream(Append(todo, payload)) = Stream(todo) \o frame
          <6> DEFINE one == <<payload>>
          <6>1. one \in Seq(Frames) /\ Stream(one) = frame
            BY <1>3, StreamOfOne
          <6>2. Append(todo, payload) = todo \o one
            BY AppendIsConcat
          <6> HIDE DEF one
          <6>3. Stream(todo \o one) = Stream(todo) \o Stream(one)
            BY <6>1, StreamOfConcat
          <6> QED
            BY <6>1, <6>2, <6>3
        <5> QED
          BY <2>0, <4>2, <5>3, <5>4, <5>5
      <4> QED
        BY <4>1, <4>2
    <3>4. (buffer \o (wire \o piece)) \o rest2 = (buffer \o wire) \o (piece \o rest2)
      <4>1. buffer \in Bytes /\ wire \in Bytes /\ piece \in Bytes /\ rest2 \in Bytes
        BY <1>1, <1>8
      <4>2. Moves(buffer, wire, piece, rest2)
        BY <4>1, PieceMoves
      <4> QED
        BY <4>2 DEF Moves
    <3>5. (buffer' \o wire') \o rest2 = Stream(todo2)
      BY <1>6, <1>8, <3>3, <3>4
    <3>6. RestIs(out', rest2)
      <4>1. ASSUME NEW u \in Senders, out'[u].done > 0 PROVE rest2 = Remaining(out'[u])
        <5>1. u = t /\ out'[u] = w
          BY <1>10, <1>14, <4>1
        <5>2. w.frame = frame /\ w.done = k + n
          BY <1>9, <4>1, <5>1
        <5> QED
          BY <5>1, <5>2 DEF Remaining, rest2
      <4>2. ASSUME \A u \in Senders : ~(out'[u].done > 0) PROVE rest2 = <<>>
        <5>1. ~(w.done > 0)
          BY <1>10, <4>2
        <5> QED
          BY <1>8, <1>9, <5>1
      <4> QED
        BY <4>1, <4>2 DEF RestIs
    <3> QED
      BY <1>8, <3>5, <3>6 DEF OnTheWay
  <2> QED
    BY <1>6, <2>3, <2>4
<1>17. DecoderIsBounded'
  BY <1>6 DEF IInv, DecoderIsBounded
<1> QED
  BY <1>13, <1>15, <1>16, <1>17 DEF IInv

(***************************************************************************)
(* The receiving end.                                                      *)
(***************************************************************************)
LEMMA FeedOverLimit ==
  ASSUME NEW held, NEW bytes, Len(held) + Len(bytes) > MaxBufferedBytes
  PROVE  Feed(held, bytes).error = TRUE
BY DEF Feed

\* A decoded frame is delivered at once and the others wait.
LEMMA HeadAndTail ==
  ASSUME NEW frames \in Seq(Frames), frames # <<>>, NEW before \in Seq(Frames)
  PROVE  /\ Append(before, Head(frames)) \in Seq(Frames) /\ Tail(frames) \in Seq(Frames)
         /\ Append(before, Head(frames)) \o Tail(frames) = before \o frames
<1> DEFINE e == Head(frames)
           r == Tail(frames)
           one == <<e>>
<1>1. e \in Frames /\ r \in Seq(Frames)
  BY HeadTailProperties
<1>2. frames = one \o r
  <2>1. 1 \in 1 .. Len(frames) /\ Len(frames) \in 1 .. Len(frames)
    OBVIOUS
  <2>2. SubSeq(frames, 1, Len(frames)) = <<frames[1]>> \o SubSeq(frames, 1 + 1, Len(frames))
    BY <2>1, SubSeqRecursiveFirst
  <2>3. SubSeq(frames, 1, Len(frames)) = frames /\ r = SubSeq(frames, 2, Len(frames))
    BY SubSeqFull, TailIsSubSeq
  <2>4. frames[1] = e /\ 1 + 1 = 2
    OBVIOUS
  <2> QED
    BY <2>2, <2>3, <2>4
<1> HIDE DEF e, r
<1>3. one \in Seq(Frames)
  BY <1>1
<1>4. Append(before, e) = before \o one /\ Append(before, e) \in Seq(Frames)
  BY <1>1, AppendIsConcat
<1> HIDE DEF one
<1>5. (before \o one) \o r = before \o (one \o r)
  <2>1. Associates(before, one, r)
    BY <1>1, <1>3, SequencesAssociate
  <2> QED
    BY <2>1 DEF Associates
<1> QED
  BY <1>1, <1>2, <1>4, <1>5 DEF e, r

\* The receiver takes bytes off the wire and decodes what it holds.
LEMMA ReceiveKeeps ==
  ASSUME IInv, NEW n \in Receivable, Receive(n)
  PROVE  IInv'
<1> DEFINE bytes == SubSeq(wire, 1, n)
           later == From(wire, n + 1)
           fed == Feed(buffer, bytes)
           over == Len(buffer) + Len(bytes) > MaxBufferedBytes
<1>1. /\ WritesFrames(out) /\ wire \in Bytes /\ buffer \in Bytes
      /\ sent \in Seq(Frames) /\ delivered \in Seq(Frames) /\ pending \in Seq(Frames)
      /\ writable \in BOOLEAN /\ torn \in BOOLEAN
      /\ Len(buffer) < 4 + MaxFrameBytes
  BY DEF IInv, Types, DecoderIsBounded
<1>2. Len(wire) \in Nat /\ n \in 0 .. Len(wire) /\ n \in Nat /\ n <= ReceiveBytes
  BY <1>1, TcpAssumption DEF Receivable, Bytes
<1>3. bytes \in Bytes /\ Len(bytes) = n /\ later \in Bytes /\ wire = bytes \o later
  BY <1>1, <1>2, CutInTwo DEF Bytes
<1>4. /\ readable /\ pending = <<>>
      /\ wire' = later /\ buffer' = fed.buffer /\ failed' = fed.error /\ readable' = ~fed.error
      /\ (fed.error \/ fed.frames = <<>>) => UNCHANGED <<pending, delivered>>
      /\ ~(fed.error \/ fed.frames = <<>>)
           => delivered' = Append(delivered, Head(fed.frames)) /\ pending' = Tail(fed.frames)
      /\ UNCHANGED <<out, writable, sent, torn>>
  BY DEF Receive, senderVars
<1> HIDE DEF bytes, later
<1>5. fed \in DecoderState /\ Len(fed.buffer) < 4 + MaxFrameBytes
  BY <1>1, <1>3, FeedEnds
<1>6. over => fed.error = TRUE
  BY FeedOverLimit
<1> HIDE DEF fed
<1>7. /\ fed.buffer \in Bytes /\ fed.frames \in Seq(Frames) /\ fed.error \in BOOLEAN
      /\ fed.error => fed.buffer = <<>>
  BY <1>5 DEF DecoderState, DecoderRecord
<1>8. /\ delivered' \in Seq(Frames) /\ pending' \in Seq(Frames)
      /\ fed.error => delivered' = delivered /\ pending' = pending
      /\ ~fed.error => delivered' \o pending' = delivered \o fed.frames
  <2>1. CASE fed.error \/ fed.frames = <<>>
    BY <1>1, <1>4, <2>1
  <2>2. CASE ~(fed.error \/ fed.frames = <<>>)
    BY <1>1, <1>4, <1>7, <2>2, HeadAndTail
  <2> QED
    BY <2>1, <2>2
<1>9. Types'
  <2>1. failed' \in BOOLEAN /\ readable' \in BOOLEAN
    BY <1>4, <1>7
  <2> QED
    BY <1>1, <1>3, <1>4, <1>7, <1>8, <2>1 DEF Types
<1>10. (writable' /\ ~torn') => Alone(out')
  BY <1>4 DEF IInv, Alone
<1>11. ASSUME ~torn, ~over, NEW rest \in Bytes, NEW todo \in Seq(Frames),
              (buffer \o wire) \o rest = Stream(todo)
       PROVE  Keeps(fed, later \o rest, todo)
  <2>1. later \o rest \in Bytes
    BY <1>3, ConcatIsBytes
  <2>2. Moves(buffer, bytes, later, rest)
    BY <1>1, <1>3, PieceMoves
  <2>3. (buffer \o bytes) \o (later \o rest) = Stream(todo)
    BY <1>3, <1>11, <2>2 DEF Moves
  <2> QED
    BY <1>1, <1>3, <1>11, <2>1, <2>3, FeedKeeps DEF fed
<1>12. ASSUME ~torn
       PROVE  \E todo \in Seq(Frames) :
                /\ sent = delivered \o todo
                /\ \E rest \in Bytes : /\ (buffer \o wire) \o rest = Stream(todo)
                                       /\ writable => RestIs(out, rest)
  <2>1. PICK todo \in Seq(Frames) : /\ sent = (delivered \o pending) \o todo
                                    /\ readable => OnTheWay(todo)
    BY <1>12 DEF IInv, InOrder
  <2>2. delivered \o pending = delivered
    BY <1>1, <1>4, ConcatEmptySeq
  <2> QED
    BY <1>4, <2>1, <2>2 DEF OnTheWay
<1>13. InOrder'
  <2> SUFFICES ASSUME ~torn'
               PROVE  \E todo \in Seq(Frames) : /\ sent' = (delivered' \o pending') \o todo
                                                /\ readable' => OnTheWay(todo)'
    BY DEF InOrder
  <2>1. PICK todo \in Seq(Frames) :
          /\ sent = delivered \o todo
          /\ \E rest \in Bytes : /\ (buffer \o wire) \o rest = Stream(todo)
                                 /\ writable => RestIs(out, rest)
    BY <1>4, <1>12
  <2>2. CASE fed.error
    <3>1. delivered' \o pending' = delivered
      BY <1>1, <1>4, <1>8, <2>2, ConcatEmptySeq
    <3> QED
      BY <1>4, <2>1, <2>2, <3>1
  <2>3. CASE ~fed.error
    <3>1. PICK rest \in Bytes : /\ (buffer \o wire) \o rest = Stream(todo)
                                /\ writable => RestIs(out, rest)
      BY <2>1
    <3>2. Keeps(fed, later \o rest, todo)
      BY <1>4, <1>6, <1>11, <2>3, <3>1
    <3>3. PICK left \in Seq(Frames) :
            todo = fed.frames \o left /\ fed.buffer \o (later \o rest) = Stream(left)
      BY <3>2 DEF Keeps
    <3>4. sent' = (delivered' \o pending') \o left
      <4> DEFINE f == fed.frames
      <4>1. f \in Seq(Frames) /\ delivered \in Seq(Frames)
        BY <1>1, <1>7
      <4>2. sent' = delivered \o (f \o left) /\ delivered' \o pending' = delivered \o f
        BY <1>4, <1>8, <2>1, <2>3, <3>3
      <4> HIDE DEF f
      <4>3. (delivered \o f) \o left = delivered \o (f \o left)
        BY <4>1, ConcatAssociative
      <4> QED
        BY <4>2, <4>3
    <3>5. (buffer' \o wire') \o rest = Stream(left)
      <4> DEFINE h == fed.buffer
      <4>1. h \in Bytes
        BY <1>7
      <4>2. h \o (later \o rest) = Stream(left) /\ buffer' = h /\ wire' = later
        BY <1>4, <3>3
      <4> HIDE DEF h
      <4>3. (h \o later) \o rest = h \o (later \o rest)
        BY <1>3, <4>1, ConcatAssociates
      <4> QED
        BY <4>2, <4>3
    <3>6. writable' => RestIs(out', rest)
      BY <1>4, <3>1
    <3>7. OnTheWay(left)'
      BY <3>5, <3>6 DEF OnTheWay
    <3> QED
      BY <3>4, <3>7
  <2> QED
    BY <2>2, <2>3
<1>14. DecoderIsBounded'
  <2>1. Len(buffer') < 4 + MaxFrameBytes
    BY <1>4, <1>5
  <2>2. failed' => buffer' = <<>> /\ pending' = <<>> /\ ~readable'
    BY <1>4, <1>7, <1>8
  <2>3. ASSUME failed', ~torn' PROVE MaxBufferedBytes < 3 + MaxFrameBytes + ReceiveBytes
    <3>1. over
      <4>1. SUFFICES ASSUME ~over PROVE FALSE
        OBVIOUS
      <4>2. PICK todo \in Seq(Frames), rest \in Bytes : (buffer \o wire) \o rest = Stream(todo)
        BY <1>4, <1>12, <2>3
      <4>3. Keeps(fed, later \o rest, todo)
        BY <1>4, <1>11, <2>3, <4>1, <4>2
      <4> QED
        BY <1>4, <2>3, <4>3 DEF Keeps
    <3>2. Len(buffer) \in Nat
      BY <1>1 DEF Bytes
    <3> QED
      BY <1>1, <1>2, <1>3, <3>1, <3>2, TcpAssumption
  <2> QED
    BY <2>1, <2>2, <2>3 DEF DecoderIsBounded
<1> QED
  BY <1>9, <1>10, <1>13, <1>14 DEF IInv

\* The receiver hands out a frame it had decoded.
LEMMA ReturnPendingKeeps ==
  ASSUME IInv, ReturnPending
  PROVE  IInv'
<1>1. /\ pending # <<>>
      /\ delivered' = Append(delivered, Head(pending)) /\ pending' = Tail(pending)
      /\ UNCHANGED <<buffer, failed, readable, out, writable, sent, wire, torn>>
  BY DEF ReturnPending, senderVars
<1>2. pending \in Seq(Frames) /\ delivered \in Seq(Frames)
  BY DEF IInv, Types
<1>3. /\ delivered' \in Seq(Frames) /\ pending' \in Seq(Frames)
      /\ delivered' \o pending' = delivered \o pending
  BY <1>1, <1>2, HeadAndTail
<1>4. Types'
  BY <1>1, <1>3 DEF IInv, Types
<1>5. (writable' /\ ~torn') => Alone(out')
  BY <1>1 DEF IInv, Alone
<1>6. InOrder'
  BY <1>1, <1>3 DEF IInv, InOrder, OnTheWay, RestIs
<1>7. DecoderIsBounded'
  BY <1>1 DEF IInv, DecoderIsBounded
<1> QED
  BY <1>4, <1>5, <1>6, <1>7 DEF IInv

\* The receiver is closed.
LEMMA CloseReceiverKeeps ==
  ASSUME IInv, CloseReceiver
  PROVE  IInv'
<1>1. /\ readable' = FALSE
      /\ UNCHANGED <<buffer, failed, pending, delivered, out, writable, sent, wire, torn>>
  BY DEF CloseReceiver, senderVars
<1>2. Types'
  BY <1>1 DEF IInv, Types
<1>3. (writable' /\ ~torn') => Alone(out')
  BY <1>1 DEF IInv, Alone
<1>4. InOrder'
  BY <1>1 DEF IInv, InOrder
<1>5. DecoderIsBounded'
  BY <1>1 DEF IInv, DecoderIsBounded
<1> QED
  BY <1>2, <1>3, <1>4, <1>5 DEF IInv

\* Every step keeps the invariant.
LEMMA NextIInv == IInv /\ [Next]_vars => IInv'
<1> SUFFICES ASSUME IInv, [Next]_vars PROVE IInv'
  OBVIOUS
<1>1. ASSUME NEW t \in Senders, NEW payload \in Payloads, SendFrame(t, payload) PROVE IInv'
  BY <1>1, SendFrameKeeps
<1>2. ASSUME NEW t \in Senders, WriteSome(t) PROVE IInv'
  BY <1>2, WriteKeeps DEF WriteSome
<1>3. ASSUME NEW t \in Senders, SendTimesOut(t) PROVE IInv'
  BY <1>3, SendTimesOutKeeps
<1>4. ASSUME NEW t \in Senders, SendFails(t) PROVE IInv'
  BY <1>4, SendFailsKeeps
<1>5. ASSUME NEW header \in BadHeaders, Misframe(header) PROVE IInv'
  BY <1>5, MisframeKeeps
<1>6. CASE ReceiveSome
  BY <1>6, ReceiveKeeps DEF ReceiveSome
<1>7. CASE ReturnPending
  BY <1>7, ReturnPendingKeeps
<1>8. CASE CloseReceiver
  BY <1>8, CloseReceiverKeeps
<1>9. CASE UNCHANGED vars
  <2> USE <1>9 DEF vars
  <2>1. Types'
    BY DEF IInv, Types
  <2>2. (writable' /\ ~torn') => Alone(out')
    BY DEF IInv
  <2>3. InOrder'
    BY DEF IInv, InOrder, OnTheWay, RestIs
  <2>4. DecoderIsBounded'
    BY DEF IInv, DecoderIsBounded
  <2> QED
    BY <2>1, <2>2, <2>3, <2>4 DEF IInv
<1> QED
  BY <1>1, <1>2, <1>3, <1>4, <1>5, <1>6, <1>7, <1>8, <1>9 DEF Next

(***************************************************************************)
(* The theorems.                                                           *)
(***************************************************************************)
\* Whatever is written, read, closed and broken, the invariant holds.
THEOREM InductiveInvariant == Spec => []IInv
BY InitIInv, NextIInv, PTL DEF Spec

\* The connection's state has its types (TcpFrameDecoder, TcpConnection).
THEOREM TypeCorrect == Spec => []TypeOK
<1>1. IInv => TypeOK
  <2> SUFFICES ASSUME IInv PROVE TypeOK
    OBVIOUS
  <2>1. \A s \in Seq(Frames) : s \in Seq(Bytes)
    BY SeqMonotonic, FramesAreBytes
  <2> QED
    BY <2>1, Zenon DEF IInv, Types, WritesFrames, Writing, Busy, TypeOK, Bytes
<1> QED
  BY <1>1, InductiveInvariant, PTL

\* Whatever a peer writes, the decoder's buffer is bounded, and on a stream of legal frames of
\* any size it fails only if its limit is too small for one frame and one read (feed, fail).
THEOREM DecoderAlwaysBounded == Spec => []DecoderIsBounded
<1>1. IInv => DecoderIsBounded
  BY DEF IInv
<1> QED
  BY <1>1, InductiveInvariant, PTL

\* Frames of any number and size, written and read in any pieces, come out as they were
\* written, until one is torn (sendFrame, feed, readFrame).
THEOREM BytesNeverLost == Spec => []NoByteIsLost
<1>1. IInv => NoByteIsLost
  <2> SUFFICES ASSUME IInv, readable, ~torn
               PROVE  LET here == Stream(delivered \o pending) \o buffer \o wire
                          all  == Stream(sent)
                      IN  /\ here = SubSeq(all, 1, Len(here))
                          /\ (writable /\ \A t \in Senders : ~Begun(t)) => here = all
    BY Zenon DEF NoByteIsLost
  <2> DEFINE before == delivered \o pending
             D == Stream(before)
             here == (D \o buffer) \o wire
             all == Stream(sent)
  <2>1. PICK todo \in Seq(Frames) : sent = before \o todo /\ OnTheWay(todo)
    BY DEF IInv, InOrder
  <2>2. PICK rest \in Bytes : /\ (buffer \o wire) \o rest = Stream(todo)
                              /\ writable => RestIs(out, rest)
    BY <2>1 DEF OnTheWay
  <2>3. before \in Seq(Frames) /\ buffer \in Bytes /\ wire \in Bytes
    BY ConcatProperties DEF IInv, Types
  <2> HIDE DEF before
  <2>4. D \in Bytes /\ all = D \o Stream(todo)
    BY <2>1, <2>3, StreamIsBytes, StreamOfConcat
  <2> HIDE DEF D, all
  <2>5. buffer \o wire \in Bytes
    BY <2>3, ConcatIsBytes
  <2>6. (D \o buffer) \o wire = D \o (buffer \o wire)
    BY <2>3, <2>4, ConcatAssociates
  <2> DEFINE x == buffer \o wire
  <2>7. D \o x \in Bytes
    BY <2>4, <2>5, ConcatIsBytes
  <2>8. here = D \o x /\ x \o rest = Stream(todo) /\ x \in Bytes
    BY <2>2, <2>5, <2>6
  <2> HIDE DEF x, here
  <2>9. (D \o x) \o rest = D \o (x \o rest)
    BY <2>4, <2>8, ConcatAssociates
  <2>10. here \in Bytes /\ all = here \o rest
    BY <2>4, <2>7, <2>8, <2>9
  <2>11. here = SubSeq(all, 1, Len(here))
    BY <2>10, PartsOfConcat DEF Bytes
  <2>12. ASSUME writable, \A t \in Senders : ~Begun(t) PROVE here = all
    <3>1. rest = <<>>
      BY <2>2, <2>12 DEF RestIs, Begun
    <3> QED
      BY <2>10, <3>1, ConcatEmptySeq DEF Bytes
  <2> QED
    BY <2>11, <2>12 DEF here, all, D, before
<1> QED
  BY <1>1, InductiveInvariant, PTL

\* What was delivered and decoded is the beginning of what was sent.
DeliveredInOrder ==
  /\ Len(delivered) + Len(pending) <= Len(sent)
  /\ \A i \in 1 .. Len(delivered) : delivered[i] = sent[i]

\* Unless the stream was torn, the invariant delivers in order.
LEMMA DecodedInOrder == (IInv /\ ~torn) => DeliveredInOrder
<1> SUFFICES ASSUME IInv, ~torn PROVE DeliveredInOrder
  OBVIOUS
<1> DEFINE before == delivered \o pending
<1>1. PICK todo \in Seq(Frames) : sent = before \o todo
  BY DEF IInv, InOrder
<1>2. delivered \in Seq(Frames) /\ pending \in Seq(Frames)
  BY DEF IInv, Types
<1>3. /\ before \in Seq(Frames) /\ Len(before) = Len(delivered) + Len(pending)
      /\ Len(delivered) \in Nat /\ Len(pending) \in Nat
      /\ \A i \in 1 .. Len(delivered) : before[i] = delivered[i]
  <2>1. \A i \in 1 .. Len(delivered) + Len(pending) :
          before[i] = IF i <= Len(delivered) THEN delivered[i] ELSE pending[i - Len(delivered)]
    BY <1>2, ConcatProperties
  <2>2. \A i \in 1 .. Len(delivered) : i \in 1 .. Len(delivered) + Len(pending) /\ i <= Len(delivered)
    BY <1>2
  <2> QED
    BY <1>2, <2>1, <2>2, ConcatProperties
<1> HIDE DEF before
<1>4. /\ Len(sent) = Len(before) + Len(todo) /\ Len(todo) \in Nat
      /\ \A i \in 1 .. Len(before) : sent[i] = before[i]
  <2>1. /\ Len(before \o todo) = Len(before) + Len(todo)
        /\ \A i \in 1 .. Len(before) + Len(todo) :
             (before \o todo)[i] = IF i <= Len(before) THEN before[i] ELSE todo[i - Len(before)]
    <3>1. before \in Seq(Frames)
      BY <1>3
    <3> QED
      BY <3>1, ConcatProperties
  <2>2. Len(todo) \in Nat
    OBVIOUS
  <2>3. ASSUME NEW i \in 1 .. Len(before) PROVE (before \o todo)[i] = before[i]
    <3>1. i \in 1 .. Len(before) + Len(todo) /\ i <= Len(before)
      BY <1>3, <2>2
    <3> QED
      BY <2>1, <3>1
  <2> QED
    BY <1>1, <2>1, <2>2, <2>3
<1> QED
  BY <1>3, <1>4 DEF DeliveredInOrder

\* What is returned is the next of the messages sent.
LEMMA Delivers ==
  ASSUME IInv, IInv', NEW e \in Frames, delivered' = Append(delivered, e),
         UNCHANGED <<sent, torn>>
  PROVE  Channel!Next
<1>1. CASE torn
  <2>1. torn' = TRUE
    BY <1>1 DEF IInv, Types
  <2> QED
    BY <2>1 DEF Channel!Next, Channel!Break
<1>2. CASE ~torn
  <2>1. delivered \in Seq(Frames) /\ Len(delivered) \in Nat /\ sent \in Seq(Frames)
    BY DEF IInv, Types
  <2>2. /\ Len(delivered') = Len(delivered) + 1 /\ delivered'[Len(delivered) + 1] = e
    BY <2>1, AppendProperties
  <2>3. /\ Len(delivered') + Len(pending') <= Len(sent')
        /\ \A i \in 1 .. Len(delivered') : delivered'[i] = sent'[i]
    <3>1. DeliveredInOrder'
      <4>1. ~torn'
        BY <1>2
      <4> QED
        BY <4>1, DecodedInOrder, PTL
    <3> QED
      BY <3>1 DEF DeliveredInOrder
  <2>4. Len(pending') \in Nat /\ Len(sent) \in Nat
    BY DEF IInv, Types
  <2>5. Len(delivered) + 1 \in 1 .. Len(delivered') /\ Len(delivered) < Len(sent)
    BY <2>1, <2>2, <2>3, <2>4
  <2>6. e = sent[Len(delivered) + 1]
    BY <2>2, <2>3, <2>5
  <2>7. Channel!Deliver
    BY <2>5, <2>6 DEF Channel!Deliver
  <2> QED
    BY <2>7 DEF Channel!Next
<1> QED
  BY <1>1, <1>2

\* A step of the connection is a step of the channel, or none.
LEMMA StepOfChannel ==
  ASSUME IInv, IInv', [Next]_vars
  PROVE  [Channel!Next]_(Channel!vars)
<1>1. ASSUME NEW t \in Senders, NEW payload \in Payloads, SendFrame(t, payload)
      PROVE  UNCHANGED <<sent, delivered, torn>>
  BY <1>1 DEF SendFrame, receiverVars
<1>2. ASSUME NEW t \in Senders, NEW n, Write(t, n)
      PROVE  Channel!Next \/ UNCHANGED <<sent, delivered, torn>>
  <2>1. /\ sent' = IF Begun(t) THEN sent ELSE Append(sent, From(out[t].frame, 5))
        /\ torn' = (torn \/ \E other \in Senders \ {t} : Begun(other))
        /\ delivered' = delivered
    BY <1>2 DEF Write, receiverVars
  <2>2. CASE torn'
    <3>1. torn' = TRUE
      BY <2>2 DEF IInv, Types
    <3> QED
      BY <3>1 DEF Channel!Next, Channel!Break
  <2>3. CASE ~torn' /\ Begun(t)
    <3>1. torn' = torn
      BY <2>1, <2>3 DEF IInv, Types
    <3> QED
      BY <2>1, <2>3, <3>1
  <2>4. CASE ~torn' /\ ~Begun(t)
    <3> DEFINE e == From(out[t].frame, 5)
    <3>1. torn' = torn
      BY <2>1, <2>4 DEF IInv, Types
    <3>2. sent' = Append(sent, e) /\ sent \in Seq(Frames)
      BY <2>1, <2>4 DEF IInv, Types
    <3> HIDE DEF e
    <3>3. Len(sent') = Len(sent) + 1 /\ SubSeq(sent', 1, Len(sent)) = sent
      <4>1. sent \in Seq(Frames \cup {e}) /\ e \in Frames \cup {e}
        BY <3>2, SeqMonotonic
      <4> DEFINE one == <<e>>
      <4>2. one \in Seq(Frames \cup {e}) /\ Len(one) = 1
        BY <4>1
      <4>3. sent' = sent \o one
        BY <3>2, <4>1, AppendIsConcat
      <4> DEFINE S == Frames \cup {e}
      <4>4. sent \in Seq(S) /\ one \in Seq(S)
        BY <4>1, <4>2
      <4> HIDE DEF one, S
      <4>5. Len(sent \o one) = Len(sent) + Len(one)
        BY <4>4, ConcatProperties
      <4>6. SubSeq(sent \o one, 1, Len(sent)) = sent
        BY <4>4, PartsOfConcat
      <4> QED
        BY <4>2, <4>3, <4>5, <4>6
    <3>4. Channel!Send
      BY <2>1, <3>1, <3>3 DEF Channel!Send
    <3> QED
      BY <3>4 DEF Channel!Next
  <2> QED
    BY <2>2, <2>3, <2>4
<1>3. ASSUME NEW t \in Senders, SendTimesOut(t)
      PROVE  Channel!Next \/ UNCHANGED <<sent, delivered, torn>>
  <2>1. UNCHANGED <<sent, delivered>> /\ torn' = (torn \/ (t = "handler" /\ Begun(t)))
    BY <1>3 DEF SendTimesOut, receiverVars
  <2>2. torn' = TRUE \/ torn' = torn
    BY <2>1 DEF IInv, Types
  <2> QED
    BY <2>1, <2>2 DEF Channel!Next, Channel!Break
<1>4. ASSUME NEW t \in Senders, SendFails(t) PROVE UNCHANGED <<sent, delivered, torn>>
  BY <1>4 DEF SendFails, receiverVars
<1>5. ASSUME NEW header \in BadHeaders, Misframe(header) PROVE Channel!Next
  BY <1>5 DEF Misframe, Channel!Next, Channel!Break
<1>6. ASSUME NEW n \in Receivable, Receive(n)
      PROVE  Channel!Next \/ UNCHANGED <<sent, delivered, torn>>
  <2> DEFINE fed == Feed(buffer, SubSeq(wire, 1, n))
  <2>1. /\ UNCHANGED <<sent, torn>>
        /\ (fed.error \/ fed.frames = <<>>) => delivered' = delivered
        /\ ~(fed.error \/ fed.frames = <<>>) => delivered' = Append(delivered, Head(fed.frames))
    BY <1>6 DEF Receive, senderVars
  <2>2. fed \in DecoderState
    <3>1. wire \in Seq(Byte) /\ buffer \in Bytes /\ Len(wire) \in Nat
      BY DEF IInv, Types, Bytes
    <3>2. n \in 0 .. Len(wire)
      BY <3>1, TcpAssumption DEF Receivable
    <3>3. SubSeq(wire, 1, n) \in Bytes
      BY <3>1, <3>2, CutInTwo DEF Bytes
    <3> QED
      BY <3>1, <3>3, FeedEnds
  <2> HIDE DEF fed
  <2>3. CASE fed.error \/ fed.frames = <<>>
    BY <2>1, <2>3
  <2>4. CASE ~(fed.error \/ fed.frames = <<>>)
    <3>1. Head(fed.frames) \in Frames
      BY <2>2, <2>4, HeadTailProperties DEF DecoderState, DecoderRecord
    <3> QED
      BY <2>1, <2>4, <3>1, Delivers
  <2> QED
    BY <2>3, <2>4
<1>7. ASSUME ReturnPending PROVE Channel!Next
  <2>1. Head(pending) \in Frames
    BY <1>7, HeadTailProperties DEF ReturnPending, IInv, Types
  <2> QED
    BY <1>7, <2>1, Delivers DEF ReturnPending, senderVars
<1>8. ASSUME CloseReceiver PROVE UNCHANGED <<sent, delivered, torn>>
  BY <1>8 DEF CloseReceiver, senderVars
<1>9. ASSUME UNCHANGED vars PROVE UNCHANGED <<sent, delivered, torn>>
  BY <1>9 DEF vars
<1>10. Channel!Next \/ UNCHANGED <<sent, delivered, torn>>
  BY <1>1, <1>2, <1>3, <1>4, <1>5, <1>6, <1>7, <1>8, <1>9 DEF Next, WriteSome, ReceiveSome
<1> QED
  BY <1>10 DEF Channel!vars

\* The connection is a channel of whole messages, each delivered once and in order, until a
\* frame is torn, for payloads and pieces of every size (sendFrame with readFrame).
THEOREM AlwaysAChannel == Spec => ImplementsChannel
<1>1. Init => Channel!Init
  BY DEF Init, Channel!Init
<1>2. (IInv /\ IInv' /\ [Next]_vars) => [Channel!Next]_(Channel!vars)
  BY StepOfChannel
<1> QED
  BY <1>1, <1>2, InductiveInvariant, PTL DEF Spec, ImplementsChannel, Channel!Spec

(***************************************************************************)
(* WebSocket connections.  A mask is taken off by putting it on again.     *)
(***************************************************************************)

\* Four bits and the number that they make.
LEMMA FourBits ==
  ASSUME NEW p \in {0, 1}, NEW q \in {0, 1}, NEW r \in {0, 1}, NEW s \in {0, 1}, NEW n,
         n = p + 2 * q + 4 * r + 8 * s
  PROVE  /\ n \in 0 .. 15
         /\ n % 2 = p /\ (n \div 2) % 2 = q /\ (n \div 4) % 2 = r /\ (n \div 8) % 2 = s
OBVIOUS

\* Every number below 16 is made of four bits.
LEMMA HasFourBits ==
  ASSUME NEW n \in 0 .. 15
  PROVE  \E p, q, r, s \in {0, 1} : n = p + 2 * q + 4 * r + 8 * s
<1>1. /\ n % 2 \in {0, 1} /\ (n \div 2) % 2 \in {0, 1} /\ (n \div 4) % 2 \in {0, 1}
      /\ (n \div 8) % 2 \in {0, 1}
  OBVIOUS
<1>2. n = (n % 2) + 2 * ((n \div 2) % 2) + 4 * ((n \div 4) % 2) + 8 * ((n \div 8) % 2)
  OBVIOUS
<1> QED
  BY <1>1, <1>2

\* The exclusive or of two bits, as the table computes it.
LEMMA OneBit ==
  ASSUME NEW x \in Nat, NEW y \in Nat
  PROVE  /\ (x + y) % 2 \in {0, 1}
         /\ \A z \in Nat : z % 2 = (x + y) % 2 => (z + y) % 2 = x % 2
OBVIOUS

Bit(x, unit) == (x \div unit) % 2

\* An entry of the table is the exclusive or of four bits.
LEMMA XorTableBits ==
  ASSUME NEW a \in 0 .. 15, NEW b \in 0 .. 15
  PROVE  /\ XorTable[a][b] \in 0 .. 15
         /\ \A unit \in {1, 2, 4, 8} :
              Bit(XorTable[a][b], unit) = (a \div unit + b \div unit) % 2
<1> DEFINE x(unit) == (a \div unit + b \div unit) % 2
           n == XorTable[a][b]
<1>1. n = 1 * x(1) + 2 * x(2) + 4 * x(4) + 8 * x(8)
  BY DEF XorTable
<1>2. x(1) \in {0, 1} /\ x(2) \in {0, 1} /\ x(4) \in {0, 1} /\ x(8) \in {0, 1}
  OBVIOUS
<1> HIDE DEF x, n
<1>3. n = x(1) + 2 * x(2) + 4 * x(4) + 8 * x(8)
  BY <1>1, <1>2
<1>4. /\ n \in 0 .. 15
      /\ n % 2 = x(1) /\ (n \div 2) % 2 = x(2) /\ (n \div 4) % 2 = x(4) /\ (n \div 8) % 2 = x(8)
  BY <1>2, <1>3, FourBits
<1>5. n \div 1 = n
  BY <1>4
<1> QED
  BY <1>4, <1>5 DEF Bit, x, n

\* Twice the same mask leaves half a byte as it was.
LEMMA XorTableTwice ==
  ASSUME NEW a \in 0 .. 15, NEW b \in 0 .. 15
  PROVE  XorTable[XorTable[a][b]][b] = a
<1> DEFINE n == XorTable[a][b]
           m == XorTable[n][b]
<1>1. /\ n \in 0 .. 15
      /\ \A unit \in {1, 2, 4, 8} : Bit(n, unit) = (a \div unit + b \div unit) % 2
  BY XorTableBits
<1> HIDE DEF n
<1>2. /\ m \in 0 .. 15
      /\ \A unit \in {1, 2, 4, 8} : Bit(m, unit) = (n \div unit + b \div unit) % 2
  BY <1>1, XorTableBits
<1> HIDE DEF m
<1>3. ASSUME NEW unit \in {1, 2, 4, 8} PROVE (m \div unit) % 2 = (a \div unit) % 2
  <2>1. a \div unit \in Nat /\ b \div unit \in Nat /\ n \div unit \in Nat
    BY <1>1
  <2>2. (n \div unit) % 2 = (a \div unit + b \div unit) % 2
    BY <1>1 DEF Bit
  <2>3. (n \div unit + b \div unit) % 2 = (a \div unit) % 2
    BY <2>1, <2>2, OneBit
  <2> QED
    BY <1>2, <2>3 DEF Bit
<1>4. m \div 1 = m /\ a \div 1 = a
  BY <1>2
<1>5. /\ m % 2 = a % 2 /\ (m \div 2) % 2 = (a \div 2) % 2 /\ (m \div 4) % 2 = (a \div 4) % 2
      /\ (m \div 8) % 2 = (a \div 8) % 2
  BY <1>3, <1>4
<1>6. PICK p, q, r, s \in {0, 1} : m = p + 2 * q + 4 * r + 8 * s
  BY <1>2, HasFourBits
<1>7. PICK t, u, v, w \in {0, 1} : a = t + 2 * u + 4 * v + 8 * w
  BY HasFourBits
<1>8. m % 2 = p /\ (m \div 2) % 2 = q /\ (m \div 4) % 2 = r /\ (m \div 8) % 2 = s
  BY <1>6, FourBits
<1>9. a % 2 = t /\ (a \div 2) % 2 = u /\ (a \div 4) % 2 = v /\ (a \div 8) % 2 = w
  BY <1>7, FourBits
<1>10. m = a
  BY <1>5, <1>6, <1>7, <1>8, <1>9
<1> QED
  BY <1>10 DEF m, n

\* Twice the same mask leaves a byte as it was.
LEMMA XorTwice ==
  ASSUME NEW a \in Byte, NEW b \in Byte
  PROVE  Xor(a, b) \in Byte /\ Xor(Xor(a, b), b) = a
<1> DEFINE high == XorTable[a \div 16][b \div 16]
           low  == XorTable[a % 16][b % 16]
<1>1. /\ a \div 16 \in 0 .. 15 /\ b \div 16 \in 0 .. 15 /\ a % 16 \in 0 .. 15 /\ b % 16 \in 0 .. 15
      /\ a = 16 * (a \div 16) + (a % 16)
  BY DEF Byte
<1>2. /\ high \in 0 .. 15 /\ XorTable[high][b \div 16] = a \div 16
      /\ low \in 0 .. 15 /\ XorTable[low][b % 16] = a % 16
  <2> DEFINE p == a \div 16
             q == b \div 16
             r == a % 16
             s == b % 16
  <2>1. p \in 0 .. 15 /\ q \in 0 .. 15 /\ r \in 0 .. 15 /\ s \in 0 .. 15
    BY <1>1
  <2> HIDE DEF p, q, r, s
  <2>2. /\ XorTable[p][q] \in 0 .. 15 /\ XorTable[XorTable[p][q]][q] = p
        /\ XorTable[r][s] \in 0 .. 15 /\ XorTable[XorTable[r][s]][s] = r
    BY <2>1, XorTableBits, XorTableTwice
  <2> QED
    BY <2>2 DEF p, q, r, s
<1>3. Xor(a, b) = 16 * high + low
  BY DEF Xor
<1> HIDE DEF high, low
<1>4. Xor(a, b) \in Byte /\ Xor(a, b) \div 16 = high /\ Xor(a, b) % 16 = low
  BY <1>2, <1>3 DEF Byte
<1>5. Xor(Xor(a, b), b) = 16 * (a \div 16) + (a % 16)
  BY <1>2, <1>4 DEF Xor
<1> QED
  BY <1>1, <1>4, <1>5

\* A masked payload is as long, and masking it again gives it back.
LEMMA MaskedTwice ==
  ASSUME NEW bytes \in Bytes, NEW mask \in Bytes, Len(mask) = 4
  PROVE  /\ Masked(bytes, mask) \in Bytes /\ Len(Masked(bytes, mask)) = Len(bytes)
         /\ Masked(Masked(bytes, mask), mask) = bytes
<1> DEFINE of(i) == mask[((i - 1) % 4) + 1]
           M == Masked(bytes, mask)
           B == Masked(M, mask)
<1>1. /\ Len(bytes) \in Nat /\ DOMAIN bytes = 1 .. Len(bytes)
      /\ \A i \in 1 .. Len(bytes) : bytes[i] \in Byte
  BY DEF Bytes
<1>2. \A i \in 1 .. Len(bytes) : of(i) \in Byte
  <2>1. \A i \in 1 .. Len(bytes) : ((i - 1) % 4) + 1 \in 1 .. 4
    BY <1>1
  <2>2. \A i \in 1 .. 4 : mask[i] \in Byte
    <3>1. mask \in Seq(Byte)
      BY DEF Bytes
    <3> QED
      BY <3>1, ElementOfSeq
  <2> QED
    BY <2>1, <2>2
<1>3. M = [i \in 1 .. Len(bytes) |-> Xor(bytes[i], of(i))]
  BY <1>1 DEF Masked
<1> HIDE DEF of, M
<1>4. \A i \in 1 .. Len(bytes) : Xor(bytes[i], of(i)) \in Byte
  BY <1>1, <1>2, XorTwice
<1>5. M \in Bytes /\ Len(M) = Len(bytes) /\ DOMAIN M = 1 .. Len(bytes)
  BY <1>1, <1>3, <1>4, SeqDef, LenProperties DEF Bytes
<1>6. B = [i \in 1 .. Len(bytes) |-> Xor(M[i], of(i))]
  BY <1>5 DEF Masked, of
<1> HIDE DEF B
<1>7. \A i \in 1 .. Len(bytes) : B[i] = bytes[i]
  BY <1>1, <1>2, <1>3, <1>6, XorTwice
<1>8. B = bytes
  <2>1. bytes = [i \in 1 .. Len(bytes) |-> bytes[i]]
    BY <1>1 DEF Bytes
  <2> QED
    BY <1>6, <1>7, <2>1
<1> QED
  BY <1>5, <1>8 DEF B, M

(***************************************************************************)
(* A length that was written in two or eight bytes is read back.           *)
(***************************************************************************)
\* The value of the first bytes, one byte after another.
IsValue(s, u) == u[0] = 0 /\ \A i \in 1 .. Len(s) : u[i] = u[i - 1] * 256 + s[i]

\* BigEndian is the value of all.
LEMMA BigEndianRuns ==
  ASSUME NEW s \in Bytes
  PROVE  \E u : IsValue(s, u) /\ BigEndian(s) = u[Len(s)]
<1> DEFINE N == Len(s)
           Step == [n \in 1 .. N |-> [r \in Nat |-> r * 256 + s[n]]]
           Body(g) == [i \in 0 .. N |-> IF i = 0 THEN 0 ELSE g[i - 1] * 256 + s[i]]
           upTo == CHOOSE g : g = Body(g)
<1>1. N \in Nat /\ \A n \in 1 .. N : s[n] \in Nat
  <2>1. s \in Seq(Byte) /\ \A b \in Byte : b \in Nat
    BY DEF Bytes, Byte
  <2> QED
    BY <2>1, ElementOfSeq
<1>2. BigEndian(s) = upTo[N]
  BY DEF BigEndian
<1> HIDE DEF N
<1>3. \A n \in 1 .. N : \A r \in Nat : Step[n][r] = r * 256 + s[n]
  OBVIOUS
<1>4. Step \in [1 .. N -> [Nat -> Nat]]
  BY <1>1
<1> HIDE DEF Step
<1>5. PICK g \in [0 .. N -> Nat] : IsRun(N, 0, Step, g)
  BY <1>1, <1>4, RunsExist
<1>6. g = Body(g)
  <2>1. ASSUME NEW n \in 0 .. N PROVE g[n] = IF n = 0 THEN 0 ELSE g[n - 1] * 256 + s[n]
    <3>1. g[n] = IF n = 0 THEN 0 ELSE Step[n][g[n - 1]]
      BY <1>5 DEF IsRun
    <3>2. n # 0 => n \in 1 .. N /\ n - 1 \in 0 .. N
      BY <1>1
    <3>3. n # 0 => g[n - 1] \in Nat
      BY <3>2
    <3> QED
      BY <1>3, <3>1, <3>2, <3>3
  <2> QED
    BY <2>1
<1> HIDE DEF Body
<1>7. upTo = Body(upTo)
  BY <1>6
<1> HIDE DEF upTo
<1>8. upTo[0] = 0 /\ \A i \in 1 .. N : upTo[i] = upTo[i - 1] * 256 + s[i]
  <2>1. \A n \in 0 .. N : upTo[n] = IF n = 0 THEN 0 ELSE upTo[n - 1] * 256 + s[n]
    BY <1>7, Zenon DEF Body
  <2>2. 0 \in 0 .. N /\ \A n \in 1 .. N : n \in 0 .. N /\ n # 0
    BY <1>1
  <2> QED
    BY <2>1, <2>2, Zenon
<1> QED
  BY <1>2, <1>8 DEF N, IsValue

\* What a length is written as, and that it is read back.
LEMMA LengthTwo ==
  ASSUME NEW size \in Nat, size \div 256 < 256
  PROVE  /\ Length(size, 2) \in Bytes /\ Len(Length(size, 2)) = 2
         /\ BigEndian(Length(size, 2)) = size
<1> DEFINE s == <<size \div 256, size % 256>>
<1>1. Length(size, 2) = s
  BY DEF Length
<1>2. s \in Bytes /\ Len(s) = 2 /\ s[1] = size \div 256 /\ s[2] = size % 256
  <2>1. size \div 256 \in Byte /\ size % 256 \in Byte
    BY DEF Byte
  <2> QED
    BY <2>1 DEF Bytes
<1> HIDE DEF s
<1>3. PICK u : IsValue(s, u) /\ BigEndian(s) = u[Len(s)]
  BY <1>2, BigEndianRuns
<1>4. u[0] = 0 /\ u[1] = u[0] * 256 + s[1] /\ u[2] = u[1] * 256 + s[2]
  <2>1. 1 \in 1 .. 2 /\ 2 \in 1 .. 2 /\ 1 - 1 = 0 /\ 2 - 1 = 1
    OBVIOUS
  <2> QED
    BY <1>2, <1>3, <2>1 DEF IsValue
<1>5. u[2] = (size \div 256) * 256 + (size % 256)
  BY <1>2, <1>3, <1>4
<1> QED
  BY <1>1, <1>2, <1>3, <1>5

\* The same of a length of eight bytes.
LEMMA LengthEight ==
  ASSUME NEW size \in Nat, ((size \div 65536) \div 65536) \div 16777216 < 256
  PROVE  /\ Length(size, 8) \in Bytes /\ Len(Length(size, 8)) = 8
         /\ BigEndian(Length(size, 8)) = size
<1> DEFINE high == (size \div 65536) \div 65536
           b1 == high \div 16777216
           b2 == (high \div 65536) % 256
           b3 == (high \div 256) % 256
           b4 == high % 256
           b5 == (size \div 16777216) % 256
           b6 == (size \div 65536) % 256
           b7 == (size \div 256) % 256
           b8 == size % 256
           s == <<b1, b2, b3, b4, b5, b6, b7, b8>>
<1>1. Length(size, 8) = s
  BY DEF Length
<1>2. /\ b1 \in Byte /\ b2 \in Byte /\ b3 \in Byte /\ b4 \in Byte
      /\ b5 \in Byte /\ b6 \in Byte /\ b7 \in Byte /\ b8 \in Byte
  BY DEF Byte
<1>3. size = (((((((b1 * 256 + b2) * 256 + b3) * 256 + b4) * 256 + b5) * 256 + b6) * 256
                  + b7) * 256 + b8)
  <2>1. high = (size \div 65536) \div 65536 /\ high \div 16777216 < 256 /\ high \in Nat
    OBVIOUS
  <2> HIDE DEF high
  <2>2. high = (((b1 * 256 + b2) * 256) + b3) * 256 + b4
    BY <2>1
  <2>3. size \div 16777216 = 256 * high + b5
    BY <2>1
  <2>4. size = (((size \div 16777216) * 256 + b6) * 256 + b7) * 256 + b8
    OBVIOUS
  <2> HIDE DEF b1, b2, b3, b4, b5, b6, b7, b8
  <2>5. /\ b1 \in Nat /\ b2 \in Nat /\ b3 \in Nat /\ b4 \in Nat
        /\ b5 \in Nat /\ b6 \in Nat /\ b7 \in Nat /\ b8 \in Nat
    BY <1>2 DEF Byte
  <2> QED
    BY <2>1, <2>2, <2>3, <2>4, <2>5
<1> HIDE DEF high, b1, b2, b3, b4, b5, b6, b7, b8
<1>4. /\ s \in Bytes /\ Len(s) = 8 /\ s[1] = b1 /\ s[2] = b2 /\ s[3] = b3 /\ s[4] = b4
      /\ s[5] = b5 /\ s[6] = b6 /\ s[7] = b7 /\ s[8] = b8
  BY <1>2 DEF Bytes
<1> HIDE DEF s
<1>5. PICK u : IsValue(s, u) /\ BigEndian(s) = u[Len(s)]
  <2>1. s \in Bytes
    BY <1>4
  <2> QED
    BY <2>1, BigEndianRuns
<1>6. /\ u[1] = 0 * 256 + b1 /\ u[2] = u[1] * 256 + b2 /\ u[3] = u[2] * 256 + b3
      /\ u[4] = u[3] * 256 + b4 /\ u[5] = u[4] * 256 + b5 /\ u[6] = u[5] * 256 + b6
      /\ u[7] = u[6] * 256 + b7 /\ u[8] = u[7] * 256 + b8
  <2>1. /\ u[1] = u[1 - 1] * 256 + s[1] /\ u[2] = u[2 - 1] * 256 + s[2]
        /\ u[3] = u[3 - 1] * 256 + s[3] /\ u[4] = u[4 - 1] * 256 + s[4]
        /\ u[5] = u[5 - 1] * 256 + s[5] /\ u[6] = u[6 - 1] * 256 + s[6]
        /\ u[7] = u[7 - 1] * 256 + s[7] /\ u[8] = u[8 - 1] * 256 + s[8]
    BY <1>4, <1>5 DEF IsValue
  <2>2. u[0] = 0
    BY <1>5 DEF IsValue
  <2> QED
    BY <1>4, <2>1, <2>2
<1>7. 0 * 256 + b1 = b1
  BY <1>2 DEF Byte
<1>8. u[8] = size
  BY <1>3, <1>6, <1>7
<1> QED
  BY <1>1, <1>4, <1>5, <1>8

(***************************************************************************)
(* The bytes of a frame that a client writes: the two first, the length,   *)
(* the mask and the masked payload.                                        *)
(***************************************************************************)
\* The length of a payload, the seven bits that say it or its form, and the bytes after them.
Size(frame) == Len(frame.payload)
Code(frame) == LengthCode(Size(frame), frame.form)
LengthOf(frame) == Length(Size(frame), frame.form)

\* What a frame is made of, and how its length is written.
LEMMA FrameParts ==
  ASSUME NEW frame \in ClientFrames
  PROVE  /\ frame.first \in Byte /\ frame.flag \in {0, 128} /\ frame.form \in {0, 2, 8}
         /\ frame.mask \in Bytes /\ Len(frame.mask) = 4
         /\ frame.payload \in Bytes /\ Size(frame) \in Nat
         /\ LengthOf(frame) \in Bytes /\ Len(LengthOf(frame)) = frame.form
         /\ Code(frame) \in 0 .. 127 /\ LengthBytes(Code(frame)) = frame.form
         /\ IF Code(frame) < 126 THEN Code(frame) = Size(frame)
            ELSE BigEndian(LengthOf(frame)) = Size(frame)
<1>1. /\ frame \in [first : Byte, flag : {0, 128}, form : {0, 2, 8},
                    mask : Seq(Byte), payload : Seq(Byte)]
      /\ Len(frame.mask) = 4
      /\ FitsForm(Len(frame.payload), frame.form)
  BY WebSocketAssumption DEF WebSocketAssumption
<1>2. /\ frame.first \in Byte /\ frame.flag \in {0, 128} /\ frame.form \in {0, 2, 8}
      /\ frame.mask \in Bytes /\ Len(frame.mask) = 4
      /\ frame.payload \in Bytes /\ Size(frame) \in Nat
  BY <1>1 DEF Bytes, Size
<1>3. CASE frame.form = 0
  <2>1. Size(frame) < 126
    BY <1>1, <1>3 DEF FitsForm, Size
  <2>2. LengthOf(frame) = <<>>
    BY <1>3 DEF LengthOf, Length
  <2>3. Code(frame) = Size(frame)
    BY <1>3 DEF Code, LengthCode
  <2>4. LengthBytes(Code(frame)) = 0
    <3>1. Code(frame) # 126 /\ Code(frame) # 127
      BY <1>2, <2>1, <2>3
    <3> QED
      BY <3>1 DEF LengthBytes
  <2>5. <<>> \in Bytes /\ Len(<<>>) = 0
    BY DEF Bytes
  <2>6. Code(frame) \in 0 .. 127 /\ Code(frame) < 126
    <3> DEFINE n == Size(frame)
    <3>1. n \in Nat /\ n < 126 /\ Code(frame) = n
      BY <1>2, <2>1, <2>3
    <3> HIDE DEF n
    <3> QED
      BY <3>1
  <2>7. LengthOf(frame) \in Bytes /\ Len(LengthOf(frame)) = frame.form
    BY <1>3, <2>2, <2>5
  <2> QED
    BY <1>2, <1>3, <2>3, <2>4, <2>6, <2>7
<1>4. CASE frame.form = 2
  <2>1. Size(frame) \div 256 < 256
    BY <1>1, <1>4 DEF FitsForm, Size
  <2>2. Code(frame) = 126
    BY <1>4 DEF Code, LengthCode
  <2>3. LengthBytes(126) = 2
    BY DEF LengthBytes
  <2>4. LengthOf(frame) = Length(Size(frame), 2)
    BY <1>4 DEF LengthOf
  <2> QED
    BY <1>2, <1>4, <2>1, <2>2, <2>3, <2>4, LengthTwo
<1>5. CASE frame.form = 8
  <2>1. ((Size(frame) \div 65536) \div 65536) \div 16777216 < 256
    BY <1>1, <1>5 DEF FitsForm, Size
  <2>2. Code(frame) = 127
    BY <1>5 DEF Code, LengthCode
  <2>3. LengthBytes(127) = 8
    BY DEF LengthBytes
  <2>4. LengthOf(frame) = Length(Size(frame), 8)
    BY <1>5 DEF LengthOf
  <2> QED
    BY <1>2, <1>5, <2>1, <2>2, <2>3, <2>4, LengthEight
<1> QED
  BY <1>2, <1>3, <1>4, <1>5

\* A piece of a sequence, found where its elements are.
LEMMA PieceIs ==
  ASSUME NEW S, NEW s \in Seq(S), NEW piece \in Seq(S), NEW i \in Nat,
         i + Len(piece) <= Len(s), \A j \in 1 .. Len(piece) : s[i + j] = piece[j]
  PROVE  SubSeq(s, i + 1, i + Len(piece)) = piece
<1> DEFINE n == Len(piece)
           cut == SubSeq(s, i + 1, i + n)
<1>1. n \in Nat /\ Len(s) \in Nat
  OBVIOUS
<1> HIDE DEF n
<1>2. \A k \in i + 1 .. i + n : s[k] \in S
  <2>1. \A k \in i + 1 .. i + n : k \in 1 .. Len(s)
    BY <1>1 DEF n
  <2> QED
    BY <2>1, ElementOfSeq
<1>3. /\ cut \in Seq(S)
      /\ Len(cut) = IF i + 1 <= i + n THEN (i + n) - (i + 1) + 1 ELSE 0
      /\ \A j \in 1 .. (i + n) - (i + 1) + 1 : cut[j] = s[(i + 1) + j - 1]
  <2>1. i + 1 \in Int /\ i + n \in Int
    BY <1>1
  <2> QED
    BY <1>2, <2>1, SubSeqProperties
<1> HIDE DEF cut
<1>4. Len(cut) = n
  BY <1>1, <1>3
<1>5. \A j \in 1 .. n : cut[j] = piece[j]
  <2>1. ASSUME NEW j \in 1 .. n PROVE cut[j] = piece[j]
    <3>1. j \in 1 .. (i + n) - (i + 1) + 1 /\ (i + 1) + j - 1 = i + j
      BY <1>1
    <3>2. cut[j] = s[(i + 1) + j - 1]
      BY <1>3, <3>1
    <3> QED
      BY <3>1, <3>2 DEF n
  <2> QED
    BY <2>1
<1>6. cut = piece
  BY <1>3, <1>4, <1>5, SeqEqual DEF n
<1> QED
  BY <1>6 DEF cut, n

\* The bytes after the length: the mask and what it hides.
Hidden(frame) == Masked(frame.payload, frame.mask)
AfterLength(frame) == IF frame.flag = 0 THEN frame.payload ELSE frame.mask \o Hidden(frame)

\* The bytes of a concatenation.
LEMMA BytesOfConcat ==
  ASSUME NEW s \in Bytes, NEW t \in Bytes
  PROVE  /\ s \o t \in Bytes /\ Len(s \o t) = Len(s) + Len(t) /\ Len(s) \in Nat /\ Len(t) \in Nat
         /\ \A i \in 1 .. Len(s) : (s \o t)[i] = s[i]
         /\ \A i \in 1 .. Len(t) : (s \o t)[Len(s) + i] = t[i]
<1> DEFINE u == s \o t
<1>1. s \in Seq(Byte) /\ t \in Seq(Byte) /\ Len(s) \in Nat /\ Len(t) \in Nat
  BY DEF Bytes
<1>2. /\ u \in Seq(Byte) /\ Len(u) = Len(s) + Len(t)
      /\ \A i \in 1 .. Len(s) + Len(t) : u[i] = IF i <= Len(s) THEN s[i] ELSE t[i - Len(s)]
  BY <1>1, ConcatProperties
<1> HIDE DEF u
<1>3. ASSUME NEW i \in 1 .. Len(t) PROVE u[Len(s) + i] = t[i]
  <2>1. Len(s) + i \in 1 .. Len(s) + Len(t) /\ ~(Len(s) + i <= Len(s)) /\ (Len(s) + i) - Len(s) = i
    BY <1>1
  <2> QED
    BY <1>2, <2>1
<1>4. ASSUME NEW i \in 1 .. Len(s) PROVE u[i] = s[i]
  <2>1. i \in 1 .. Len(s) + Len(t) /\ i <= Len(s)
    BY <1>1
  <2> QED
    BY <1>2, <2>1
<1> QED
  BY <1>1, <1>2, <1>3, <1>4 DEF u, Bytes

\* A frame's bytes, part by part.
LEMMA EncodedParts ==
  ASSUME NEW frame \in ClientFrames
  PROVE  /\ Encode(frame) \in Bytes
         /\ Len(Encode(frame)) = 2 + frame.form + Len(AfterLength(frame))
         /\ Encode(frame)[1] = frame.first /\ Encode(frame)[2] = frame.flag + Code(frame)
         /\ \A i \in 1 .. frame.form : Encode(frame)[2 + i] = LengthOf(frame)[i]
         /\ \A i \in 1 .. Len(AfterLength(frame)) :
              Encode(frame)[2 + frame.form + i] = AfterLength(frame)[i]
<1> DEFINE head  == <<frame.first, frame.flag + Code(frame)>>
           start == head \o LengthOf(frame)
           after == AfterLength(frame)
           form == frame.form
<1>1. head \in Bytes /\ Len(head) = 2 /\ head[1] = frame.first /\ head[2] = frame.flag + Code(frame)
  <2>1. frame.first \in Byte /\ frame.flag \in {0, 128} /\ Code(frame) \in 0 .. 127
    BY FrameParts
  <2>2. frame.flag + Code(frame) \in Byte
    <3> DEFINE f == frame.flag
               c == Code(frame)
    <3>1. f \in {0, 128} /\ c \in 0 .. 127
      BY <2>1
    <3> HIDE DEF f, c
    <3>2. f + c \in Byte
      BY <3>1 DEF Byte
    <3> QED
      BY <3>2 DEF f, c
  <2> QED
    BY <2>1, <2>2 DEF Bytes
<1>2. after \in Bytes /\ Len(after) \in Nat
  <2>1. Hidden(frame) \in Bytes /\ frame.mask \in Bytes /\ frame.payload \in Bytes
    BY FrameParts, MaskedTwice DEF Hidden
  <2>2. frame.mask \o Hidden(frame) \in Bytes
    BY <2>1, ConcatIsBytes
  <2>3. after \in Bytes
    BY <2>1, <2>2 DEF AfterLength
  <2> QED
    BY <2>3 DEF Bytes
<1>3. LengthOf(frame) \in Bytes /\ Len(LengthOf(frame)) = form /\ form \in Nat
  BY FrameParts
<1>4. Encode(frame) = start \o after
  BY DEF Encode, Code, LengthOf, Size, AfterLength, Hidden
<1> HIDE DEF head, after, form
<1>5. /\ start \in Bytes /\ Len(start) = 2 + form
      /\ \A i \in 1 .. 2 : start[i] = head[i]
      /\ \A i \in 1 .. form : start[2 + i] = LengthOf(frame)[i]
  <2>1. /\ head \o LengthOf(frame) \in Bytes
        /\ Len(head \o LengthOf(frame)) = Len(head) + Len(LengthOf(frame))
        /\ \A i \in 1 .. Len(head) : (head \o LengthOf(frame))[i] = head[i]
        /\ \A i \in 1 .. Len(LengthOf(frame)) :
             (head \o LengthOf(frame))[Len(head) + i] = LengthOf(frame)[i]
    BY <1>1, <1>3, BytesOfConcat
  <2> QED
    BY <1>1, <1>3, <2>1 DEF start
<1> DEFINE e == start \o after
<1>6. /\ e \in Bytes /\ Len(e) = (2 + form) + Len(after)
      /\ \A i \in 1 .. 2 + form : e[i] = start[i]
      /\ \A i \in 1 .. Len(after) : e[(2 + form) + i] = after[i]
  <2>1. /\ start \o after \in Bytes /\ Len(start \o after) = Len(start) + Len(after)
        /\ \A i \in 1 .. Len(start) : (start \o after)[i] = start[i]
        /\ \A i \in 1 .. Len(after) : (start \o after)[Len(start) + i] = after[i]
    BY <1>2, <1>5, BytesOfConcat
  <2> QED
    BY <1>2, <1>5, <2>1
<1> HIDE DEF start, e
<1>7. e[1] = head[1] /\ e[2] = head[2]
  <2>1. 1 \in 1 .. 2 + form /\ 2 \in 1 .. 2 + form /\ 1 \in 1 .. 2 /\ 2 \in 1 .. 2
    BY <1>3
  <2> QED
    BY <1>5, <1>6, <2>1
<1>8. ASSUME NEW i \in 1 .. form PROVE e[2 + i] = LengthOf(frame)[i]
  <2>1. 2 + i \in 1 .. 2 + form
    BY <1>3
  <2> QED
    BY <1>5, <1>6, <2>1
<1>9. \A i \in 1 .. Len(after) : e[2 + form + i] = after[i]
  BY <1>6
<1>10. /\ e \in Bytes /\ Len(e) = 2 + form + Len(after)
       /\ e[1] = frame.first /\ e[2] = frame.flag + Code(frame)
  BY <1>1, <1>6, <1>7
<1>11. e = Encode(frame)
  BY <1>4 DEF e
<1> HIDE DEF e
<1> QED
  BY <1>8, <1>9, <1>10, <1>11 DEF after, form

\* A masked frame's bytes after the length: four of the mask, and the hidden payload.
LEMMA MaskedParts ==
  ASSUME NEW frame \in ClientFrames, frame.flag # 0
  PROVE  /\ Len(AfterLength(frame)) = 4 + Size(frame)
         /\ Hidden(frame) \in Bytes /\ Len(Hidden(frame)) = Size(frame)
         /\ Masked(Hidden(frame), frame.mask) = frame.payload
         /\ \A i \in 1 .. 4 : AfterLength(frame)[i] = frame.mask[i]
         /\ \A i \in 1 .. Size(frame) : AfterLength(frame)[4 + i] = Hidden(frame)[i]
<1>1. /\ frame.mask \in Bytes /\ Len(frame.mask) = 4
      /\ frame.payload \in Bytes /\ Size(frame) \in Nat
      /\ Hidden(frame) \in Bytes /\ Len(Hidden(frame)) = Size(frame)
      /\ Masked(Hidden(frame), frame.mask) = frame.payload
  BY FrameParts, MaskedTwice DEF Hidden, Size
<1>2. AfterLength(frame) = frame.mask \o Hidden(frame)
  BY DEF AfterLength
<1>3. /\ Len(frame.mask \o Hidden(frame)) = 4 + Size(frame)
      /\ \A i \in 1 .. 4 : (frame.mask \o Hidden(frame))[i] = frame.mask[i]
      /\ \A i \in 1 .. Size(frame) : (frame.mask \o Hidden(frame))[4 + i] = Hidden(frame)[i]
  <2>1. /\ Len(frame.mask \o Hidden(frame)) = Len(frame.mask) + Len(Hidden(frame))
        /\ \A i \in 1 .. Len(frame.mask) : (frame.mask \o Hidden(frame))[i] = frame.mask[i]
        /\ \A i \in 1 .. Len(Hidden(frame)) :
             (frame.mask \o Hidden(frame))[Len(frame.mask) + i] = Hidden(frame)[i]
    BY <1>1, BytesOfConcat
  <2> QED
    BY <1>1, <2>1
<1> QED
  BY <1>1, <1>2, <1>3

(***************************************************************************)
(* What the decoder makes of the bytes of a frame, of which some may be    *)
(* missing.                                                                *)
(***************************************************************************)
\* Two streams that are the same stream begin alike.
LEMMA SameBeginning ==
  ASSUME NEW b \in Bytes, NEW c \in Bytes, NEW e \in Bytes, NEW t \in Bytes, b \o c = e \o t,
         NEW i \in 1 .. Len(b), i <= Len(e)
  PROVE  b[i] = e[i]
<1>1. (b \o c)[i] = b[i]
  BY BytesOfConcat
<1>2. i \in 1 .. Len(e)
  OBVIOUS
<1>3. (e \o t)[i] = e[i]
  BY <1>2, BytesOfConcat
<1> QED
  BY <1>1, <1>3

\* Bytes whose first two begin a masked, final frame, and how the decoder divides them.
FinalMasked(b) == ~(Len(b) < 2) /\ ~(b[1] < 128) /\ ~(b[2] < 128)
Divides(b, offset, length, last) ==
  /\ offset = 2 + LengthBytes(b[2] - 128)
  /\ length = IF b[2] - 128 < 126 THEN b[2] - 128 ELSE BigEndian(SubSeq(b, 3, offset))
  /\ last = offset + 4 + length

\* What the decoder makes of them.
LEMMA DecodeFinalMasked ==
  ASSUME NEW b \in Bytes, NEW offset, NEW length, NEW last,
         FinalMasked(b), Divides(b, offset, length, last)
  PROVE  TryDecode(b) =
           IF Len(b) < offset THEN More(b)
           ELSE IF length > MaxMessageBytes THEN Bad
           ELSE IF Len(b) < last THEN More(b)
           ELSE IF b[1] % 16 \notin Opcodes THEN Bad
           ELSE Outcome("Frame", b[1] % 16,
                           Masked(SubSeq(b, offset + 5, last),
                                     SubSeq(b, offset + 1, offset + 4)),
                           From(b, last + 1))
BY DEF TryDecode, FinalMasked, Divides

\* What the decoder makes of bytes that begin a client's frame, however many they are.
Decoded(frame, b) ==
  IF Len(b) < 2 THEN More(b)
  ELSE IF frame.first < 128 \/ frame.flag = 0 THEN Bad
  ELSE IF Len(b) < 2 + frame.form THEN More(b)
  ELSE IF Size(frame) > MaxMessageBytes THEN Bad
  ELSE IF Len(b) < Len(Encode(frame)) THEN More(b)
  ELSE IF frame.first % 16 \notin Opcodes THEN Bad
  ELSE Outcome("Frame", frame.first % 16, frame.payload,
                  From(b, Len(Encode(frame)) + 1))

\* That is what it makes of them, whatever follows the frame.
LEMMA DecodeFrame ==
  ASSUME NEW frame \in ClientFrames,
         NEW b \in Bytes, NEW c \in Bytes, NEW t \in Bytes, b \o c = Encode(frame) \o t
  PROVE  TryDecode(b) = Decoded(frame, b)
<1> USE DEF Decoded
<1> DEFINE e == Encode(frame)
           first == frame.first
           flag == frame.flag
           form == frame.form
           size == Size(frame)
           code == Code(frame)
           payload == frame.payload
           after == AfterLength(frame)
           mask == frame.mask
           hidden == Hidden(frame)
           coded == LengthOf(frame)
<1> SUFFICES TryDecode(b) =
               IF Len(b) < 2 THEN More(b)
               ELSE IF first < 128 \/ flag = 0 THEN Bad
               ELSE IF Len(b) < 2 + form THEN More(b)
               ELSE IF size > MaxMessageBytes THEN Bad
               ELSE IF Len(b) < Len(e) THEN More(b)
               ELSE IF first % 16 \notin Opcodes THEN Bad
               ELSE Outcome("Frame", first % 16, payload, From(b, Len(e) + 1))
  OBVIOUS
<1>1. /\ first \in 0 .. 255 /\ flag \in {0, 128} /\ form \in {0, 2, 8} /\ size \in Nat
      /\ code \in 0 .. 127 /\ Len(b) \in Nat
  BY FrameParts DEF Byte, Bytes
<1>2. /\ e \in Bytes /\ Len(e) = 2 + form + Len(after)
      /\ e[1] = first /\ e[2] = flag + code
      /\ \A i \in 1 .. form : e[2 + i] = coded[i]
      /\ \A i \in 1 .. Len(after) : e[2 + form + i] = after[i]
  BY EncodedParts
<1>3. Len(after) \in Nat
  <2>1. frame.payload \in Bytes /\ frame.mask \in Bytes /\ Len(frame.mask) = 4
    BY FrameParts
  <2>2. Hidden(frame) \in Bytes
    BY <2>1, MaskedTwice DEF Hidden
  <2>3. after \in Bytes
    BY <2>1, <2>2, ConcatIsBytes DEF AfterLength
  <2> QED
    BY <2>3 DEF Bytes
<1>4. b \o c = e \o t
  OBVIOUS
<1>9. /\ LengthBytes(code) = form /\ coded \in Bytes /\ Len(coded) = form
      /\ IF code < 126 THEN code = size ELSE BigEndian(coded) = size
      /\ mask \in Bytes /\ Len(mask) = 4
  BY FrameParts
<1>10. flag # 0 =>
        /\ Len(after) = 4 + size
        /\ hidden \in Bytes /\ Len(hidden) = size
        /\ Masked(hidden, mask) = payload
        /\ \A i \in 1 .. 4 : after[i] = mask[i]
        /\ \A i \in 1 .. size : after[4 + i] = hidden[i]
  BY MaskedParts
<1> HIDE DEF e, first, flag, form, size, code, payload, after, mask, hidden, coded
<1>5. \A i \in 1 .. Len(b) : i <= Len(e) => b[i] = e[i]
  BY <1>2, <1>4, SameBeginning
<1>6. CASE Len(b) < 2
  BY <1>6 DEF TryDecode
<1>7. CASE ~(Len(b) < 2)
  <2>1. b[1] = first /\ b[2] = flag + code
    <3>1. 1 \in 1 .. Len(b) /\ 2 \in 1 .. Len(b) /\ 1 <= Len(e) /\ 2 <= Len(e)
      BY <1>1, <1>2, <1>3, <1>7
    <3> QED
      BY <1>2, <1>5, <3>1
  <2>2. CASE first < 128 \/ flag = 0
    <3>1. b[1] < 128 \/ b[2] < 128
      BY <1>1, <2>1, <2>2
    <3>2. TryDecode(b) = Bad
      BY <1>7, <3>1 DEF TryDecode
    <3> QED
      BY <1>7, <2>2, <3>2
  <2>3. CASE ~(first < 128 \/ flag = 0)
    <3> DEFINE offset == 2 + form
               length == IF code < 126 THEN code ELSE BigEndian(SubSeq(b, 3, offset))
               last == offset + 4 + length
    <3>1. ~(b[1] < 128) /\ ~(b[2] < 128) /\ b[2] - 128 = code
      BY <1>1, <2>1, <2>3
    <3>2. LengthBytes(code) = form
      BY <1>9
    <3>3. TryDecode(b) =
            IF Len(b) < offset THEN More(b)
            ELSE IF length > MaxMessageBytes THEN Bad
            ELSE IF Len(b) < last THEN More(b)
            ELSE IF first % 16 \notin Opcodes THEN Bad
            ELSE Outcome("Frame", first % 16,
                            Masked(SubSeq(b, offset + 5, last),
                                      SubSeq(b, offset + 1, offset + 4)),
                            From(b, last + 1))
      <4>1. FinalMasked(b) /\ Divides(b, offset, length, last)
        BY <1>7, <3>1, <3>2 DEF FinalMasked, Divides
      <4> HIDE DEF offset, length, last
      <4>2. TryDecode(b) =
              IF Len(b) < offset THEN More(b)
              ELSE IF length > MaxMessageBytes THEN Bad
              ELSE IF Len(b) < last THEN More(b)
              ELSE IF b[1] % 16 \notin Opcodes THEN Bad
              ELSE Outcome("Frame", b[1] % 16,
                              Masked(SubSeq(b, offset + 5, last),
                                        SubSeq(b, offset + 1, offset + 4)),
                              From(b, last + 1))
        BY <4>1, DecodeFinalMasked
      <4>3. b[1] = first
        BY <2>1
      <4> QED
        BY <4>2, <4>3
    <3>4. CASE Len(b) < offset
      <4>1. TryDecode(b) = More(b)
        BY <3>3, <3>4
      <4> QED
        BY <1>7, <2>3, <3>4, <4>1
    <3>5. CASE ~(Len(b) < offset)
      <4>1. length = size
        <5>1. CASE code < 126
          BY <1>9, <5>1
        <5>2. CASE ~(code < 126)
          <6>1. BigEndian(coded) = size /\ coded \in Bytes /\ Len(coded) = form
            BY <1>9, <5>2
          <6>2. \A i \in 1 .. form : b[2 + i] = coded[i]
            <7>1. \A i \in 1 .. form : 2 + i \in 1 .. Len(b) /\ 2 + i <= Len(e)
              BY <1>1, <1>2, <1>3, <3>5
            <7> QED
              BY <1>2, <1>5, <7>1
          <6>3. SubSeq(b, 2 + 1, 2 + form) = coded
            <7>1. 2 + form <= Len(b) /\ 2 \in Nat
              BY <1>1, <3>5
            <7>2. b \in Seq(Byte) /\ coded \in Seq(Byte)
              BY <6>1 DEF Bytes
            <7> QED
              BY <6>1, <6>2, <7>1, <7>2, PieceIs
          <6> QED
            <7>1. 2 + 1 = 3 /\ offset = 2 + form
              OBVIOUS
            <7>2. length = BigEndian(SubSeq(b, 3, offset))
              BY <5>2
            <7>3. SubSeq(b, 3, offset) = coded
              BY <6>3, <7>1
            <7> QED
              BY <6>1, <7>2, <7>3
        <5> QED
          BY <5>1, <5>2
      <4> HIDE DEF length
      <4>2. flag # 0
        BY <2>3
      <4>3. /\ Len(after) = 4 + size
            /\ hidden \in Bytes /\ Len(hidden) = size
            /\ Masked(hidden, mask) = payload
            /\ \A i \in 1 .. 4 : after[i] = mask[i]
            /\ \A i \in 1 .. size : after[4 + i] = hidden[i]
        BY <1>10, <4>2
      <4>4. last = Len(e) /\ last = offset + 4 + size
        BY <1>1, <1>2, <4>1, <4>3
      <4> HIDE DEF last, length
      <4>7. offset \in Nat /\ offset = 2 + form
        BY <1>1
      <4> HIDE DEF offset
      <4>5. CASE size > MaxMessageBytes \/ Len(b) < Len(e) \/ first % 16 \notin Opcodes
        <5>1. TryDecode(b) =
                IF size > MaxMessageBytes THEN Bad
                ELSE IF Len(b) < Len(e) THEN More(b) ELSE Bad
          BY <3>3, <3>5, <4>1, <4>4, <4>5
        <5> QED
          BY <1>7, <2>3, <3>5, <4>5, <4>7, <5>1
      <4>6. CASE ~(size > MaxMessageBytes \/ Len(b) < Len(e) \/ first % 16 \notin Opcodes)
        <5>1. \A i \in 1 .. 4 + size : b[offset + i] = after[i]
          <6>1. \A i \in 1 .. 4 + size : offset + i \in 1 .. Len(b) /\ offset + i <= Len(e)
            BY <1>1, <4>4, <4>6, <4>7
          <6> QED
            BY <1>2, <1>5, <4>3, <4>7, <6>1
        <5>2. SubSeq(b, offset + 1, offset + 4) = mask
          <6>1. \A i \in 1 .. 4 : i \in 1 .. 4 + size
            BY <1>1
          <6>2. \A i \in 1 .. 4 : b[offset + i] = mask[i]
            BY <4>3, <5>1, <6>1
          <6>3. b \in Seq(Byte) /\ mask \in Seq(Byte) /\ Len(mask) = 4
            BY <1>9 DEF Bytes
          <6>4. offset \in Nat /\ offset + 4 <= Len(b)
            BY <1>1, <4>4, <4>6, <4>7
          <6>5. SubSeq(b, offset + 1, offset + Len(mask)) = mask
            <7>1. \A i \in 1 .. Len(mask) : b[offset + i] = mask[i]
              BY <6>2, <6>3
            <7>2. offset \in Nat /\ offset + Len(mask) <= Len(b)
              BY <6>3, <6>4
            <7> QED
              BY <6>3, <7>1, <7>2, PieceIs
          <6> QED
            BY <6>3, <6>5
        <5>3. SubSeq(b, offset + 5, last) = hidden
          <6>1. \A i \in 1 .. size : 4 + i \in 1 .. 4 + size /\ (offset + 4) + i = offset + (4 + i)
            BY <1>1, <4>7
          <6>2. \A i \in 1 .. size : b[(offset + 4) + i] = hidden[i]
            BY <4>3, <5>1, <6>1
          <6>3. b \in Seq(Byte) /\ hidden \in Seq(Byte)
            BY <4>3 DEF Bytes
          <6>4. offset + 4 \in Nat /\ (offset + 4) + size <= Len(b)
            BY <1>1, <4>4, <4>6, <4>7
          <6>5. SubSeq(b, (offset + 4) + 1, (offset + 4) + size) = hidden
            <7>1. \A i \in 1 .. Len(hidden) : b[(offset + 4) + i] = hidden[i]
              BY <4>3, <6>2
            <7>2. offset + 4 \in Nat /\ (offset + 4) + Len(hidden) <= Len(b)
              BY <4>3, <6>4
            <7>3. SubSeq(b, (offset + 4) + 1, (offset + 4) + Len(hidden)) = hidden
              BY <6>3, <7>1, <7>2, PieceIs
            <7> QED
              BY <4>3, <7>3
          <6>6. (offset + 4) + 1 = offset + 5 /\ (offset + 4) + size = last
            BY <1>1, <4>4, <4>7
          <6> QED
            BY <6>5, <6>6
        <5>4. From(b, last + 1) = From(b, Len(e) + 1)
          BY <4>4
        <5>5. TryDecode(b) = Outcome("Frame", first % 16, payload, From(b, Len(e) + 1))
          BY <3>3, <3>5, <4>1, <4>3, <4>4, <4>6, <5>2, <5>3, <5>4
        <5> QED
          BY <1>7, <2>3, <3>5, <4>6, <4>7, <5>5
      <4> QED
        BY <4>5, <4>6
    <3> QED
      BY <3>4, <3>5
  <2> QED
    BY <2>2, <2>3
<1> QED
  BY <1>6, <1>7

(***************************************************************************)
(* The frames to come.  A recursive definition over a sequence of frames   *)
(* is avoided: the bytes to come, paired with the texts in them, are a     *)
(* least set.                                                              *)
(***************************************************************************)
\* Sequences of texts; the frames that do not end a connection; the text in one, if it has one.
Texts == Seq(Bytes)
Legal == {frame \in ClientFrames : ~Ends(frame)}
TextOf(frame) == IF frame.first % 16 = Text THEN <<frame.payload>> ELSE <<>>

\* Bytes that are frames a client may send, with the texts in them, and then rest: of all
\* sets that rest, without a text, is in, and each such frame before what is, the least.
Holds(S, rest) ==
  /\ <<rest, <<>>>> \in S
  /\ \A frame \in Legal : \A b \in Bytes, texts \in Texts :
       <<b, texts>> \in S => <<Encode(frame) \o b, TextOf(frame) \o texts>> \in S
Coming(rest) ==
  {p \in Bytes \X Texts : \A S \in SUBSET (Bytes \X Texts) : Holds(S, rest) => p \in S}

\* No texts are a sequence of texts, and texts after texts are.
LEMMA TextsConcat ==
  /\ <<>> \in Texts
  /\ \A s, t \in Texts : s \o t \in Texts
  /\ \A s \in Texts : s \o <<>> = s /\ <<>> \o s = s
BY ConcatProperties, ConcatEmptySeq DEF Texts

\* A legal frame is bytes, more than five, and its text is one text or none.
LEMMA LegalFrames ==
  ASSUME NEW frame \in Legal
  PROVE  /\ frame \in ClientFrames /\ Encode(frame) \in Bytes /\ Len(Encode(frame)) >= 6
         /\ TextOf(frame) \in Texts /\ frame.payload \in Bytes
         /\ frame.flag # 0 /\ ~(frame.first < 128) /\ Size(frame) <= MaxMessageBytes
         /\ frame.first % 16 \in {Text, PingFrame, PongFrame}
<1>1. frame \in ClientFrames /\ ~Ends(frame)
  BY DEF Legal
<1>2. /\ frame.flag # 0 /\ ~(frame.first < 128) /\ ~(Len(frame.payload) > MaxMessageBytes)
      /\ frame.first % 16 \in {Text, PingFrame, PongFrame}
  BY <1>1 DEF Ends
<1>3. /\ frame.payload \in Bytes /\ Size(frame) \in Nat
      /\ MaxMessageBytes \in Nat /\ frame.form \in {0, 2, 8}
  BY <1>1, FrameParts, WebSocketAssumption DEF WebSocketAssumption
<1>4. Size(frame) <= MaxMessageBytes
  BY <1>2, <1>3 DEF Size
<1>5. /\ Encode(frame) \in Bytes
      /\ Len(Encode(frame)) = 2 + frame.form + Len(AfterLength(frame))
  BY <1>1, EncodedParts
<1>6. Len(AfterLength(frame)) = 4 + Size(frame)
  BY <1>1, <1>2, MaskedParts
<1>7. Len(Encode(frame)) >= 6
  BY <1>3, <1>5, <1>6
<1>8. TextOf(frame) \in Texts
  BY <1>3 DEF TextOf, Texts
<1> QED
  BY <1>1, <1>2, <1>3, <1>4, <1>5, <1>7, <1>8

\* The rest alone is coming, without a text.
LEMMA RestComes ==
  ASSUME NEW rest \in Bytes
  PROVE  <<rest, <<>>>> \in Coming(rest)
BY TextsConcat DEF Coming, Holds

\* So is a legal frame before what is coming.
LEMMA FrameComes ==
  ASSUME NEW rest \in Bytes, NEW b \in Bytes, NEW texts \in Texts,
         <<b, texts>> \in Coming(rest), NEW frame \in Legal
  PROVE  <<Encode(frame) \o b, TextOf(frame) \o texts>> \in Coming(rest)
<1> DEFINE p == <<Encode(frame) \o b, TextOf(frame) \o texts>>
<1>1. p \in Bytes \X Texts
  BY LegalFrames, ConcatIsBytes, TextsConcat
<1>2. ASSUME NEW S \in SUBSET (Bytes \X Texts), Holds(S, rest) PROVE p \in S
  <2>1. <<b, texts>> \in S
    BY <1>2 DEF Coming
  <2> QED
    BY <1>2, <2>1 DEF Holds
<1> HIDE DEF p
<1>3. p \in Coming(rest)
  BY <1>1, <1>2 DEF Coming
<1> QED
  BY <1>3 DEF p

\* What is in every such set is coming.
LEMMA ComingIsLeast ==
  ASSUME NEW rest, NEW S \in SUBSET (Bytes \X Texts), Holds(S, rest), NEW p \in Coming(rest)
  PROVE  p \in S
BY DEF Coming

\* Bytes and texts that begin with a legal frame, before what is coming.
FirstIsLegal(b, texts, rest) ==
  \E frame \in Legal : \E c \in Bytes, others \in Texts :
    /\ <<c, others>> \in Coming(rest)
    /\ b = Encode(frame) \o c /\ texts = TextOf(frame) \o others

\* What is coming is the rest, or begins with a legal frame.
LEMMA FirstComing ==
  ASSUME NEW rest \in Bytes, NEW b \in Bytes, NEW texts \in Texts,
         <<b, texts>> \in Coming(rest)
  PROVE  (b = rest /\ texts = <<>>) \/ FirstIsLegal(b, texts, rest)
<1> DEFINE IsFirst(d, ts) == (d = rest /\ ts = <<>>) \/ FirstIsLegal(d, ts, rest)
           S == {p \in Coming(rest) : IsFirst(p[1], p[2])}
<1>1. S \in SUBSET (Bytes \X Texts)
  BY DEF Coming
<1>2. <<rest, <<>>>> \in S
  BY RestComes
<1>3. ASSUME NEW frame \in Legal, NEW c \in Bytes, NEW others \in Texts, <<c, others>> \in S
      PROVE  <<Encode(frame) \o c, TextOf(frame) \o others>> \in S
  <2> DEFINE d == Encode(frame) \o c
             ts == TextOf(frame) \o others
  <2>1. <<c, others>> \in Coming(rest)
    BY <1>3
  <2>2. <<d, ts>> \in Coming(rest)
    BY <2>1, FrameComes
  <2>3. FirstIsLegal(d, ts, rest)
    BY <2>1 DEF FirstIsLegal
  <2> HIDE DEF d, ts
  <2>4. <<d, ts>> \in S
    BY <2>2, <2>3
  <2> QED
    BY <2>4 DEF d, ts
<1> HIDE DEF IsFirst
<1>4. Holds(S, rest)
  <2> HIDE DEF S
  <2> QED
    BY <1>2, <1>3 DEF Holds
<1>5. <<b, texts>> \in S
  <2> HIDE DEF S
  <2> QED
    BY <1>1, <1>4, ComingIsLeast
<1> QED
  BY <1>5 DEF IsFirst

\* More bytes at the end come after the rest.
LEMMA MoreComes ==
  ASSUME NEW rest \in Bytes, NEW b \in Bytes, NEW texts \in Texts,
         <<b, texts>> \in Coming(rest), NEW more \in Bytes
  PROVE  <<b \o more, texts>> \in Coming(rest \o more)
<1> DEFINE longer == rest \o more
           In(d, ts) == <<d \o more, ts>> \in Coming(longer)
           S == {p \in Bytes \X Texts : In(p[1], p[2])}
<1>1. S \in SUBSET (Bytes \X Texts)
  OBVIOUS
<1>2. longer \in Bytes
  BY ConcatIsBytes
<1> HIDE DEF In
<1>3. <<rest, <<>>>> \in S
  <2>1. <<longer, <<>>>> \in Coming(longer)
    BY <1>2, RestComes
  <2>2. In(rest, <<>>)
    BY <2>1 DEF In
  <2> QED
    BY <2>2, TextsConcat
<1>4. ASSUME NEW frame \in Legal, NEW c \in Bytes, NEW others \in Texts, <<c, others>> \in S
      PROVE  <<Encode(frame) \o c, TextOf(frame) \o others>> \in S
  <2> DEFINE e == Encode(frame)
             ts == TextOf(frame) \o others
  <2>1. In(c, others)
    BY <1>4
  <2>2. e \in Bytes /\ ts \in Texts
    BY LegalFrames, TextsConcat
  <2>3. c \o more \in Bytes
    BY ConcatIsBytes
  <2>4. <<e \o (c \o more), ts>> \in Coming(longer)
    BY <1>2, <2>1, <2>3, FrameComes DEF In
  <2> HIDE DEF e, ts
  <2>5. (e \o c) \o more = e \o (c \o more)
    <3>1. Associates(e, c, more)
      BY <2>2, BytesAssociate
    <3> QED
      BY <3>1 DEF Associates
  <2>6. In(e \o c, ts)
    BY <2>4, <2>5 DEF In
  <2>7. e \o c \in Bytes
    BY <2>2, ConcatIsBytes
  <2>8. <<e \o c, ts>> \in S
    BY <2>2, <2>6, <2>7
  <2> QED
    BY <2>8 DEF e, ts
<1>5. Holds(S, rest)
  <2> HIDE DEF S
  <2> QED
    BY <1>3, <1>4 DEF Holds
<1>6. <<b, texts>> \in S
  <2> HIDE DEF S
  <2> QED
    BY <1>1, <1>5, ComingIsLeast
<1> QED
  BY <1>6 DEF In

\* When nothing else is left, a legal frame at the end comes too, with its text.
LEMMA LastComes ==
  ASSUME NEW b \in Bytes, NEW texts \in Texts,
         <<b, texts>> \in Coming(<<>>), NEW last \in Legal
  PROVE  <<b \o Encode(last), texts \o TextOf(last)>> \in Coming(<<>>)
<1> DEFINE more == Encode(last)
           its == TextOf(last)
           In(d, ts) == <<d \o more, ts \o its>> \in Coming(<<>>)
           S == {p \in Bytes \X Texts : In(p[1], p[2])}
<1>1. S \in SUBSET (Bytes \X Texts)
  OBVIOUS
<1>2. <<>> \in Bytes
  BY DEF Bytes
<1>3. more \in Bytes /\ its \in Texts
  BY LegalFrames
<1>4. <<more, its>> \in Coming(<<>>)
  <2>1. <<<<>>, <<>>>> \in Coming(<<>>)
    BY <1>2, RestComes
  <2>2. <<more \o <<>>, its \o <<>>>> \in Coming(<<>>)
    BY <1>2, <2>1, TextsConcat, FrameComes
  <2>3. more \o <<>> = more /\ its \o <<>> = its
    BY <1>3, TextsConcat, ConcatEmptySeq DEF Bytes
  <2> QED
    BY <2>2, <2>3
<1> HIDE DEF In, more, its
<1>5. <<<<>>, <<>>>> \in S
  <2>1. <<>> \o more = more /\ <<>> \o its = its
    BY <1>3, TextsConcat, ConcatEmptySeq DEF Bytes
  <2>2. In(<<>>, <<>>)
    BY <1>4, <2>1 DEF In
  <2> QED
    BY <1>2, <2>2, TextsConcat
<1>6. ASSUME NEW frame \in Legal, NEW c \in Bytes, NEW others \in Texts, <<c, others>> \in S
      PROVE  <<Encode(frame) \o c, TextOf(frame) \o others>> \in S
  <2> DEFINE e == Encode(frame)
             t == TextOf(frame)
  <2>1. In(c, others)
    BY <1>6
  <2>2. e \in Bytes /\ t \in Texts
    BY LegalFrames
  <2>3. c \o more \in Bytes /\ others \o its \in Texts
    BY <1>3, ConcatIsBytes, TextsConcat
  <2>4. <<e \o (c \o more), t \o (others \o its)>> \in Coming(<<>>)
    BY <1>2, <2>1, <2>3, FrameComes DEF In
  <2> HIDE DEF e, t
  <2>5. (e \o c) \o more = e \o (c \o more)
    <3>1. Associates(e, c, more)
      BY <1>3, <2>2, BytesAssociate
    <3> QED
      BY <3>1 DEF Associates
  <2>6. (t \o others) \o its = t \o (others \o its)
    <3>1. Associates(t, others, its)
      BY <1>3, <2>2, SequencesAssociate DEF Texts
    <3> QED
      BY <3>1 DEF Associates
  <2>7. In(e \o c, t \o others)
    BY <2>4, <2>5, <2>6 DEF In
  <2>8. e \o c \in Bytes /\ t \o others \in Texts
    BY <2>2, ConcatIsBytes, TextsConcat
  <2>9. <<e \o c, t \o others>> \in S
    BY <2>7, <2>8
  <2> QED
    BY <2>9 DEF e, t
<1>7. Holds(S, <<>>)
  <2> HIDE DEF S
  <2> QED
    BY <1>5, <1>6 DEF Holds
<1>8. <<b, texts>> \in S
  <2> HIDE DEF S
  <2> QED
    BY <1>1, <1>7, ComingIsLeast
<1> QED
  BY <1>8 DEF In, more, its

(***************************************************************************)
(* What the decoder makes of what is coming.                               *)
(***************************************************************************)
\* What follows the legal frames: nothing, or a frame that ends the connection.
BeginsTheEnd(rest) ==
  \E frame \in ClientFrames, tail \in Bytes : Ends(frame) /\ rest = Encode(frame) \o tail
IsRest(rest) == rest = <<>> \/ BeginsTheEnd(rest)

\* The first frame decides: if it is not all there, more bytes are needed, and else it is read.
LEMMA DecodeLegal ==
  ASSUME NEW frame \in Legal,
         NEW b \in Bytes, NEW c \in Bytes, NEW t \in Bytes, b \o c = Encode(frame) \o t
  PROVE  /\ Len(b) < Len(Encode(frame)) => TryDecode(b) = More(b)
         /\ ~(Len(b) < Len(Encode(frame))) =>
              /\ TryDecode(b) = Outcome("Frame", frame.first % 16, frame.payload,
                                              From(b, Len(Encode(frame)) + 1))
              /\ From(b, Len(Encode(frame)) + 1) \in Bytes
              /\ Len(From(b, Len(Encode(frame)) + 1)) + 6 <= Len(b)
              /\ From(b, Len(Encode(frame)) + 1) \o c = t
<1> DEFINE e == Encode(frame)
           opcode == frame.first % 16
           left == From(b, Len(e) + 1)
<1>1. /\ frame \in ClientFrames /\ e \in Bytes /\ Len(e) >= 6
      /\ frame.flag # 0 /\ ~(frame.first < 128) /\ Size(frame) <= MaxMessageBytes
      /\ opcode \in {Text, PingFrame, PongFrame}
  BY LegalFrames
<1>2. opcode \in Opcodes
  BY <1>1 DEF Opcodes
<1>3. Size(frame) \in Nat /\ MaxMessageBytes \in Nat /\ ~(Size(frame) > MaxMessageBytes)
  BY <1>1, FrameParts, WebSocketAssumption DEF WebSocketAssumption
<1>4. TryDecode(b) =
        IF Len(b) < 2 THEN More(b)
        ELSE IF frame.first < 128 \/ frame.flag = 0 THEN Bad
        ELSE IF Len(b) < 2 + frame.form THEN More(b)
        ELSE IF Size(frame) > MaxMessageBytes THEN Bad
        ELSE IF Len(b) < Len(e) THEN More(b)
        ELSE IF opcode \notin Opcodes THEN Bad
        ELSE Outcome("Frame", opcode, frame.payload, left)
  <2>1. TryDecode(b) = Decoded(frame, b)
    BY <1>1, DecodeFrame
  <2> QED
    BY <2>1 DEF Decoded
<1>5. Len(b) \in Nat /\ Len(e) \in Nat /\ frame.form \in {0, 2, 8} /\ 2 + frame.form <= Len(e)
  <2>1. Len(e) = 2 + frame.form + Len(AfterLength(frame))
    BY <1>1, EncodedParts
  <2>2. Len(AfterLength(frame)) = 4 + Size(frame)
    BY <1>1, MaskedParts
  <2>3. frame.form \in {0, 2, 8}
    BY <1>1, FrameParts
  <2>4. Len(b) \in Nat /\ Len(e) \in Nat
    BY <1>1 DEF Bytes
  <2> HIDE DEF e
  <2> QED
    BY <1>3, <2>1, <2>2, <2>3, <2>4
<1>6. CASE Len(b) < Len(e)
  <2>1. TryDecode(b) = More(b)
    BY <1>1, <1>3, <1>4, <1>6
  <2> QED
    BY <1>6, <2>1
<1>7. CASE ~(Len(b) < Len(e))
  <2>1. TryDecode(b) = Outcome("Frame", opcode, frame.payload, left)
    <3>1. ~(Len(b) < 2) /\ ~(Len(b) < 2 + frame.form)
      BY <1>1, <1>5, <1>7
    <3> QED
      BY <1>1, <1>2, <1>3, <1>4, <1>7, <3>1
  <2>2. Len(e) \in 0 .. Len(b)
    BY <1>5, <1>7
  <2> DEFINE head == SubSeq(b, 1, Len(e))
  <2>3. /\ head \in Bytes /\ Len(head) = Len(e) /\ left \in Bytes /\ b = head \o left
    <3> DEFINE n == Len(e)
    <3>1. n \in 0 .. Len(b) /\ b \in Seq(Byte)
      BY <2>2 DEF Bytes
    <3> HIDE DEF n
    <3>2. /\ SubSeq(b, 1, n) \in Seq(Byte) /\ Len(SubSeq(b, 1, n)) = n
          /\ From(b, n + 1) \in Seq(Byte)
          /\ b = SubSeq(b, 1, n) \o From(b, n + 1)
      BY <3>1, CutInTwo
    <3> QED
      BY <3>2 DEF n, Bytes
  <2>4. Len(left) = Len(b) - Len(e)
    <3>1. Len(e) + 1 \in 1 .. Len(b) + 1 /\ Len(b) + 1 - (Len(e) + 1) = Len(b) - Len(e)
      BY <1>5, <1>7
    <3>2. b \in Seq(Byte)
      BY DEF Bytes
    <3> QED
      BY <3>1, <3>2, FromProperties
  <2>5. left \o c = t
    <3> HIDE DEF e, left, head
    <3>1. (head \o left) \o c = head \o (left \o c)
      <4>1. Associates(head, left, c)
        BY <2>3, BytesAssociate
      <4> QED
        BY <4>1 DEF Associates
    <3>2. head \o (left \o c) = e \o t
      <4>1. b \o c = e \o t
        BY DEF e
      <4> QED
        BY <2>3, <3>1, <4>1
    <3>3. left \o c \in Bytes
      BY <2>3, ConcatIsBytes
    <3>4. From(head \o (left \o c), Len(head) + 1) = left \o c
      BY <2>3, <3>3, PartsOfConcat DEF Bytes
    <3>5. From(e \o t, Len(e) + 1) = t
      BY <1>1, PartsOfConcat DEF Bytes
    <3> QED
      BY <2>3, <3>2, <3>4, <3>5
  <2>6. Len(left) + 6 <= Len(b)
    BY <1>1, <1>5, <2>4
  <2> QED
    BY <1>7, <2>1, <2>3, <2>5, <2>6
<1> QED
  BY <1>6, <1>7

(***************************************************************************)
(* What the decoder, and the feed that calls it, make of what is to come.  *)
(***************************************************************************)
\* What the decoder may answer, and the frames that the feed passes over.
Outcomes == [status : {"More", "Bad", "Frame"}, opcode : Nat, payload : Bytes, rest : Bytes]
Controls == {PingFrame, PongFrame}

\* The parts of an outcome.
LEMMA OutcomeParts ==
  /\ \A status, opcode, payload, rest :
       /\ Outcome(status, opcode, payload, rest).status = status
       /\ Outcome(status, opcode, payload, rest).opcode = opcode
       /\ Outcome(status, opcode, payload, rest).payload = payload
       /\ Outcome(status, opcode, payload, rest).rest = rest
  /\ \A b \in Bytes : More(b) \in Outcomes /\ More(b).status = "More" /\ More(b).rest = b
  /\ Bad \in Outcomes /\ Bad.status = "Bad"
  /\ \A opcode \in Nat : \A payload, rest \in Bytes :
       Outcome("Frame", opcode, payload, rest) \in Outcomes
BY DEF Outcome, More, Bad, Outcomes, Bytes

\* What the decoder makes of a frame that ends the connection.
IsEnding(o, b) ==
  \/ o = More(b)
  \/ o = Bad
  \/ \E payload, left \in Bytes : o = Outcome("Frame", CloseFrame, payload, left)

\* It is waited for, refused, or the client's own close.
LEMMA DecodeEnding ==
  ASSUME NEW frame \in ClientFrames, Ends(frame),
         NEW b \in Bytes, NEW c \in Bytes, NEW t \in Bytes, b \o c = Encode(frame) \o t
  PROVE  IsEnding(TryDecode(b), b)
<1> DEFINE e == Encode(frame)
           opcode == frame.first % 16
           left == From(b, Len(e) + 1)
<1>1. TryDecode(b) =
        IF Len(b) < 2 THEN More(b)
        ELSE IF frame.first < 128 \/ frame.flag = 0 THEN Bad
        ELSE IF Len(b) < 2 + frame.form THEN More(b)
        ELSE IF Size(frame) > MaxMessageBytes THEN Bad
        ELSE IF Len(b) < Len(e) THEN More(b)
        ELSE IF opcode \notin Opcodes THEN Bad
        ELSE Outcome("Frame", opcode, frame.payload, left)
  <2>1. TryDecode(b) = Decoded(frame, b)
    BY DecodeFrame
  <2> QED
    BY <2>1 DEF Decoded
<1>2. CASE \/ Len(b) < 2 \/ frame.first < 128 \/ frame.flag = 0 \/ Len(b) < 2 + frame.form
           \/ Size(frame) > MaxMessageBytes \/ Len(b) < Len(e) \/ opcode \notin Opcodes
  <2> HIDE DEF left, e, opcode
  <2>1. TryDecode(b) = More(b) \/ TryDecode(b) = Bad
    BY <1>1, <1>2
  <2> QED
    BY <2>1 DEF IsEnding
<1>3. CASE ~(\/ Len(b) < 2 \/ frame.first < 128 \/ frame.flag = 0 \/ Len(b) < 2 + frame.form
             \/ Size(frame) > MaxMessageBytes \/ Len(b) < Len(e) \/ opcode \notin Opcodes)
  <2>1. TryDecode(b) = Outcome("Frame", opcode, frame.payload, left)
    <3> HIDE DEF left, e, opcode
    <3> QED
      BY <1>1, <1>3
  <2>2. opcode = CloseFrame
    BY <1>3 DEF Ends, Opcodes, Size
  <2>3. Len(b) \in Nat /\ Len(e) \in Nat
    BY EncodedParts DEF Bytes
  <2>4. Len(e) \in 0 .. Len(b)
    BY <1>3, <2>3
  <2>5. left \in Bytes
    BY <2>4, CutInTwo DEF Bytes
  <2> HIDE DEF left, e, opcode
  <2>6. frame.payload \in Bytes
    BY FrameParts
  <2> QED
    BY <2>1, <2>2, <2>5, <2>6 DEF IsEnding
<1> QED
  BY <1>2, <1>3

\* The decoder, with c to come after what it holds, of which these texts and the rest are left.
Waits(o, c, texts, rest) ==
  o.status = "More" /\ <<o.rest \o c, texts>> \in Coming(rest) /\ (c = <<>> => texts = <<>>)
Reads(o, c, texts, rest) ==
  /\ o.status = "Frame" /\ o.opcode = Text
  /\ \E others \in Texts :
       texts = <<o.payload>> \o others /\ <<o.rest \o c, others>> \in Coming(rest)
Passes(o, c, texts, rest) ==
  o.status = "Frame" /\ o.opcode \in Controls /\ <<o.rest \o c, texts>> \in Coming(rest)
Closes(o, texts, rest) ==
  /\ o.status = "Bad" \/ (o.status = "Frame" /\ o.opcode = CloseFrame)
  /\ rest # <<>> /\ texts = <<>>
Progress(c, texts, rest) ==
  {o \in Outcomes : \/ Waits(o, c, texts, rest) \/ Reads(o, c, texts, rest)
                    \/ Passes(o, c, texts, rest) \/ Closes(o, texts, rest)}

\* One call of tryDecode.
LEMMA DecodeProgress ==
  ASSUME NEW rest \in Bytes, IsRest(rest), NEW texts \in Texts,
         NEW b \in Bytes, NEW c \in Bytes, <<b \o c, texts>> \in Coming(rest)
  PROVE  /\ TryDecode(b) \in Progress(c, texts, rest)
         /\ TryDecode(b).status = "Frame" => Len(TryDecode(b).rest) + 6 <= Len(b)
              \/ TryDecode(b).opcode \notin Controls
<1> DEFINE o == TryDecode(b)
<1>1. b \o c \in Bytes
  BY ConcatIsBytes
<1>2. CASE b \o c = rest /\ texts = <<>>
  <2>1. CASE rest = <<>>
    <3>1. Len(b) < 2
      <4>1. Len(b \o c) = Len(b) + Len(c) /\ Len(b) \in Nat /\ Len(c) \in Nat
        BY BytesOfConcat
      <4>2. Len(<<>>) = 0
        OBVIOUS
      <4> QED
        BY <1>2, <2>1, <4>1, <4>2
    <3>2. o = More(b)
      BY <3>1 DEF TryDecode
    <3> HIDE DEF o
    <3>3. o \in Outcomes /\ o.status = "More" /\ o.rest = b
      BY <3>2, OutcomeParts
    <3>4. Waits(o, c, texts, rest)
      BY <1>2, <3>3 DEF Waits
    <3> QED
      BY <3>3, <3>4 DEF Progress, o
  <2>2. CASE rest # <<>>
    <3>1. PICK frame \in ClientFrames, tail \in Bytes :
            Ends(frame) /\ rest = Encode(frame) \o tail
      BY <2>2 DEF IsRest, BeginsTheEnd
    <3>2. b \o c = Encode(frame) \o tail
      <4> HIDE DEF o
      <4> QED
        BY <1>2, <3>1
    <3>3. IsEnding(o, b)
      BY <3>1, <3>2, DecodeEnding
    <3> HIDE DEF o
    <3>4. CASE o = More(b)
      <4>1. o \in Outcomes /\ o.status = "More" /\ o.rest = b
        BY <3>4, OutcomeParts
      <4>2. Waits(o, c, texts, rest)
        BY <1>2, <4>1 DEF Waits
      <4> QED
        BY <4>1, <4>2 DEF Progress, o
    <3>5. CASE o = Bad
      <4>1. o \in Outcomes /\ o.status = "Bad"
        BY <3>5, OutcomeParts
      <4>2. Closes(o, texts, rest)
        BY <1>2, <2>2, <4>1 DEF Closes
      <4> QED
        BY <4>1, <4>2 DEF Progress, o
    <3>6. CASE \E payload, left \in Bytes : o = Outcome("Frame", CloseFrame, payload, left)
      <4>1. PICK payload, left \in Bytes : o = Outcome("Frame", CloseFrame, payload, left)
        BY <3>6
      <4>2. CloseFrame \in Nat /\ CloseFrame \notin Controls
        BY DEF CloseFrame, Controls, PingFrame, PongFrame
      <4>3. o \in Outcomes /\ o.status = "Frame" /\ o.opcode = CloseFrame
        BY <4>1, <4>2, OutcomeParts
      <4>4. Closes(o, texts, rest)
        BY <1>2, <2>2, <4>3 DEF Closes
      <4> QED
        BY <4>2, <4>3, <4>4 DEF Progress, o
    <3> QED
      BY <3>3, <3>4, <3>5, <3>6 DEF IsEnding
  <2> QED
    BY <2>1, <2>2
<1>3. CASE \E frame \in Legal : \E t \in Bytes, others \in Texts :
             /\ <<t, others>> \in Coming(rest)
             /\ b \o c = Encode(frame) \o t /\ texts = TextOf(frame) \o others
  <2>1. PICK frame \in Legal, t \in Bytes, others \in Texts :
          /\ <<t, others>> \in Coming(rest)
          /\ b \o c = Encode(frame) \o t /\ texts = TextOf(frame) \o others
    BY <1>3
  <2> DEFINE e == Encode(frame)
             left == From(b, Len(e) + 1)
             opcode == frame.first % 16
  <2>2. /\ Len(b) < Len(e) => o = More(b)
        /\ ~(Len(b) < Len(e)) =>
             /\ o = Outcome("Frame", opcode, frame.payload, left)
             /\ left \in Bytes /\ Len(left) + 6 <= Len(b) /\ left \o c = t
    BY <2>1, DecodeLegal
  <2>3. e \in Bytes /\ frame.payload \in Bytes /\ opcode \in {Text, PingFrame, PongFrame}
    BY LegalFrames
  <2>4. b \o c = e \o t /\ texts = TextOf(frame) \o others
    BY <2>1
  <2>5. TextOf(frame) = IF opcode = Text THEN <<frame.payload>> ELSE <<>>
    BY DEF TextOf
  <2> HIDE DEF o, e, left, opcode
  <2>6. CASE Len(b) < Len(e)
    <3>1. o \in Outcomes /\ o.status = "More" /\ o.rest = b
      BY <2>2, <2>6, OutcomeParts
    <3>2. c # <<>>
      <4>1. /\ Len(b \o c) = Len(b) + Len(c) /\ Len(b) \in Nat /\ Len(c) \in Nat
            /\ Len(e \o t) = Len(e) + Len(t) /\ Len(e) \in Nat /\ Len(t) \in Nat
        BY <2>3, BytesOfConcat
      <4>2. Len(<<>>) = 0
        OBVIOUS
      <4> QED
        BY <2>4, <2>6, <4>1, <4>2
    <3>3. Waits(o, c, texts, rest)
      BY <3>1, <3>2 DEF Waits
    <3> QED
      BY <3>1, <3>3 DEF Progress, o
  <2>7. CASE ~(Len(b) < Len(e))
    <3>1. opcode \in Nat
      BY <2>3 DEF Text, PingFrame, PongFrame
    <3>2. /\ o \in Outcomes /\ o.status = "Frame" /\ o.opcode = opcode /\ o.payload = frame.payload
          /\ o.rest = left
      <4> DEFINE payload == frame.payload
      <4>1. payload \in Bytes /\ left \in Bytes /\ o = Outcome("Frame", opcode, payload, left)
        BY <2>2, <2>3, <2>7
      <4> HIDE DEF payload
      <4>2. Outcome("Frame", opcode, payload, left) \in Outcomes
        BY <3>1, <4>1, OutcomeParts
      <4>3. /\ Outcome("Frame", opcode, payload, left).status = "Frame"
            /\ Outcome("Frame", opcode, payload, left).opcode = opcode
            /\ Outcome("Frame", opcode, payload, left).payload = payload
            /\ Outcome("Frame", opcode, payload, left).rest = left
        BY OutcomeParts
      <4>4. o.payload = payload
        BY <4>1, <4>3
      <4>5. o \in Outcomes /\ o.status = "Frame" /\ o.opcode = opcode /\ o.rest = left
        BY <4>1, <4>2, <4>3
      <4> QED
        BY <4>4, <4>5 DEF payload
    <3>3. o.rest \o c = t /\ Len(o.rest) + 6 <= Len(b)
      BY <2>2, <2>7, <3>2
    <3>4. CASE opcode = Text
      <4>1. Reads(o, c, texts, rest)
        BY <2>1, <2>4, <2>5, <3>2, <3>3, <3>4 DEF Reads
      <4> QED
        BY <3>2, <3>3, <4>1 DEF Progress, o
    <3>5. CASE opcode # Text
      <4>1. texts = others
        BY <2>4, <2>5, <3>5, TextsConcat
      <4>2. Passes(o, c, texts, rest)
        BY <2>1, <2>3, <3>2, <3>3, <3>5, <4>1 DEF Passes, Controls
      <4> QED
        BY <3>2, <3>3, <4>2 DEF Progress, o
    <3> QED
      BY <3>4, <3>5
  <2> QED
    BY <2>6, <2>7
<1>4. \/ b \o c = rest /\ texts = <<>>
      \/ \E frame \in Legal : \E t \in Bytes, others \in Texts :
           /\ <<t, others>> \in Coming(rest)
           /\ b \o c = Encode(frame) \o t /\ texts = TextOf(frame) \o others
  <2> DEFINE d == b \o c
  <2>1. d \in Bytes /\ <<d, texts>> \in Coming(rest)
    BY <1>1
  <2> HIDE DEF d
  <2>2. (d = rest /\ texts = <<>>) \/ FirstIsLegal(d, texts, rest)
    <3> HIDE DEF o
    <3> QED
      BY <2>1, FirstComing
  <2> QED
    BY <2>2 DEF d, FirstIsLegal
<1> QED
  BY <1>2, <1>3, <1>4

\* What the feed does with an outcome: it passes a ping or a pong over.
IsControl(o) == o.status = "Frame" /\ ~Returned(o)
PassedOver(o) == IF IsControl(o) THEN TryDecode(o.rest) ELSE o

\* The feed is a run of the decoder.
LEMMA DecoderRuns ==
  ASSUME NEW b \in Bytes, NEW V, TryDecode(b) \in V, \A o \in V : PassedOver(o) \in V
  PROVE  \E g \in [0 .. Len(b) \div 6 -> V] :
           /\ WsFeed(b) = g[Len(b) \div 6] /\ g[0] = TryDecode(b)
           /\ \A n \in 1 .. Len(b) \div 6 : g[n] = PassedOver(g[n - 1])
<1> DEFINE N == Len(b) \div 6
           w == TryDecode(b)
           Step == [n \in 1 .. N |-> [o \in V |-> PassedOver(o)]]
           Body(g) == [k \in 0 .. N |->
                         IF k = 0 THEN w
                         ELSE LET before == g[k - 1]
                              IN  IF before.status = "Frame" /\ ~Returned(before)
                                  THEN TryDecode(before.rest) ELSE before]
           after == CHOOSE g : g = Body(g)
<1>1. N \in Nat
  <2>1. Len(b) \in Nat
    BY DEF Bytes
  <2> QED
    BY <2>1
<1>2. WsFeed(b) = after[N]
  BY DEF WsFeed
<1> HIDE DEF N, w
<1>3. \A n \in 1 .. N : \A o \in V : Step[n][o] = PassedOver(o)
  OBVIOUS
<1>4. Step \in [1 .. N -> [V -> V]]
  OBVIOUS
<1> HIDE DEF Step
<1>5. PICK g \in [0 .. N -> V] : IsRun(N, w, Step, g)
  <2>1. w \in V
    BY DEF w
  <2> QED
    BY <1>1, <1>4, <2>1, RunsExist
<1>6. \A n \in 0 .. N : g[n] = IF n = 0 THEN w ELSE PassedOver(g[n - 1])
  <2>1. ASSUME NEW n \in 0 .. N PROVE g[n] = IF n = 0 THEN w ELSE PassedOver(g[n - 1])
    <3>1. g[n] = IF n = 0 THEN w ELSE Step[n][g[n - 1]]
      BY <1>5 DEF IsRun
    <3>2. n # 0 => n \in 1 .. N /\ n - 1 \in 0 .. N
      BY <1>1
    <3>3. n # 0 => g[n - 1] \in V
      BY <3>2
    <3> QED
      BY <1>3, <3>1, <3>2, <3>3
  <2> QED
    BY <2>1
<1> DEFINE Passing(f) == [k \in 0 .. N |-> IF k = 0 THEN w ELSE PassedOver(f[k - 1])]
<1>7. \A f : Body(f) = Passing(f)
  BY DEF PassedOver, IsControl
<1>8. g = Passing(g)
  BY <1>6
<1> HIDE DEF Body, Passing
<1>9. after = Passing(after)
  <2>1. g = Body(g)
    BY <1>7, <1>8
  <2>2. after = Body(after)
    BY <2>1
  <2> QED
    BY <1>7, <2>2
<1> HIDE DEF after
<1>10. \A n \in 0 .. N : after[n] = IF n = 0 THEN w ELSE PassedOver(after[n - 1])
  BY <1>9, Zenon DEF Passing
<1> DEFINE Same == {n \in Nat : n <= N => after[n] = g[n]}
<1>11. 0 \in Same
  <2>1. 0 \in 0 .. N
    BY <1>1
  <2> QED
    BY <1>6, <1>10, <2>1
<1>12. ASSUME NEW n \in Nat, n \in Same PROVE n + 1 \in Same
  <2>1. SUFFICES ASSUME n + 1 <= N PROVE after[n + 1] = g[n + 1]
    OBVIOUS
  <2>2. n + 1 \in 0 .. N /\ n + 1 # 0 /\ (n + 1) - 1 = n /\ after[n] = g[n]
    BY <1>1, <1>12, <2>1
  <2> QED
    BY <1>6, <1>10, <2>2
<1> HIDE DEF Same
<1>13. N \in Same
  BY <1>1, <1>11, <1>12, SetNatInduction
<1>14. after[N] = g[N]
  BY <1>1, <1>13 DEF Same
<1>15. g[0] = w /\ \A n \in 1 .. N : g[n] = PassedOver(g[n - 1])
  <2>1. 0 \in 0 .. N /\ \A n \in 1 .. N : n \in 0 .. N /\ n # 0
    BY <1>1
  <2> QED
    BY <1>6, <2>1
<1> QED
  BY <1>2, <1>14, <1>15 DEF N, w

\* The feed ends with what the decoder waits for, a text, or the end; a ping or a pong is
\* never what it ends with, since each took six bytes at least.
LEMMA FeedProgress ==
  ASSUME NEW rest \in Bytes, IsRest(rest), NEW texts \in Texts,
         NEW b \in Bytes, NEW c \in Bytes, <<b \o c, texts>> \in Coming(rest)
  PROVE  WsFeed(b) \in Progress(c, texts, rest) /\ ~IsControl(WsFeed(b))
<1> DEFINE V == Progress(c, texts, rest)
           N == Len(b) \div 6
           first == TryDecode(b)
<1>1. N \in Nat /\ Len(b) \in Nat /\ Len(b) < 6 * (N + 1)
  <2>1. Len(b) \in Nat
    BY DEF Bytes
  <2> QED
    BY <2>1
<1>2. \A o : IsControl(o) <=> o.status = "Frame" /\ o.opcode \in Controls
  BY DEF IsControl, Returned, Controls
<1>3. ASSUME NEW d \in Bytes, <<d \o c, texts>> \in Coming(rest)
      PROVE  /\ TryDecode(d) \in V
             /\ IsControl(TryDecode(d)) => Len(TryDecode(d).rest) + 6 <= Len(d)
  <2> HIDE DEF V
  <2>1. /\ TryDecode(d) \in Progress(c, texts, rest)
        /\ TryDecode(d).status = "Frame" => Len(TryDecode(d).rest) + 6 <= Len(d)
             \/ TryDecode(d).opcode \notin Controls
    BY <1>3, DecodeProgress
  <2> QED
    BY <1>2, <2>1 DEF V
<1>4. first \in V /\ (IsControl(first) => Len(first.rest) + 6 <= Len(b))
  BY <1>3
<1> HIDE DEF first
<1>5. \A o \in V : IsControl(o) => o.rest \in Bytes /\ <<o.rest \o c, texts>> \in Coming(rest)
  <2> SUFFICES ASSUME NEW o \in V, IsControl(o)
               PROVE  o.rest \in Bytes /\ <<o.rest \o c, texts>> \in Coming(rest)
    OBVIOUS
  <2>1. o.status = "Frame" /\ o.opcode \in Controls
    BY <1>2
  <2>2. ~Waits(o, c, texts, rest)
    BY <2>1 DEF Waits
  <2>3. ~Reads(o, c, texts, rest) /\ ~Closes(o, texts, rest)
    BY <2>1 DEF Reads, Closes, Controls, PingFrame, PongFrame, Text, CloseFrame
  <2>4. Passes(o, c, texts, rest) /\ o \in Outcomes
    BY <2>2, <2>3 DEF Progress
  <2> QED
    BY <2>4 DEF Passes, Outcomes
<1> HIDE DEF V, N
<1>6. ASSUME NEW o \in V
      PROVE  /\ PassedOver(o) \in V
             /\ IsControl(PassedOver(o)) =>
                  IsControl(o) /\ Len(PassedOver(o).rest) + 6 <= Len(o.rest)
  <2>1. CASE IsControl(o)
    <3>1. PassedOver(o) = TryDecode(o.rest)
      BY <2>1 DEF PassedOver
    <3>2. o.rest \in Bytes /\ <<o.rest \o c, texts>> \in Coming(rest)
      BY <1>5, <2>1
    <3> DEFINE d == o.rest
    <3> HIDE DEF d
    <3>3. d \in Bytes /\ <<d \o c, texts>> \in Coming(rest)
      BY <3>2 DEF d
    <3>4. /\ TryDecode(d) \in V
          /\ IsControl(TryDecode(d)) => Len(TryDecode(d).rest) + 6 <= Len(d)
      BY <1>3, <3>3
    <3> QED
      BY <2>1, <3>1, <3>4 DEF d
  <2>2. CASE ~IsControl(o)
    BY <2>2 DEF PassedOver
  <2> QED
    BY <2>1, <2>2
<1>7. PICK g \in [0 .. N -> V] :
        /\ WsFeed(b) = g[N] /\ g[0] = first
        /\ \A n \in 1 .. N : g[n] = PassedOver(g[n - 1])
  BY <1>4, <1>6, DecoderRuns DEF N, first
<1> DEFINE Left(n) == Len(g[n].rest)
           IsAt(n) == IsControl(g[n])
           Far(n) == n <= N => (IsAt(n) => Left(n) + 6 * n + 6 <= Len(b))
           Reached == {n \in Nat : Far(n)}
<1>8. Far(0)
  <2>1. IsAt(0) => Left(0) + 6 <= Len(b)
    BY <1>4, <1>7
  <2>2. 0 \in 0 .. N
    BY <1>1
  <2>3. IsAt(0) => Left(0) \in Nat
    BY <1>5, <2>2 DEF Bytes
  <2> HIDE DEF Left, IsAt
  <2> QED
    BY <1>1, <2>1, <2>3
<1>9. ASSUME NEW n \in Nat, Far(n) PROVE Far(n + 1)
  <2>1. SUFFICES ASSUME n + 1 <= N, IsAt(n + 1) PROVE Left(n + 1) + 6 * (n + 1) + 6 <= Len(b)
    BY DEF Far
  <2>2. n + 1 \in 1 .. N /\ (n + 1) - 1 = n /\ n \in 0 .. N /\ n + 1 \in 0 .. N /\ n <= N
    BY <1>1, <2>1
  <2>3. g[n + 1] = PassedOver(g[n]) /\ g[n] \in V /\ g[n + 1] \in V
    BY <1>7, <2>2
  <2>4. IsAt(n) /\ Left(n + 1) + 6 <= Left(n)
    BY <1>6, <2>1, <2>3
  <2>5. g[n].rest \in Bytes /\ g[n + 1].rest \in Bytes
    BY <1>5, <2>1, <2>3, <2>4
  <2>6. Left(n) \in Nat /\ Left(n + 1) \in Nat
    BY <2>5 DEF Bytes
  <2> HIDE DEF Left, IsAt
  <2>7. Left(n) + 6 * n + 6 <= Len(b)
    BY <1>9, <2>2, <2>4
  <2>8. 6 * (n + 1) = 6 * n + 6 /\ 6 * n \in Nat /\ Len(b) \in Nat
    BY <1>1
  <2> QED
    BY <2>4, <2>6, <2>7, <2>8
<1>10. Far(N)
  <2> HIDE DEF Far
  <2>1. 0 \in Reached /\ \A n \in Nat : n \in Reached => n + 1 \in Reached
    BY <1>8, <1>9
  <2> HIDE DEF Reached
  <2>2. N \in Reached
    BY <1>1, <2>1, SetNatInduction
  <2> QED
    BY <2>2 DEF Reached
<1>11. N \in 0 .. N /\ g[N] \in V
  BY <1>1
<1>12. ~IsControl(g[N])
  <2>1. SUFFICES ASSUME IsAt(N) PROVE FALSE
    OBVIOUS
  <2>2. Left(N) \in Nat
    BY <1>5, <1>11, <2>1 DEF Bytes
  <2> HIDE DEF Left, IsAt
  <2> QED
    BY <1>1, <1>10, <2>1, <2>2
<1> QED
  BY <1>7, <1>11, <1>12 DEF V

(***************************************************************************)
(* The inductive invariant: what is to come, while the client writes and   *)
(* the server reads.                                                       *)
(***************************************************************************)
\* What an adapter holds.
Adapters == [phase : {"Connected", "Authenticated", "InMatch"}, age : Nat, idle : Nat,
             pingOutstanding : BOOLEAN]

\* The variables hold what they should.
WsTypes ==
  /\ wire \in Bytes /\ buffer \in Bytes /\ sent \in Texts /\ delivered \in Texts
  /\ closed \in BOOLEAN /\ open \in BOOLEAN /\ ended \in BOOLEAN
  /\ adapter \in Adapters /\ asked \in [before : Nat, since : Nat]

\* The rest is nothing, or begins with the frame that ended the connection.
RestIf(over, rest) == IF over THEN BeginsTheEnd(rest) ELSE rest = <<>>

\* What the decoder holds and what is on its way are the frames of the texts to come, and then
\* a frame that ends the connection if there is one.
ToCome(texts, rest) ==
  /\ <<buffer \o wire, texts>> \in Coming(rest)
  /\ sent = delivered \o texts
  /\ RestIf(ended, rest)
TextsToCome == closed \/ \E texts \in Texts, rest \in Bytes : ToCome(texts, rest)

\* What follows may be anything that IsRest.
LEMMA RestIfIsRest ==
  ASSUME NEW over \in BOOLEAN, NEW rest, RestIf(over, rest)
  PROVE  IsRest(rest)
BY DEF RestIf, IsRest

\* Once a frame has ended the connection, more bytes do not change that.
LEMMA MoreAfterTheEnd ==
  ASSUME NEW rest \in Bytes, BeginsTheEnd(rest), NEW more \in Bytes
  PROVE  BeginsTheEnd(rest \o more)
<1>1. PICK frame \in ClientFrames, tail \in Bytes :
        Ends(frame) /\ rest = Encode(frame) \o tail
  BY DEF BeginsTheEnd
<1> DEFINE e == Encode(frame)
<1>2. e \in Bytes
  BY EncodedParts
<1>3. tail \o more \in Bytes
  BY ConcatIsBytes
<1>4. rest \o more = e \o (tail \o more)
  <2>1. rest = e \o tail
    BY <1>1
  <2> HIDE DEF e
  <2> QED
    BY <1>2, <2>1, ConcatAssociates
<1> QED
  BY <1>1, <1>3, <1>4 DEF BeginsTheEnd

\* A client's frame is bytes, two at least.
LEMMA EncodeIsBytes ==
  ASSUME NEW frame \in ClientFrames
  PROVE  Encode(frame) \in Bytes /\ Len(Encode(frame)) >= 2
<1>1. /\ Encode(frame) \in Bytes
      /\ Len(Encode(frame)) = 2 + frame.form + Len(AfterLength(frame))
  BY EncodedParts
<1>2. frame.form \in {0, 2, 8}
  BY FrameParts
<1>3. Len(AfterLength(frame)) \in Nat
  BY EncodedParts DEF Bytes
<1> QED
  BY <1>1, <1>2, <1>3

\* A client that writes a frame.
LEMMA ClientSendsKeeps ==
  ASSUME WsTypes, TextsToCome, NEW frame \in ClientFrames,
         ClientSends(frame)
  PROVE  /\ TextsToCome' /\ wire' \in Bytes /\ wire' # <<>> /\ ended' \in BOOLEAN
         /\ sent' \in Texts /\ (ended => ended' /\ sent' = sent)
         /\ sent' = sent \/ \E text \in Bytes : sent' = Append(sent, text)
         /\ UNCHANGED <<buffer, closed, open, delivered>>
<1> DEFINE e == Encode(frame)
           payload == frame.payload
           opcode == frame.first % 16
<1>1. e \in Bytes /\ Len(e) >= 2 /\ payload \in Bytes
  BY EncodeIsBytes, FrameParts
<1>2. /\ wire' = wire \o e /\ ended' = (ended \/ Ends(frame))
      /\ sent' = IF opcode = Text /\ ~ended' THEN Append(sent, payload) ELSE sent
      /\ UNCHANGED <<buffer, closed, open, delivered>>
  BY DEF ClientSends
<1>3. Ends(frame) \in BOOLEAN
  BY DEF Ends
<1>4. TextOf(frame) = IF opcode = Text THEN <<payload>> ELSE <<>>
  BY DEF TextOf
<1> HIDE DEF e, payload, opcode
<1>5. ended' \in BOOLEAN /\ (ended => ended' /\ sent' = sent)
  BY <1>2, <1>3 DEF WsTypes
<1>6. wire' \in Bytes /\ wire' # <<>>
  <2>1. wire \in Bytes
    BY DEF WsTypes
  <2>2. wire \o e \in Bytes
    BY <1>1, <2>1, ConcatIsBytes
  <2>3. Len(wire \o e) = Len(wire) + Len(e) /\ Len(wire) \in Nat /\ Len(e) \in Nat
    BY <1>1, <2>1, BytesOfConcat
  <2>4. Len(<<>>) = 0
    OBVIOUS
  <2>5. Len(wire \o e) # 0
    BY <1>1, <2>3
  <2> QED
    BY <1>2, <2>2, <2>4, <2>5
<1>7. /\ sent' \in Texts
      /\ sent' = sent \/ \E text \in Bytes : sent' = Append(sent, text)
  <2>1. sent \in Texts
    BY DEF WsTypes
  <2>2. Append(sent, payload) \in Texts
    BY <1>1, <2>1, AppendProperties DEF Texts
  <2> QED
    BY <1>1, <1>2, <2>1, <2>2
<1>8. TextsToCome'
  <2>1. CASE closed
    BY <1>2, <2>1 DEF TextsToCome
  <2>2. CASE ~closed
    <3>1. PICK texts \in Texts, rest \in Bytes : ToCome(texts, rest)
      BY <2>2 DEF TextsToCome
    <3> DEFINE held == buffer \o wire
    <3>2. /\ <<held, texts>> \in Coming(rest) /\ sent = delivered \o texts
          /\ RestIf(ended, rest)
      BY <3>1 DEF ToCome
    <3>3. held \in Bytes /\ buffer' \o wire' = held \o e
      <4>1. buffer \in Bytes /\ wire \in Bytes
        BY DEF WsTypes
      <4>2. (buffer \o wire) \o e = buffer \o (wire \o e)
        <5>1. Associates(buffer, wire, e)
          BY <1>1, <4>1, BytesAssociate
        <5> QED
          BY <5>1 DEF Associates
      <4> QED
        BY <1>2, <4>1, <4>2, ConcatIsBytes
    <3> HIDE DEF held
    <3>4. ASSUME NEW others \in Texts, NEW after \in Bytes,
                 <<held \o e, others>> \in Coming(after), sent' = delivered \o others,
                 RestIf(ended', after)
          PROVE  TextsToCome'
      <4>1. delivered' = delivered
        BY <1>2
      <4>2. ToCome(others, after)'
        BY <3>3, <3>4, <4>1 DEF ToCome
      <4> QED
        BY <4>2 DEF TextsToCome
    <3>5. CASE ended
      <4>1. ended' /\ sent' = sent
        BY <1>2, <1>5, <3>5
      <4>2. BeginsTheEnd(rest)
        BY <3>2, <3>5 DEF RestIf
      <4> DEFINE after == rest \o e
      <4>3. after \in Bytes /\ BeginsTheEnd(after)
        BY <1>1, <4>2, ConcatIsBytes, MoreAfterTheEnd
      <4>4. <<held \o e, texts>> \in Coming(after)
        BY <1>1, <3>2, <3>3, MoreComes
      <4> HIDE DEF after
      <4>5. RestIf(ended', after)
        BY <4>1, <4>3 DEF RestIf
      <4> QED
        BY <3>2, <3>4, <4>1, <4>3, <4>4, <4>5
    <3>6. CASE ~ended /\ Ends(frame)
      <4>1. ended' /\ sent' = sent
        BY <1>2, <3>6
      <4>2. rest = <<>>
        BY <3>2, <3>6 DEF RestIf
      <4>3. <<held \o e, texts>> \in Coming(rest \o e)
        BY <1>1, <3>2, <3>3, MoreComes
      <4>4. rest \o e = e /\ e \o <<>> = e /\ <<>> \in Bytes
        BY <1>1, <4>2, ConcatEmptySeq DEF Bytes
      <4>5. BeginsTheEnd(e)
        BY <3>6, <4>4 DEF BeginsTheEnd, e
      <4>6. RestIf(ended', e)
        BY <4>1, <4>5 DEF RestIf
      <4> QED
        BY <1>1, <3>2, <3>4, <4>1, <4>3, <4>4, <4>6
    <3>7. CASE ~ended /\ ~Ends(frame)
      <4>1. ~ended'
        BY <1>2, <3>7
      <4>2. rest = <<>> /\ <<>> \in Bytes
        BY <3>2, <3>7 DEF RestIf, Bytes
      <4> DEFINE its == TextOf(frame)
                 others == texts \o its
      <4>3. frame \in Legal /\ its \in Texts
        <5>1. frame \in Legal
          BY <3>7 DEF Legal
        <5> QED
          BY <5>1, LegalFrames
      <4>4. <<held, texts>> \in Coming(<<>>)
        BY <3>2, <4>2
      <4>5. <<held \o e, others>> \in Coming(<<>>)
        BY <3>3, <4>3, <4>4, LastComes DEF e
      <4>6. sent' = sent \o its
        <5>1. sent \in Texts
          BY DEF WsTypes
        <5>2. Append(sent, payload) = sent \o <<payload>> /\ sent \o <<>> = sent
          BY <1>1, <5>1, AppendIsConcat, ConcatEmptySeq DEF Texts
        <5> QED
          BY <1>2, <1>4, <4>1, <5>2
      <4> HIDE DEF its
      <4>7. sent' = delivered \o others /\ others \in Texts
        <5>1. delivered \in Texts
          BY DEF WsTypes
        <5>2. (delivered \o texts) \o its = delivered \o (texts \o its)
          <6>1. delivered \in Seq(Bytes) /\ texts \in Seq(Bytes) /\ its \in Seq(Bytes)
            BY <4>3, <5>1 DEF Texts
          <6>2. Associates(delivered, texts, its)
            BY <6>1, SequencesAssociate
          <6> QED
            BY <6>2 DEF Associates
        <5> QED
          BY <3>2, <4>3, <4>6, <5>2, TextsConcat
      <4> HIDE DEF others
      <4>8. RestIf(ended', <<>>)
        BY <4>1 DEF RestIf
      <4> QED
        BY <3>4, <4>2, <4>5, <4>7, <4>8
    <3> QED
      BY <3>5, <3>6, <3>7
  <2> QED
    BY <2>1, <2>2
<1> QED
  BY <1>2, <1>5, <1>6, <1>7, <1>8

\* What comes of a read: a text is delivered, it goes on, or a frame has ended the connection.
ReadsText(read) ==
  /\ HoldsText(read) /\ ~closed' /\ TextsToCome'
  /\ Len(delivered) < Len(sent) /\ delivered' = Append(delivered, sent[Len(delivered) + 1])
ReadsOn(read) ==
  /\ ~HoldsText(read) /\ KeepsReading(read) /\ ~closed' /\ TextsToCome'
  /\ delivered' = delivered /\ (wire' = <<>> => sent = delivered)
ReadsTheEnd(read) ==
  /\ ~HoldsText(read) /\ ~KeepsReading(read) /\ closed' /\ ended
  /\ delivered' = delivered /\ sent = delivered

\* The first of the texts after those delivered.
LEMMA NextText ==
  ASSUME NEW s \in Texts, NEW d \in Texts, NEW text \in Bytes, NEW others \in Texts,
         s = d \o (<<text>> \o others)
  PROVE  /\ s = Append(d, text) \o others /\ Append(d, text) \in Texts
         /\ Len(d) < Len(s) /\ s[Len(d) + 1] = text
<1> DEFINE one == <<text>>
           more == one \o others
<1>1. one \in Texts /\ Len(one) = 1 /\ one[1] = text
  BY DEF Texts
<1>2. Append(d, text) = d \o one /\ Append(d, text) \in Texts
  BY AppendIsConcat, AppendProperties DEF Texts
<1> HIDE DEF one
<1>3. (d \o one) \o others = d \o (one \o others)
  BY <1>1, ConcatAssociative DEF Texts
<1>4. /\ more \in Texts /\ Len(more) = 1 + Len(others) /\ more[1] = text
      /\ Len(others) \in Nat /\ Len(d) \in Nat
  <2>1. /\ one \o others \in Seq(Bytes) /\ Len(one \o others) = Len(one) + Len(others)
        /\ \A i \in 1 .. Len(one) + Len(others) :
             (one \o others)[i] = IF i <= Len(one) THEN one[i] ELSE others[i - Len(one)]
    BY <1>1, ConcatProperties DEF Texts
  <2>2. Len(others) \in Nat /\ Len(d) \in Nat
    BY LenProperties DEF Texts
  <2>3. 1 \in 1 .. Len(one) + Len(others) /\ 1 <= Len(one)
    BY <1>1, <2>2
  <2> QED
    BY <1>1, <2>1, <2>2, <2>3 DEF Texts
<1>5. s = d \o more
  BY DEF one
<1>6. s = Append(d, text) \o others
  BY <1>2, <1>3, <1>5
<1> HIDE DEF more
<1>7. /\ Len(s) = Len(d) + Len(more)
      /\ \A i \in 1 .. Len(d) + Len(more) : s[i] = IF i <= Len(d) THEN d[i] ELSE more[i - Len(d)]
  <2>1. d \in Seq(Bytes) /\ more \in Seq(Bytes)
    BY <1>4 DEF Texts
  <2>2. /\ Len(d \o more) = Len(d) + Len(more)
        /\ \A i \in 1 .. Len(d) + Len(more) :
             (d \o more)[i] = IF i <= Len(d) THEN d[i] ELSE more[i - Len(d)]
    BY <2>1, ConcatProperties
  <2> QED
    BY <1>5, <2>2, Zenon
<1>8. Len(d) + 1 \in 1 .. Len(d) + Len(more) /\ ~(Len(d) + 1 <= Len(d)) /\ (Len(d) + 1) - Len(d) = 1
  BY <1>4
<1>9. s[Len(d) + 1] = text
  BY <1>4, <1>7, <1>8
<1>10. Len(d) < Len(s)
  BY <1>4, <1>7
<1> QED
  BY <1>2, <1>6, <1>9, <1>10

\* The pieces of what is on its way.
LEMMA PieceOfWire ==
  ASSUME WsTypes, NEW n \in Receivable
  PROVE  /\ SubSeq(wire, 1, n) \in Bytes /\ From(wire, n + 1) \in Bytes
         /\ buffer \o SubSeq(wire, 1, n) \in Bytes
         /\ (buffer \o SubSeq(wire, 1, n)) \o From(wire, n + 1) = buffer \o wire
<1>1. wire \in Seq(Byte) /\ buffer \in Bytes /\ Len(wire) \in Nat
  BY DEF WsTypes, Bytes
<1>2. n \in 0 .. Len(wire)
  BY <1>1, WebSocketAssumption DEF WebSocketAssumption, Receivable
<1> DEFINE piece == SubSeq(wire, 1, n)
           after == From(wire, n + 1)
<1>3. piece \in Bytes /\ after \in Bytes /\ wire = piece \o after
  BY <1>1, <1>2, CutInTwo DEF Bytes
<1> HIDE DEF piece, after
<1>4. (buffer \o piece) \o after = buffer \o (piece \o after)
  <2>1. Associates(buffer, piece, after)
    BY <1>1, <1>3, BytesAssociate
  <2> QED
    BY <2>1 DEF Associates
<1>5. buffer \o piece \in Bytes
  BY <1>1, <1>3, ConcatIsBytes
<1> QED
  BY <1>3, <1>4, <1>5 DEF piece, after

\* A server that reads what has come.
LEMMA ReceiveKeepsTexts ==
  ASSUME WsTypes, TextsToCome, closed => ~open,
         NEW n \in Receivable, WsReceive(n)
  PROVE  /\ wire' \in Bytes /\ buffer' \in Bytes /\ delivered' \in Texts /\ closed' \in BOOLEAN
         /\ open /\ UNCHANGED <<ended, sent>>
         /\ ReadsText(Read(n)) \/ ReadsOn(Read(n)) \/ ReadsTheEnd(Read(n))
<1> DEFINE x == buffer \o SubSeq(wire, 1, n)
           c == From(wire, n + 1)
           o == WsFeed(x)
<1>1. Read(n) = o
  BY DEF Read
<1>2. /\ open /\ wire' = c /\ buffer' = o.rest /\ UNCHANGED <<ended, sent>>
      /\ closed' = ~(HoldsText(o) \/ KeepsReading(o))
      /\ delivered' = IF HoldsText(o) THEN Append(delivered, o.payload) ELSE delivered
  BY <1>1 DEF WsReceive
<1>3. x \in Bytes /\ c \in Bytes /\ x \o c = buffer \o wire
  BY PieceOfWire
<1> HIDE DEF x, c
<1>4. PICK texts \in Texts, rest \in Bytes : ToCome(texts, rest)
  BY <1>2 DEF TextsToCome
<1>5. /\ <<x \o c, texts>> \in Coming(rest) /\ sent = delivered \o texts
      /\ RestIf(ended, rest) /\ IsRest(rest)
  <2>1. ended \in BOOLEAN
    BY DEF WsTypes
  <2> QED
    BY <1>3, <1>4, <2>1, RestIfIsRest DEF ToCome
<1>6. o \in Progress(c, texts, rest) /\ ~IsControl(o)
  BY <1>3, <1>5, FeedProgress
<1> HIDE DEF o
<1>7. o \in Outcomes
  BY <1>6 DEF Progress
<1>8. delivered \in Texts /\ sent \in Texts
  BY DEF WsTypes
<1>9. ASSUME NEW others \in Texts, <<o.rest \o c, others>> \in Coming(rest),
             sent = delivered' \o others
      PROVE  TextsToCome'
  <2>1. buffer' \o wire' = o.rest \o c /\ sent' = sent /\ ended' = ended
    BY <1>2
  <2>2. ToCome(others, rest)'
    BY <1>5, <1>9, <2>1 DEF ToCome
  <2> QED
    BY <2>2 DEF TextsToCome
<1>10. /\ wire' \in Bytes /\ buffer' \in Bytes /\ delivered' \in Texts /\ closed' \in BOOLEAN
  <2>1. o.rest \in Bytes /\ o.payload \in Bytes
    BY <1>7 DEF Outcomes
  <2>2. Append(delivered, o.payload) \in Texts
    BY <1>8, <2>1, AppendProperties DEF Texts
  <2>3. closed' \in BOOLEAN
    BY <1>2
  <2> QED
    BY <1>2, <1>3, <1>8, <2>1, <2>2, <2>3
<1>11. CASE Waits(o, c, texts, rest)
  <2>1. o.status = "More" /\ <<o.rest \o c, texts>> \in Coming(rest) /\ (c = <<>> => texts = <<>>)
    BY <1>11 DEF Waits
  <2>2. ~HoldsText(o) /\ KeepsReading(o)
    BY <2>1 DEF HoldsText, KeepsReading
  <2>3. delivered' = delivered /\ ~closed'
    BY <1>2, <2>2
  <2>4. TextsToCome'
    BY <1>5, <1>9, <2>1, <2>3
  <2>5. wire' = <<>> => sent = delivered
    <3>1. delivered \o <<>> = delivered
      BY <1>8, TextsConcat
    <3> QED
      BY <1>2, <1>5, <2>1, <3>1
  <2>6. ReadsOn(o)
    BY <2>2, <2>3, <2>4, <2>5 DEF ReadsOn
  <2> QED
    BY <1>1, <1>2, <1>10, <2>6
<1>12. CASE Reads(o, c, texts, rest)
  <2>1. PICK others \in Texts : /\ texts = <<o.payload>> \o others
                                /\ <<o.rest \o c, others>> \in Coming(rest)
    BY <1>12 DEF Reads
  <2>2. HoldsText(o)
    BY <1>12 DEF Reads, HoldsText
  <2>3. delivered' = Append(delivered, o.payload) /\ ~closed'
    BY <1>2, <2>2
  <2> DEFINE text == o.payload
  <2>4. text \in Bytes
    BY <1>7 DEF Outcomes
  <2>5. sent = delivered \o (<<text>> \o others)
    BY <1>5, <2>1
  <2> HIDE DEF text
  <2>6. /\ sent = Append(delivered, text) \o others
        /\ Len(delivered) < Len(sent) /\ sent[Len(delivered) + 1] = text
    BY <1>8, <2>4, <2>5, NextText
  <2>7. delivered' = Append(delivered, text)
    BY <2>3 DEF text
  <2>8. TextsToCome'
    BY <1>9, <2>1, <2>6, <2>7
  <2>9. ReadsText(o)
    BY <2>2, <2>3, <2>6, <2>7, <2>8 DEF ReadsText
  <2> QED
    BY <1>1, <1>2, <1>10, <2>9
<1>13. CASE Closes(o, texts, rest)
  <2>1. ~HoldsText(o) /\ ~KeepsReading(o)
    BY <1>13 DEF Closes, HoldsText, KeepsReading, Text, CloseFrame
  <2>2. closed' /\ delivered' = delivered
    BY <1>2, <2>1
  <2>3. ended /\ sent = delivered
    <3>1. delivered \o <<>> = delivered
      BY <1>8, TextsConcat
    <3> QED
      BY <1>5, <1>13, <3>1 DEF Closes, RestIf
  <2>4. ReadsTheEnd(o)
    BY <2>1, <2>2, <2>3 DEF ReadsTheEnd
  <2> QED
    BY <1>1, <1>2, <1>10, <2>4
<1>14. ~Passes(o, c, texts, rest)
  BY <1>6 DEF Passes, IsControl, Returned, Controls
<1> QED
  BY <1>6, <1>11, <1>12, <1>13, <1>14 DEF Progress

(***************************************************************************)
(* The inductive invariant: the timers.                                    *)
(***************************************************************************)
\* A ping that is out has not been answered: no text sent after it was delivered, the client
\* has had since then what the idle time counts, and what it sent since is still to come.
Unanswered ==
  /\ Len(delivered) <= asked.before /\ asked.since = adapter.idle
  /\ wire = <<>> => Len(sent) = asked.before
\* A connection that is open has no reason to be closed; one that was closed by its decoder had
\* met the end; and a ping that is out has not been answered.
Timers ==
  /\ open => reason = "None" /\ ~closed
  /\ closed => ended /\ delivered = sent
  /\ asked.before <= Len(sent) /\ adapter.idle <= IdleTimeout
  /\ (open /\ adapter.pingOutstanding) => Unanswered

\* What NobodyIsGivenUpUnheard says of the timers.
GivenUpHeard ==
  /\ reason = "IdleTimeout"
       => /\ asked.since = IdleTimeout
          /\ wire = <<>> => Len(sent) = asked.before
  /\ reason = "HandshakeTimeout" => adapter.phase = "Connected"

\* The inductive invariant.
WsInv == WsTypes /\ TextsToCome /\ Timers /\ GivenUpHeard

\* It holds at first.
LEMMA InitWsInv == WsInit => WsInv
<1> SUFFICES ASSUME WsInit PROVE WsInv
  OBVIOUS
<1>1. /\ wire = <<>> /\ buffer = <<>> /\ closed = FALSE /\ open = TRUE /\ ended = FALSE
      /\ sent = <<>> /\ delivered = <<>> /\ reason = "None"
      /\ adapter = [phase |-> "Connected", age |-> 0, idle |-> 0, pingOutstanding |-> FALSE]
      /\ asked = [before |-> 0, since |-> 0]
  BY DEF WsInit, Opened
<1>2. <<>> \in Bytes /\ <<>> \in Texts
  BY DEF Bytes, Texts
<1>3. WsTypes
  BY <1>1, <1>2 DEF WsTypes, Adapters
<1>4. TextsToCome
  <2>1. <<<<>>, <<>>>> \in Coming(<<>>)
    BY <1>2, RestComes
  <2>2. buffer \o wire = <<>> /\ sent = delivered \o <<>>
    BY <1>1, <1>2, ConcatEmptySeq DEF Bytes, Texts
  <2>3. ToCome(<<>>, <<>>)
    BY <1>1, <2>1, <2>2 DEF ToCome, RestIf
  <2> QED
    BY <1>2, <2>3 DEF TextsToCome
<1>5. Timers
  <2>1. Len(sent) = 0 /\ IdleTimeout \in Nat
    BY <1>1, WebSocketSessionAssumption DEF WebSocketSessionAssumption
  <2> QED
    BY <1>1, <2>1 DEF Timers
<1>6. GivenUpHeard
  BY <1>1 DEF GivenUpHeard
<1> QED
  BY <1>3, <1>4, <1>5, <1>6 DEF WsInv

\* A text that is handled: the adapter stays one, and has heard from the client if it goes on.
LEMMA HandleKeeps ==
  ASSUME adapter \in Adapters, adapter.idle <= IdleTimeout,
         NEW type, Handle(type)
  PROVE  /\ adapter' \in Adapters /\ adapter'.idle <= IdleTimeout
         /\ \/ open' = open /\ reason' = reason /\ ~adapter'.pingOutstanding
            \/ open' = FALSE /\ reason' \in {"ProtocolError", "AuthFailed"}
<1>1. IdleTimeout \in Nat /\ 0 <= IdleTimeout
  BY WebSocketSessionAssumption DEF WebSocketSessionAssumption
<1> DEFINE heard == [adapter EXCEPT !.idle = 0, !.pingOutstanding = FALSE]
<1>2. /\ heard \in Adapters /\ heard.idle = 0 /\ ~heard.pingOutstanding
  BY DEF Adapters
<1>3. ASSUME NEW phase \in {"Authenticated", "InMatch"}
      PROVE  /\ [heard EXCEPT !.phase = phase] \in Adapters
             /\ [heard EXCEPT !.phase = phase].idle = 0
             /\ ~[heard EXCEPT !.phase = phase].pingOutstanding
  <2> HIDE DEF heard
  <2> QED
    BY <1>2, <1>3 DEF Adapters
<1>4. \/ open' = FALSE /\ reason' = "ProtocolError" /\ adapter' = adapter
      \/ adapter' = [heard EXCEPT !.phase = "Authenticated"] /\ open' = open /\ reason' = reason
      \/ adapter' = heard /\ open' = FALSE /\ reason' = "AuthFailed"
      \/ adapter' = [heard EXCEPT !.phase = "InMatch"] /\ open' = open /\ reason' = reason
      \/ adapter' = heard /\ open' = open /\ reason' = reason
  BY Zenon DEF Handle, Ended, Heard, GoesOn
<1> HIDE DEF heard
<1> QED
  BY <1>1, <1>2, <1>3, <1>4

\* A read, with the handling of the text it gives back, keeps it (readText with receiveText).
LEMMA ReadTextKeeps ==
  ASSUME WsInv, ReadText
  PROVE  WsInv'
<1>1. PICK n \in Receivable :
        /\ WsReceive(n)
        /\ IF HoldsText(Read(n)) THEN Handle(TypeOf[Read(n).payload])
           ELSE /\ UNCHANGED adapter
                /\ IF KeepsReading(Read(n)) THEN GoesOn ELSE Ended("Closed")
        /\ UNCHANGED asked
  BY DEF ReadText
<1> DEFINE read == Read(n)
<1>2. WsTypes /\ TextsToCome /\ Timers
  BY DEF WsInv
<1>3. /\ wire' \in Bytes /\ buffer' \in Bytes /\ delivered' \in Texts /\ closed' \in BOOLEAN
      /\ open /\ UNCHANGED <<ended, sent>>
      /\ ReadsText(read) \/ ReadsOn(read) \/ ReadsTheEnd(read)
  <2>1. closed => ~open
    BY <1>2 DEF Timers
  <2> QED
    BY <1>1, <1>2, <2>1, ReceiveKeepsTexts
<1> HIDE DEF read
<1>4. /\ HoldsText(read) => Handle(TypeOf[read.payload])
      /\ ~HoldsText(read) =>
           /\ adapter' = adapter
           /\ KeepsReading(read) => open' = open /\ reason' = reason
           /\ ~KeepsReading(read) => open' = FALSE /\ reason' = "Closed"
      /\ asked' = asked
  BY <1>1 DEF read, GoesOn, Ended
<1>5. /\ adapter \in Adapters /\ asked \in [before : Nat, since : Nat] /\ open \in BOOLEAN
      /\ reason = "None" /\ ~closed /\ adapter.idle <= IdleTimeout
      /\ asked.before <= Len(sent) /\ ended' = ended /\ sent' = sent
      /\ ended \in BOOLEAN /\ sent \in Texts /\ delivered \in Texts
      /\ adapter.pingOutstanding => Unanswered
  BY <1>2, <1>3 DEF WsTypes, Timers
<1>6. ASSUME adapter' \in Adapters, open' \in BOOLEAN
      PROVE  WsTypes'
  BY <1>3, <1>4, <1>5, <1>6 DEF WsTypes
<1>7. CASE ReadsText(read)
  <2>1. HoldsText(read) /\ ~closed' /\ TextsToCome'
    BY <1>7 DEF ReadsText
  <2>2. /\ adapter' \in Adapters /\ adapter'.idle <= IdleTimeout
        /\ \/ open' = open /\ reason' = reason /\ ~adapter'.pingOutstanding
           \/ open' = FALSE /\ reason' \in {"ProtocolError", "AuthFailed"}
    <3>1. Handle(TypeOf[read.payload])
      BY <1>4, <2>1
    <3> QED
      BY <1>5, <3>1, HandleKeeps
  <2>3. WsTypes'
    BY <1>3, <1>6, <2>2
  <2>4. Timers'
    BY <1>4, <1>5, <2>1, <2>2 DEF Timers
  <2>5. GivenUpHeard'
    BY <1>5, <2>2 DEF GivenUpHeard
  <2> QED
    BY <2>1, <2>3, <2>4, <2>5 DEF WsInv
<1>8. CASE ReadsOn(read)
  <2>1. /\ adapter' = adapter /\ open' = open /\ reason' = reason /\ ~closed' /\ TextsToCome'
        /\ delivered' = delivered /\ (wire' = <<>> => sent = delivered)
    BY <1>4, <1>8 DEF ReadsOn
  <2>2. WsTypes'
    BY <1>3, <1>5, <1>6, <2>1
  <2>3. ASSUME adapter.pingOutstanding PROVE Unanswered'
    <3>1. Unanswered
      BY <1>5, <2>3
    <3>2. wire' = <<>> => Len(sent) = asked.before
      <4>1. Len(sent) \in Nat /\ Len(delivered) \in Nat /\ asked.before \in Nat
        BY <1>5 DEF Texts
      <4>2. Len(delivered) <= asked.before /\ asked.before <= Len(sent)
        BY <1>5, <3>1 DEF Unanswered
      <4> QED
        BY <2>1, <4>1, <4>2
    <3> QED
      BY <1>4, <1>5, <2>1, <3>1, <3>2 DEF Unanswered
  <2>4. Timers'
    BY <1>4, <1>5, <2>1, <2>3 DEF Timers
  <2>5. GivenUpHeard'
    BY <1>5, <2>1 DEF GivenUpHeard
  <2> QED
    BY <2>1, <2>2, <2>4, <2>5 DEF WsInv
<1>9. CASE ReadsTheEnd(read)
  <2>1. /\ adapter' = adapter /\ open' = FALSE /\ reason' = "Closed" /\ closed' /\ ended
        /\ delivered' = delivered /\ sent = delivered
    BY <1>4, <1>9 DEF ReadsTheEnd
  <2>2. WsTypes'
    BY <1>5, <1>6, <2>1
  <2>3. TextsToCome'
    BY <2>1 DEF TextsToCome
  <2>4. Timers'
    BY <1>4, <1>5, <2>1 DEF Timers
  <2>5. GivenUpHeard'
    BY <2>1 DEF GivenUpHeard
  <2> QED
    BY <2>2, <2>3, <2>4, <2>5 DEF WsInv
<1> QED
  BY <1>3, <1>7, <1>8, <1>9

\* So does a read that timed out (checkTimeout),
LEMMA TimedOutKeeps ==
  ASSUME WsInv, TimedOut
  PROVE  WsInv'
<1>1. /\ open /\ UNCHANGED <<wire, buffer, closed, ended, sent, delivered>>
      /\ CheckTimeout
  BY DEF TimedOut
<1>2. WsTypes /\ TextsToCome /\ Timers
  BY DEF WsInv
<1>3. TextsToCome'
  BY <1>1, <1>2 DEF TextsToCome, ToCome
<1>4. /\ adapter \in Adapters /\ asked \in [before : Nat, since : Nat] /\ sent \in Texts
      /\ reason = "None" /\ ~closed /\ adapter.idle <= IdleTimeout /\ asked.before <= Len(sent)
      /\ adapter.pingOutstanding => Unanswered
  BY <1>1, <1>2 DEF WsTypes, Timers
<1>5. CASE HandshakeIsLate /\ Ended("HandshakeTimeout") /\ UNCHANGED <<adapter, asked>>
  <2>1. open' = FALSE /\ reason' = "HandshakeTimeout" /\ adapter' = adapter /\ asked' = asked
    BY <1>5 DEF Ended
  <2>2. WsTypes'
    BY <1>1, <1>2, <2>1 DEF WsTypes
  <2>3. Timers'
    BY <1>1, <1>2, <2>1 DEF Timers
  <2>4. GivenUpHeard'
    BY <1>5, <2>1 DEF GivenUpHeard, HandshakeIsLate
  <2> QED
    BY <1>3, <2>2, <2>3, <2>4 DEF WsInv
<1>6. CASE SendPing
  <2>1. /\ adapter' = [adapter EXCEPT !.pingOutstanding = TRUE, !.idle = 0]
        /\ asked' = [before |-> Len(sent), since |-> 0]
        /\ open' = open /\ reason' = reason
    BY <1>6 DEF SendPing, GoesOn
  <2>2. Len(sent) \in Nat /\ Len(delivered) \in Nat /\ Len(delivered) <= Len(sent)
    <3>1. PICK texts \in Texts, rest \in Bytes : ToCome(texts, rest)
      BY <1>2, <1>4 DEF TextsToCome
    <3>2. sent = delivered \o texts /\ delivered \in Texts
      BY <1>2, <3>1 DEF ToCome, WsTypes
    <3>3. Len(delivered \o texts) = Len(delivered) + Len(texts)
      BY <3>2, ConcatProperties DEF Texts
    <3>4. Len(delivered) \in Nat /\ Len(texts) \in Nat
      BY <3>2 DEF Texts
    <3> QED
      BY <3>2, <3>3, <3>4
  <2>3. adapter' \in Adapters /\ adapter'.idle = 0 /\ asked' \in [before : Nat, since : Nat]
    BY <1>4, <2>1, <2>2 DEF Adapters
  <2>4. WsTypes'
    BY <1>1, <1>2, <2>1, <2>3 DEF WsTypes
  <2>5. Unanswered'
    BY <1>1, <2>1, <2>2, <2>3 DEF Unanswered
  <2>6. Timers'
    <3>1. 0 <= IdleTimeout
      BY WebSocketSessionAssumption DEF WebSocketSessionAssumption
    <3>2. asked'.before = Len(sent)
      BY <2>1
    <3> QED
      BY <1>1, <1>4, <2>1, <2>2, <2>3, <2>5, <3>1, <3>2 DEF Timers
  <2>7. GivenUpHeard'
    BY <1>4, <2>1 DEF GivenUpHeard
  <2> QED
    BY <1>3, <2>4, <2>6, <2>7 DEF WsInv
<1>7. CASE /\ ~HandshakeIsLate /\ IsIdle /\ adapter.pingOutstanding
           /\ Ended("IdleTimeout") /\ UNCHANGED <<adapter, asked>>
  <2>1. open' = FALSE /\ reason' = "IdleTimeout" /\ adapter' = adapter /\ asked' = asked
    BY <1>7 DEF Ended
  <2>2. WsTypes'
    BY <1>1, <1>2, <2>1 DEF WsTypes
  <2>3. Timers'
    BY <1>1, <1>2, <2>1 DEF Timers
  <2>4. adapter.idle = IdleTimeout
    <3>1. adapter.idle >= IdleTimeout /\ adapter.idle \in Nat /\ IdleTimeout \in Nat
      BY <1>4, <1>7, WebSocketSessionAssumption DEF IsIdle, Adapters, WebSocketSessionAssumption
    <3> QED
      BY <1>4, <3>1
  <2>5. Unanswered
    BY <1>4, <1>7
  <2>6. asked.since = IdleTimeout /\ (wire = <<>> => Len(sent) = asked.before)
    BY <2>4, <2>5 DEF Unanswered
  <2>7. GivenUpHeard'
    BY <1>1, <2>1, <2>6 DEF GivenUpHeard
  <2> QED
    BY <1>3, <2>2, <2>3, <2>7 DEF WsInv
<1> QED
  BY <1>1, <1>5, <1>6, <1>7 DEF CheckTimeout

\* a connection that fails,
LEMMA FailsKeeps ==
  ASSUME WsInv, Fails
  PROVE  WsInv'
<1>1. /\ open' = FALSE /\ reason' = "Closed"
      /\ UNCHANGED <<wire, buffer, closed, ended, sent, delivered, adapter, asked>>
  BY DEF Fails, Close
<1>2. WsTypes /\ TextsToCome /\ Timers
  BY DEF WsInv
<1>3. WsTypes'
  BY <1>1, <1>2 DEF WsTypes
<1>4. TextsToCome'
  BY <1>1, <1>2 DEF TextsToCome, ToCome
<1>5. Timers'
  BY <1>1, <1>2 DEF Timers
<1>6. GivenUpHeard'
  BY <1>1 DEF GivenUpHeard
<1> QED
  BY <1>3, <1>4, <1>5, <1>6 DEF WsInv

\* time,
LEMMA ElapseKeeps ==
  ASSUME WsInv, Elapse
  PROVE  WsInv'
<1> DEFINE age == Later(adapter.age, HandshakeTimeout)
           idle == Later(adapter.idle, IdleTimeout)
           since == Later(asked.since, IdleTimeout)
<1>1. /\ open /\ UNCHANGED <<wire, buffer, closed, open, ended, sent, delivered, reason>>
      /\ adapter' = [adapter EXCEPT !.age = age, !.idle = idle]
      /\ asked' = [asked EXCEPT !.since = since]
  BY DEF Elapse, wsVars
<1>2. WsTypes /\ TextsToCome /\ Timers
  BY DEF WsInv
<1>3. /\ adapter \in Adapters /\ asked \in [before : Nat, since : Nat]
      /\ adapter.age \in Nat /\ adapter.idle \in Nat /\ asked.since \in Nat
      /\ IdleTimeout \in Nat /\ HandshakeTimeout \in Nat /\ adapter.idle <= IdleTimeout
  BY <1>2, WebSocketSessionAssumption DEF WsTypes, Timers, Adapters, WebSocketSessionAssumption
<1>4. age \in Nat /\ idle \in Nat /\ since \in Nat /\ idle <= IdleTimeout
      /\ (asked.since = adapter.idle => since = idle)
  BY <1>3 DEF Later
<1> HIDE DEF age, idle, since
<1>5. /\ adapter' \in Adapters /\ adapter'.idle = idle
      /\ adapter'.pingOutstanding = adapter.pingOutstanding
      /\ asked' \in [before : Nat, since : Nat] /\ asked'.before = asked.before
      /\ asked'.since = since
  BY <1>1, <1>3, <1>4 DEF Adapters
<1>6. WsTypes'
  BY <1>1, <1>2, <1>5 DEF WsTypes
<1>7. TextsToCome'
  BY <1>1, <1>2 DEF TextsToCome, ToCome
<1>8. Unanswered => Unanswered'
  BY <1>1, <1>4, <1>5 DEF Unanswered
<1>9. Timers'
  BY <1>1, <1>2, <1>4, <1>5, <1>8 DEF Timers
<1>10. GivenUpHeard'
  BY <1>1, <1>2 DEF GivenUpHeard, Timers
<1> QED
  BY <1>6, <1>7, <1>9, <1>10 DEF WsInv

\* and a client that writes a frame.
LEMMA SendKeeps ==
  ASSUME WsInv, Send
  PROVE  WsInv'
<1>1. PICK frame \in ClientFrames : ClientSends(frame) /\ UNCHANGED <<adapter, reason, asked>>
  BY DEF Send
<1>2. WsTypes /\ TextsToCome /\ Timers /\ GivenUpHeard
  BY DEF WsInv
<1>3. /\ TextsToCome' /\ wire' \in Bytes /\ wire' # <<>> /\ ended' \in BOOLEAN
      /\ sent' \in Texts /\ (ended => ended' /\ sent' = sent)
      /\ sent' = sent \/ \E text \in Bytes : sent' = Append(sent, text)
      /\ UNCHANGED <<buffer, closed, open, delivered>>
  BY <1>1, <1>2, ClientSendsKeeps
<1>4. WsTypes'
  BY <1>1, <1>2, <1>3 DEF WsTypes
<1>5. asked.before <= Len(sent')
  <2>1. asked.before <= Len(sent) /\ asked.before \in Nat /\ sent \in Texts
    BY <1>2 DEF Timers, WsTypes
  <2>2. \A text \in Bytes : Len(Append(sent, text)) = Len(sent) + 1
    BY <2>1, AppendProperties DEF Texts
  <2>3. Len(sent) \in Nat
    BY <2>1 DEF Texts
  <2> QED
    BY <1>3, <2>1, <2>2, <2>3
<1>6. Unanswered => Unanswered'
  BY <1>1, <1>3 DEF Unanswered
<1>7. Timers'
  BY <1>1, <1>2, <1>3, <1>5, <1>6 DEF Timers
<1>8. GivenUpHeard'
  BY <1>1, <1>2, <1>3 DEF GivenUpHeard
<1> QED
  BY <1>3, <1>4, <1>7, <1>8 DEF WsInv

\* Every step keeps the invariant.
LEMMA NextWsInv == WsInv /\ [WsNext]_sessionVars => WsInv'
<1> SUFFICES ASSUME WsInv, [WsNext]_sessionVars PROVE WsInv'
  OBVIOUS
<1>1. CASE UNCHANGED sessionVars
  <2>1. UNCHANGED <<wire, buffer, closed, open, ended, sent, delivered, adapter, reason, asked>>
    BY <1>1 DEF sessionVars, wsVars
  <2> QED
    BY <2>1 DEF WsInv, WsTypes, TextsToCome, ToCome, Timers, Unanswered, GivenUpHeard
<1> QED
  BY <1>1, ReadTextKeeps, TimedOutKeeps, FailsKeeps, ElapseKeeps, SendKeeps DEF WsNext

\* Whatever a browser writes, in whatever pieces it is read, and whenever the timers look: what
\* the decoder holds and what is on its way are the frames of the texts to come.
THEOREM WsInductiveInvariant == WsSpec => []WsInv
BY InitWsInv, NextWsInv, PTL DEF WsSpec

\* No text is lost, and the decoder is closed only by a frame that ends the connection, for frames
\* of every kind and size in pieces of every size (feed, readText).
THEOREM TextsNeverLost == WsSpec => []NothingIsLost
<1>1. WsInv => NothingIsLost
  <2> SUFFICES ASSUME WsInv PROVE NothingIsLost
    OBVIOUS
  <2>1. WsTypes /\ TextsToCome /\ Timers
    BY DEF WsInv
  <2>2. closed => ended /\ delivered = sent
    BY <2>1 DEF Timers
  <2>3. ASSUME ~closed, wire = <<>>, WsFeed(buffer).status = "More" PROVE delivered = sent
    <3>1. PICK texts \in Texts, rest \in Bytes : ToCome(texts, rest)
      BY <2>1, <2>3 DEF TextsToCome
    <3>2. <<>> \in Bytes /\ buffer \in Bytes /\ ended \in BOOLEAN /\ delivered \in Texts
      BY <2>1 DEF WsTypes, Bytes
    <3>3. /\ <<buffer \o <<>>, texts>> \in Coming(rest) /\ sent = delivered \o texts
          /\ IsRest(rest)
      BY <2>3, <3>1, <3>2, RestIfIsRest DEF ToCome
    <3>4. WsFeed(buffer) \in Progress(<<>>, texts, rest)
      BY <3>2, <3>3, FeedProgress
    <3>5. Waits(WsFeed(buffer), <<>>, texts, rest)
      BY <2>3, <3>4 DEF Progress, Reads, Passes, Closes
    <3>6. texts = <<>> /\ delivered \o <<>> = delivered
      BY <3>2, <3>5, TextsConcat DEF Waits
    <3> QED
      BY <3>3, <3>6
  <2> QED
    BY <2>2, <2>3 DEF NothingIsLost
<1> QED
  BY <1>1, WsInductiveInvariant, PTL

\* A client is given up as idle only if it was asked, had the whole idle time, and nothing it sent
\* since has arrived; one given up for its handshake never authenticated (checkTimeout).
THEOREM AlwaysHeard == WsSpec => []NobodyIsGivenUpUnheard
<1>1. WsInv => GivenUpHeard
  BY DEF WsInv
<1>2. GivenUpHeard /\ NothingIsLost => NobodyIsGivenUpUnheard
  BY DEF GivenUpHeard, NobodyIsGivenUpUnheard
<1> QED
  BY <1>1, <1>2, WsInductiveInvariant, TextsNeverLost, PTL

\* Each step of a WebSocket connection is a step of the channel, or leaves it alone.
LEMMA StepOfWsChannel ==
  ASSUME WsInv, [WsNext]_sessionVars
  PROVE  [TextChannel!Next]_(TextChannel!vars)
<1>1. WsTypes /\ TextsToCome /\ Timers
  BY DEF WsInv
<1>2. ASSUME ReadText PROVE TextChannel!Next \/ UNCHANGED <<sent, delivered>>
  <2>1. PICK n \in Receivable : WsReceive(n)
    BY <1>2 DEF ReadText
  <2>2. closed => ~open
    BY <1>1 DEF Timers
  <2>3. /\ UNCHANGED <<ended, sent>>
        /\ ReadsText(Read(n)) \/ ReadsOn(Read(n)) \/ ReadsTheEnd(Read(n))
    BY <1>1, <2>1, <2>2, ReceiveKeepsTexts
  <2>4. CASE ReadsText(Read(n))
    <3>1. TextChannel!Deliver
      BY <2>3, <2>4 DEF ReadsText, TextChannel!Deliver
    <3> QED
      BY <3>1 DEF TextChannel!Next
  <2>5. CASE ReadsOn(Read(n)) \/ ReadsTheEnd(Read(n))
    BY <2>3, <2>5 DEF ReadsOn, ReadsTheEnd
  <2> QED
    BY <2>3, <2>4, <2>5
<1>3. ASSUME Send PROVE TextChannel!Next \/ UNCHANGED <<sent, delivered>>
  <2>1. PICK frame \in ClientFrames : ClientSends(frame)
    BY <1>3 DEF Send
  <2>2. /\ sent' = sent \/ \E text \in Bytes : sent' = Append(sent, text)
        /\ delivered' = delivered
    BY <1>1, <2>1, ClientSendsKeeps
  <2>3. CASE sent' = sent
    BY <2>2, <2>3
  <2>4. CASE \E text \in Bytes : sent' = Append(sent, text)
    <3>1. PICK text \in Bytes : sent' = Append(sent, text)
      BY <2>4
    <3> DEFINE one == <<text>>
    <3>2. sent \in Texts
      BY <1>1 DEF WsTypes
    <3>3. one \in Texts /\ Len(one) = 1
      BY DEF Texts
    <3>4. sent' = sent \o one
      BY <3>1, <3>2, AppendIsConcat DEF Texts
    <3> HIDE DEF one
    <3>5. Len(sent \o one) = Len(sent) + Len(one)
      <4>1. sent \in Seq(Bytes) /\ one \in Seq(Bytes)
        BY <3>2, <3>3 DEF Texts
      <4> QED
        BY <4>1, ConcatProperties
    <3>6. SubSeq(sent \o one, 1, Len(sent)) = sent
      BY <3>2, <3>3, PartsOfConcat DEF Texts
    <3>7. TextChannel!Send
      BY <2>2, <3>3, <3>4, <3>5, <3>6 DEF TextChannel!Send
    <3> QED
      BY <3>7 DEF TextChannel!Next
  <2> QED
    BY <2>2, <2>3, <2>4
<1>4. ASSUME TimedOut \/ Fails \/ Elapse \/ UNCHANGED sessionVars
      PROVE  UNCHANGED <<sent, delivered>>
  BY <1>4 DEF TimedOut, Fails, Close, Elapse, sessionVars, wsVars
<1>5. TextChannel!Next \/ UNCHANGED <<sent, delivered>>
  BY <1>2, <1>3, <1>4 DEF WsNext
<1> QED
  BY <1>5 DEF TextChannel!vars

\* A WebSocket connection is a channel of whole texts, each delivered once and in order, whatever
\* control frames lie between them, and none after a frame that ends it (feed with tryDecode).
THEOREM TextsAreAChannel == WsSpec => ImplementsTextChannel
<1>1. WsInit => TextChannel!Init
  BY DEF WsInit, Opened, TextChannel!Init
<1>2. WsInv /\ [WsNext]_sessionVars => [TextChannel!Next]_(TextChannel!vars)
  BY StepOfWsChannel
<1> QED
  BY <1>1, <1>2, WsInductiveInvariant, PTL DEF WsSpec, ImplementsTextChannel, TextChannel!Spec
=============================================================================
