--------------------------- MODULE QtClientProofs ---------------------------
(***************************************************************************)
(* What TLAPS proves of the desktop client and its connection (QtClient),  *)
(* however many matches, commands and messages on their way there are:     *)
(* types; that the numbers of its commands stay fresh; that the phase the  *)
(* client thinks it is in stays in step with the server's, so no request   *)
(* is refused but a second one; that the next match is offered only when   *)
(* the last is over; and that the hero goes where the keys say.            *)
(***************************************************************************)
EXTENDS QtClient, SequenceTheorems, FiniteSetTheorems, TLAPS

(***************************************************************************)
(* A client c, the messages u and d to and from the server, the matches ms.*)
(***************************************************************************)
IsInput(message) == message.type = "InputCommand"
IsJoined(message) == message.type = "MatchJoined"

\* A match the client has not been told of has taken no command; in the client's match
\* the next number is above the last one taken.
Numbered(c, ms) ==
  /\ c.match <= Len(ms)
  /\ \A m \in 1 .. Len(ms) : m > c.match => ms[m].lastSeq = 0
  /\ c.match # 0 => ms[c.match].lastSeq < c.seq

\* Commands on their way are to matches the client knows, with numbers between the two.
Commands(c, u, ms) ==
  \A i \in 1 .. Len(u) :
    IsInput(u[i]) => /\ u[i].match \in 1 .. c.match
                     /\ u[i].seq > ms[u[i].match].lastSeq
                     /\ u[i].match = c.match => u[i].seq < c.seq

Ordered(u) ==
  \A i, j \in 1 .. Len(u) :
    (i < j /\ IsInput(u[i]) /\ IsInput(u[j]) /\ u[i].match = u[j].match) => u[i].seq < u[j].seq

\* The matches the client is yet to be told of, in the order in which they began.
Announced(c, d, ms) ==
  /\ \A i \in 1 .. Len(d) : IsJoined(d[i]) => d[i].match > c.match /\ d[i].match <= Len(ms)
  /\ \A i, j \in 1 .. Len(d) : (i < j /\ IsJoined(d[i]) /\ IsJoined(d[j])) => d[i].match < d[j].match

Core(c, u, d, ms) == Numbered(c, ms) /\ Commands(c, u, ms) /\ Ordered(u) /\ Announced(c, d, ms)

Messages == Seq(MessageRecord)
Answers == Seq(ServerRecord)
MatchList == Seq(MatchRecord)

(***************************************************************************)
(* What the client does.                                                   *)
(***************************************************************************)
\* Of the client only its match and its next number matter.
LEMMA CoreClient ==
  ASSUME NEW c, NEW c2, NEW u, NEW d, NEW ms,
         Core(c, u, d, ms), c2.match = c.match, c2.seq = c.seq
  PROVE  Core(c2, u, d, ms)
BY DEF Core, Numbered, Commands, Announced

\* Sending something that is no command keeps the numbers in order.
LEMMA CoreSend ==
  ASSUME NEW c, NEW u \in Messages, NEW d, NEW ms, NEW e \in Messages,
         Core(c, u, d, ms), \A i \in 1 .. Len(e) : ~IsInput(e[i])
  PROVE  Core(c, u \o e, d, ms) /\ u \o e \in Messages
<1>1. /\ u \o e \in Messages /\ Len(u \o e) = Len(u) + Len(e)
      /\ \A i \in 1 .. Len(u) + Len(e) : (u \o e)[i] = IF i <= Len(u) THEN u[i] ELSE e[i - Len(u)]
  BY ConcatProperties DEF Messages
<1>2. Len(u) \in Nat /\ Len(e) \in Nat
  BY DEF Messages
<1> DEFINE v == u \o e
<1>3. \A i \in 1 .. Len(v) : IsInput(v[i]) => i \in 1 .. Len(u) /\ v[i] = u[i]
  BY <1>1, <1>2
<1> HIDE DEF v
<1>4. Commands(c, v, ms)
  BY <1>3 DEF Core, Commands
<1>5. Ordered(v)
  BY <1>3 DEF Core, Ordered
<1> QED
  BY <1>1, <1>4, <1>5 DEF Core, v

\* Sending a command with the next number keeps the numbers in order.
LEMMA CoreIntent ==
  ASSUME NEW c \in ClientRecord, NEW c2, NEW u \in Messages, NEW d, NEW ms, NEW x \in MessageRecord,
         Core(c, u, d, ms), c.match # 0, c2.match = c.match, c2.seq = c.seq + 1,
         IsInput(x), x.match = c.match, x.seq = c.seq, ms \in MatchList
  PROVE  Core(c2, u \o <<x>>, d, ms) /\ u \o <<x>> \in Messages
<1> DEFINE v == u \o <<x>>
<1>1. <<x>> \in Messages /\ Len(<<x>>) = 1 /\ <<x>>[1] = x
  BY DEF Messages
<1>2. /\ v \in Messages /\ Len(v) = Len(u) + 1
      /\ \A i \in 1 .. Len(u) + 1 : v[i] = IF i <= Len(u) THEN u[i] ELSE <<x>>[i - Len(u)]
  BY <1>1, ConcatProperties DEF Messages
<1>3. Len(u) \in Nat
  BY DEF Messages
<1> HIDE DEF v
<1>4. /\ \A i \in 1 .. Len(u) : i \in 1 .. Len(v) /\ v[i] = u[i]
      /\ \A i \in 1 .. Len(v) : i \in 1 .. Len(u) \/ (i = Len(u) + 1 /\ v[i] = x)
  BY <1>1, <1>2, <1>3
<1>5. c.match \in Nat \ {0} /\ c.seq \in Nat /\ c.match \in 1 .. Len(ms) /\ ms[c.match].lastSeq \in Nat
  <2>1. c.match \in Nat \ {0} /\ c.seq \in Nat
    BY DEF ClientRecord
  <2>2. Len(ms) \in Nat /\ \A m \in 1 .. Len(ms) : ms[m] \in MatchRecord
    BY DEF MatchList
  <2>3. c.match \in 1 .. Len(ms)
    BY <2>1, <2>2 DEF Core, Numbered
  <2> QED
    BY <2>1, <2>2, <2>3 DEF MatchRecord
<1>6. \A i \in 1 .. Len(u) : IsInput(u[i]) => u[i].seq \in Int /\ u[i].match \in Int
  <2>1. \A i \in 1 .. Len(u) : u[i] \in MessageRecord
    BY DEF Messages
  <2> QED
    BY <2>1 DEF MessageRecord, NoSeq
<1>7. Numbered(c2, ms)
  BY <1>5 DEF Core, Numbered
<1>8. Commands(c2, v, ms)
  <2>1. ASSUME NEW i \in 1 .. Len(u), IsInput(u[i])
        PROVE  /\ u[i].match \in 1 .. c.match /\ u[i].seq > ms[u[i].match].lastSeq
               /\ u[i].match = c.match => u[i].seq < c.seq + 1
    BY <1>5, <1>6, <2>1 DEF Core, Commands
  <2>2. x.match \in 1 .. c.match /\ x.seq > ms[x.match].lastSeq /\ x.seq < c.seq + 1
    BY <1>5 DEF Core, Numbered
  <2> QED
    BY <1>4, <2>1, <2>2 DEF Commands
<1>9. Ordered(v)
  <2>1. ASSUME NEW i \in 1 .. Len(u), IsInput(u[i]), u[i].match = x.match PROVE u[i].seq < x.seq
    BY <2>1 DEF Core, Commands
  <2> QED
    BY <1>3, <1>4, <2>1 DEF Core, Ordered
<1>10. Announced(c2, d, ms)
  BY DEF Core, Announced
<1> QED
  BY <1>2, <1>7, <1>8, <1>9, <1>10 DEF Core, v

\* Reading an answer off the stream keeps the numbers in order.
LEMMA CoreRead ==
  ASSUME NEW c, NEW u, NEW d \in Answers, NEW ms, Core(c, u, d, ms),
         d # <<>>
  PROVE  Core(c, u, Tail(d), ms) /\ Tail(d) \in Answers /\ Head(d) \in ServerRecord
<1>1. /\ Tail(d) \in Answers /\ Len(Tail(d)) = Len(d) - 1 /\ Len(d) \in Nat
      /\ Head(d) \in ServerRecord
      /\ \A i \in 1 .. Len(Tail(d)) : Tail(d)[i] = d[i + 1]
  BY HeadTailProperties DEF Answers
<1> DEFINE t == Tail(d)
<1> HIDE DEF t
<1>2. \A i \in 1 .. Len(t) : i + 1 \in 1 .. Len(d) /\ t[i] = d[i + 1]
  BY <1>1 DEF t
<1>3. Announced(c, t, ms)
  <2>1. ASSUME NEW i \in 1 .. Len(t), IsJoined(t[i])
        PROVE  t[i].match > c.match /\ t[i].match <= Len(ms)
    BY <1>2, <2>1 DEF Core, Announced
  <2>2. ASSUME NEW i \in 1 .. Len(t), NEW j \in 1 .. Len(t), i < j, IsJoined(t[i]), IsJoined(t[j])
        PROVE  t[i].match < t[j].match
    <3>1. i + 1 \in 1 .. Len(d) /\ j + 1 \in 1 .. Len(d) /\ i + 1 < j + 1
      BY <1>2, <2>2
    <3>2. t[i] = d[i + 1] /\ t[j] = d[j + 1]
      BY <1>2
    <3> QED
      BY <2>2, <3>1, <3>2 DEF Core, Announced
  <2> QED
    BY <2>1, <2>2 DEF Announced
<1> QED
  BY <1>1, <1>3 DEF Core, t

\* The client learns of its next match, and counts from one again.
LEMMA CoreJoin ==
  ASSUME NEW c \in ClientRecord, NEW c2, NEW u \in Messages, NEW d \in Answers, NEW ms \in MatchList,
         Core(c, u, d, ms), d # <<>>, IsJoined(Head(d)), c2.match = Head(d).match, c2.seq = 1
  PROVE  Core(c2, u, Tail(d), ms)
<1> DEFINE t == Tail(d)
           k == Head(d).match
<1>1. /\ t \in Answers /\ Len(t) = Len(d) - 1 /\ Len(d) \in Nat \ {0}
      /\ Head(d) \in ServerRecord /\ Head(d) = d[1]
      /\ \A i \in 1 .. Len(t) : t[i] = d[i + 1]
  BY HeadTailProperties DEF Answers
<1> HIDE DEF t
<1>2. \A i \in 1 .. Len(t) : i + 1 \in 1 .. Len(d) /\ 1 < i + 1 /\ t[i] = d[i + 1]
  BY <1>1
<1>3. 1 \in 1 .. Len(d) /\ d[1].match = k /\ IsJoined(d[1])
  BY <1>1
<1>4. c.match \in Nat /\ k \in Nat /\ k > c.match /\ k <= Len(ms) /\ Len(ms) \in Nat
  BY <1>1, <1>3 DEF Core, Announced, ClientRecord, ServerRecord, MatchList
<1> HIDE DEF k
<1>5. ms[k].lastSeq = 0
  BY <1>4 DEF Core, Numbered
<1>6. Numbered(c2, ms)
  <2>1. c2.match = k
    BY DEF k
  <2> QED
    BY <1>4, <1>5, <2>1 DEF Core, Numbered
<1>7. Commands(c2, u, ms)
  <2>1. ASSUME NEW i \in 1 .. Len(u), IsInput(u[i])
        PROVE  u[i].match \in 1 .. k /\ u[i].match # k /\ u[i].seq > ms[u[i].match].lastSeq
    <3>1. u[i].match \in 1 .. c.match /\ u[i].seq > ms[u[i].match].lastSeq
      BY <2>1 DEF Core, Commands
    <3> QED
      BY <1>4, <3>1
  <2>2. c2.match = k
    BY DEF k
  <2> QED
    BY <2>1, <2>2 DEF Commands
<1>8. Announced(c2, t, ms)
  <2>1. c2.match = k
    BY DEF k
  <2>2. \A i, j \in 1 .. Len(t) : i < j => i + 1 < j + 1
    BY <1>1
  <2> QED
    BY <1>2, <1>3, <2>1, <2>2 DEF Core, Announced
<1> QED
  BY <1>6, <1>7, <1>8 DEF Core, t

(***************************************************************************)
(* What the server does.                                                   *)
(***************************************************************************)
\* A message is read.
LEMMA CoreServe ==
  ASSUME NEW c, NEW u \in Messages, NEW d, NEW ms, Core(c, u, d, ms), u # <<>>
  PROVE  Core(c, Tail(u), d, ms) /\ Tail(u) \in Messages /\ Head(u) \in MessageRecord
<1> DEFINE t == Tail(u)
<1>1. /\ t \in Messages /\ Len(t) = Len(u) - 1 /\ Len(u) \in Nat
      /\ Head(u) \in MessageRecord
      /\ \A i \in 1 .. Len(t) : t[i] = u[i + 1]
  BY HeadTailProperties DEF Messages
<1> HIDE DEF t
<1>2. \A i \in 1 .. Len(t) : i + 1 \in 1 .. Len(u) /\ t[i] = u[i + 1]
  BY <1>1
<1>3. Commands(c, t, ms)
  BY <1>2 DEF Core, Commands
<1>4. Ordered(t)
  <2>1. \A i, j \in 1 .. Len(t) : i < j => i + 1 < j + 1
    BY <1>1
  <2> QED
    BY <1>2, <2>1 DEF Core, Ordered
<1> QED
  BY <1>1, <1>3, <1>4 DEF Core, t

\* The messages are dropped.
LEMMA CoreDrop ==
  ASSUME NEW c, NEW u, NEW d, NEW ms, Core(c, u, d, ms)
  PROVE  Core(c, <<>>, d, ms) /\ <<>> \in Messages
<1>1. \A i \in 1 .. Len(<<>>) : FALSE
  OBVIOUS
<1>2. <<>> \in Messages
  BY EmptySeq DEF Messages
<1> QED
  BY <1>1, <1>2 DEF Core, Commands, Ordered

\* The client is told anything but that it is in a match.
LEMMA CoreTell ==
  ASSUME NEW c, NEW u, NEW d \in Answers, NEW ms, NEW e \in Answers,
         Core(c, u, d, ms), \A i \in 1 .. Len(e) : ~IsJoined(e[i])
  PROVE  Core(c, u, d \o e, ms) /\ d \o e \in Answers
<1> DEFINE v == d \o e
<1>1. /\ v \in Answers /\ Len(v) = Len(d) + Len(e)
      /\ \A i \in 1 .. Len(d) + Len(e) : v[i] = IF i <= Len(d) THEN d[i] ELSE e[i - Len(d)]
  BY ConcatProperties DEF Answers
<1>2. Len(d) \in Nat /\ Len(e) \in Nat
  BY DEF Answers
<1> HIDE DEF v
<1>3. \A i \in 1 .. Len(v) : IsJoined(v[i]) => i \in 1 .. Len(d) /\ v[i] = d[i]
  BY <1>1, <1>2
<1>4. Announced(c, v, ms)
  BY <1>3 DEF Core, Announced
<1> QED
  BY <1>1, <1>4 DEF Core, v

\* A match begins, and the client is told so before anything else of it.
LEMMA CoreBegin ==
  ASSUME NEW c \in ClientRecord, NEW u, NEW d \in Answers, NEW ms \in MatchList, NEW ms2,
         NEW e \in Answers, Core(c, u, d, ms),
         Len(ms2) = Len(ms) + 1, \A m \in 1 .. Len(ms) : ms2[m].lastSeq = ms[m].lastSeq,
         ms2[Len(ms) + 1].lastSeq = 0,
         \A i \in 1 .. Len(e) : IsJoined(e[i]) => i = 1 /\ e[i].match = Len(ms) + 1
  PROVE  Core(c, u, d \o e, ms2) /\ d \o e \in Answers
<1> DEFINE v == d \o e
           k == Len(ms) + 1
<1>1. /\ v \in Answers /\ Len(v) = Len(d) + Len(e)
      /\ \A i \in 1 .. Len(d) + Len(e) : v[i] = IF i <= Len(d) THEN d[i] ELSE e[i - Len(d)]
  BY ConcatProperties DEF Answers
<1>2. Len(d) \in Nat /\ Len(e) \in Nat /\ Len(ms) \in Nat /\ c.match \in Nat
  BY DEF Answers, MatchList, ClientRecord
<1> HIDE DEF v
<1>3. ASSUME NEW i \in 1 .. Len(v), IsJoined(v[i])
      PROVE  \/ i \in 1 .. Len(d) /\ v[i] = d[i] /\ v[i].match > c.match /\ v[i].match <= Len(ms)
             \/ i = Len(d) + 1 /\ v[i].match = k
  <2>1. CASE i <= Len(d)
    BY <1>1, <1>2, <1>3, <2>1 DEF Core, Announced
  <2>2. CASE i > Len(d)
    <3>1. i - Len(d) \in 1 .. Len(e) /\ v[i] = e[i - Len(d)]
      BY <1>1, <1>2, <2>2
    <3>2. i - Len(d) = 1 /\ v[i].match = k
      BY <1>3, <3>1
    <3> QED
      BY <1>2, <3>2
  <2> QED
    BY <1>2, <2>1, <2>2
<1>4. c.match <= Len(ms) /\ c.match < k
  BY <1>2 DEF Core, Numbered
<1>5. \A i \in 1 .. Len(d) : d[i].match \in Nat
  <2>1. \A i \in 1 .. Len(d) : d[i] \in ServerRecord
    BY DEF Answers
  <2> QED
    BY <2>1 DEF ServerRecord
<1>6. Announced(c, v, ms2)
  <2>1. \A i \in 1 .. Len(v) : IsJoined(v[i]) => v[i].match > c.match /\ v[i].match <= Len(ms2)
    BY <1>2, <1>3, <1>4, <1>5
  <2>2. ASSUME NEW i \in 1 .. Len(v), NEW j \in 1 .. Len(v), i < j, IsJoined(v[i]), IsJoined(v[j])
        PROVE  v[i].match < v[j].match
    <3>1. i \in 1 .. Len(d) /\ v[i] = d[i] /\ v[i].match <= Len(ms) /\ v[i].match \in Nat
      <4>1. j <= Len(d) + 1
        BY <1>2, <1>3, <2>2
      <4>2. i # Len(d) + 1
        BY <1>2, <2>2, <4>1
      <4>3. i \in 1 .. Len(d) /\ v[i] = d[i] /\ v[i].match <= Len(ms)
        BY <1>3, <2>2, <4>2
      <4> QED
        BY <1>5, <4>3
    <3>2. CASE j = Len(d) + 1 /\ v[j].match = k
      BY <1>2, <3>1, <3>2
    <3>3. CASE j \in 1 .. Len(d) /\ v[j] = d[j]
      BY <2>2, <3>1, <3>3 DEF Core, Announced
    <3> QED
      BY <1>3, <2>2, <3>2, <3>3
  <2> QED
    BY <2>1, <2>2 DEF Announced
<1>7. Numbered(c, ms2)
  BY <1>2, <1>4 DEF Core, Numbered
<1>8. Commands(c, u, ms2)
  BY <1>2, <1>4 DEF Core, Commands
<1> QED
  BY <1>1, <1>6, <1>7, <1>8 DEF Core, v

\* Matches go on without taking a command.
LEMMA CoreMatches ==
  ASSUME NEW c \in ClientRecord, NEW u, NEW d, NEW ms \in MatchList, NEW ms2,
         Core(c, u, d, ms),
         Len(ms2) = Len(ms), \A m \in 1 .. Len(ms) : ms2[m].lastSeq = ms[m].lastSeq
  PROVE  Core(c, u, d, ms2)
<1>1. Len(ms) \in Nat /\ c.match \in Nat /\ c.match <= Len(ms)
  BY DEF MatchList, ClientRecord, Core, Numbered
<1>2. Numbered(c, ms2)
  BY <1>1 DEF Core, Numbered
<1>3. Commands(c, u, ms2)
  BY <1>1 DEF Core, Commands
<1>4. Announced(c, d, ms2)
  BY DEF Core, Announced
<1> QED
  BY <1>2, <1>3, <1>4 DEF Core

\* A match takes the command that is read.
LEMMA CoreAccept ==
  ASSUME NEW c \in ClientRecord, NEW u \in Messages, NEW d, NEW ms \in MatchList, NEW ms2,
         Core(c, u, d, ms), u # <<>>, IsInput(Head(u)),
         Len(ms2) = Len(ms), ms2[Head(u).match].lastSeq = Head(u).seq,
         \A m \in 1 .. Len(ms) : m # Head(u).match => ms2[m].lastSeq = ms[m].lastSeq
  PROVE  Core(c, Tail(u), d, ms2)
<1> DEFINE t == Tail(u)
           k == Head(u).match
<1>1. /\ Head(u) = u[1] /\ Len(t) = Len(u) - 1 /\ Len(u) \in Nat \ {0}
      /\ \A i \in 1 .. Len(t) : t[i] = u[i + 1]
  BY HeadTailProperties DEF Messages
<1>2. Core(c, t, d, ms)
  BY CoreServe
<1> HIDE DEF t
<1>3. \A i \in 1 .. Len(t) : i + 1 \in 1 .. Len(u) /\ 1 < i + 1 /\ t[i] = u[i + 1]
  BY <1>1
<1>4. Len(ms) \in Nat /\ c.match \in Nat /\ c.match <= Len(ms)
  BY DEF MatchList, ClientRecord, Core, Numbered
<1>5. k \in 1 .. c.match /\ (k = c.match => Head(u).seq < c.seq)
  BY <1>1 DEF Core, Commands
<1>6. \A i \in 1 .. Len(t) : (IsInput(t[i]) /\ t[i].match = k) => t[i].seq > Head(u).seq
  <2>1. 1 \in 1 .. Len(u)
    BY <1>1
  <2>2. \A i \in 1 .. Len(t) : t[i] \in MessageRecord /\ Head(u) \in MessageRecord
    BY <1>3, <1>1 DEF Messages
  <2>3. \A i \in 1 .. Len(t) : (IsInput(t[i]) /\ t[i].match = k) => Head(u).seq < t[i].seq
    BY <1>1, <1>3, <2>1 DEF Core, Ordered
  <2> QED
    BY <2>2, <2>3 DEF MessageRecord, NoSeq
<1> HIDE DEF k
<1>7. ms2[k].lastSeq = Head(u).seq /\ \A m \in 1 .. Len(ms) : m # k => ms2[m].lastSeq = ms[m].lastSeq
  BY DEF k
<1>8. Numbered(c, ms2)
  <2>1. \A m \in 1 .. Len(ms) : m > c.match => ms2[m].lastSeq = 0
    BY <1>4, <1>5, <1>7 DEF Core, Numbered
  <2>2. c.match # 0 => ms2[c.match].lastSeq < c.seq
    BY <1>4, <1>5, <1>7 DEF Core, Numbered
  <2> QED
    BY <1>4, <2>1, <2>2 DEF Numbered
<1>9. Commands(c, t, ms2)
  <2>1. ASSUME NEW i \in 1 .. Len(t), IsInput(t[i])
        PROVE  /\ t[i].match \in 1 .. c.match /\ t[i].seq > ms2[t[i].match].lastSeq
               /\ t[i].match = c.match => t[i].seq < c.seq
    <3>1. /\ t[i].match \in 1 .. c.match /\ t[i].seq > ms[t[i].match].lastSeq
          /\ t[i].match = c.match => t[i].seq < c.seq
      BY <1>2, <2>1 DEF Core, Commands
    <3>2. CASE t[i].match = k
      BY <1>6, <1>7, <2>1, <3>1, <3>2
    <3>3. CASE t[i].match # k
      BY <1>4, <1>7, <3>1, <3>3
    <3> QED
      BY <3>2, <3>3
  <2> QED
    BY <2>1 DEF Commands
<1>10. Announced(c, d, ms2)
  BY DEF Core, Announced
<1> QED
  BY <1>2, <1>8, <1>9, <1>10 DEF Core, t

----------------------------------------------------------------------------
(***************************************************************************)
(* The invariant: types, nothing is on its way and no match is known while *)
(* there is no connection, and the numbers are in order while there is.    *)
(***************************************************************************)
Sockets == {"Unconnected", "Connecting", "Connected", "Closing"}

Good(c, s, u, d, h, ms) ==
  /\ c \in ClientRecord /\ s \in Sockets /\ u \in Messages /\ d \in Answers
  /\ h \in Phases \cup {"None", "Ended"} /\ ms \in MatchList /\ Len(ms) <= MaxMatches
  /\ s \in {"Unconnected", "Connecting"} => h = "None" /\ u = <<>> /\ d = <<>> /\ ms = <<>>
  /\ c.state \in {"Disconnected", "Error"} => s = "Unconnected"
  /\ s = "Connecting" => c.match = 0
  /\ s # "Unconnected" => Core(c, u, d, ms)

NumbersInOrder == Good(client, socket, up, down, handler, matches)

\* Nothing is on its way: of a connection that is being made.
LEMMA CoreStart ==
  ASSUME NEW c, NEW u \in Messages, NEW d \in Answers, c.match = 0,
         \A i \in 1 .. Len(u) : ~IsInput(u[i]), \A i \in 1 .. Len(d) : ~IsJoined(d[i])
  PROVE  Core(c, u, d, <<>>)
<1>1. \A i \in 1 .. Len(<<>>) : FALSE
  OBVIOUS
<1>2. Numbered(c, <<>>)
  BY <1>1 DEF Numbered
<1> QED
  BY <1>2 DEF Core, Commands, Ordered, Announced

\* A number that is used up by a command which is not sent.
LEMMA CoreSkip ==
  ASSUME NEW c \in ClientRecord, NEW c2, NEW u \in Messages, NEW d, NEW ms \in MatchList,
         Core(c, u, d, ms), c2.match = c.match, c2.seq = c.seq + 1
  PROVE  Core(c2, u, d, ms)
<1>1. /\ c.seq \in Nat /\ c.match \in Nat /\ Len(ms) \in Nat
      /\ \A m \in 1 .. Len(ms) : ms[m] \in MatchRecord
      /\ \A i \in 1 .. Len(u) : u[i] \in MessageRecord
  BY DEF ClientRecord, MatchList, Messages
<1>2. \A i \in 1 .. Len(u) : u[i].seq \in Int
  BY <1>1 DEF MessageRecord, NoSeq
<1>3. \A m \in 1 .. Len(ms) : ms[m].lastSeq \in Nat
  BY <1>1 DEF MatchRecord
<1>4. Numbered(c2, ms)
  BY <1>1, <1>3 DEF Core, Numbered
<1>5. Commands(c2, u, ms)
  BY <1>1, <1>2 DEF Core, Commands
<1> QED
  BY <1>4, <1>5 DEF Core, Announced

(***************************************************************************)
(* What messages, the client and matches are made of.                      *)
(***************************************************************************)
LEMMA DirectionOfKeys == ASSUME NEW keys PROVE MoveDirection(keys) \in Direction
<1>1. \A b \in BOOLEAN : One(b) \in 0 .. 1
  BY DEF One
<1>2. /\ One("D" \in keys) \in 0 .. 1 /\ One("A" \in keys) \in 0 .. 1
      /\ One("S" \in keys) \in 0 .. 1 /\ One("W" \in keys) \in 0 .. 1
  BY DEF One
<1> QED
  BY <1>2 DEF MoveDirection, Direction

\* A request is a message of its type, and no command.
LEMMA SendsSound ==
  ASSUME NEW type \in ClientTypes, NEW bytes \in Nat, NEW m \in 0 .. MaxMatches,
         type # "InputCommand"
  PROVE  Sends(type, bytes, m) \in MessageRecord /\ ~IsInput(Sends(type, bytes, m))
BY DEF Sends, MessageRecord, IsInput, Still, Direction

\* A command is a message, with the match and the number it is given.
LEMMA InputCommandSound ==
  ASSUME NEW m \in 0 .. MaxMatches, NEW seq \in Nat, NEW kind \in {"move", "stop", "attack"},
         NEW dir \in Direction
  PROVE  /\ InputCommand(m, seq, kind, dir) \in MessageRecord
         /\ IsInput(InputCommand(m, seq, kind, dir))
         /\ InputCommand(m, seq, kind, dir).match = m /\ InputCommand(m, seq, kind, dir).seq = seq
BY DEF InputCommand, MessageRecord, IsInput, ClientTypes

\* A message of the server is one, with the type and the match it is given.
LEMMA SaysSound ==
  ASSUME NEW type \in ServerTypes \cup {"Ping", "Pong"}, NEW m \in 0 .. MaxMatches,
         NEW yes \in BOOLEAN
  PROVE  /\ Says(type, m, yes) \in ServerRecord /\ Says(type, m, yes).type = type
         /\ Says(type, m, yes).match = m
BY DEF Says, ServerRecord

\* A controller that is reset is one.
LEMMA ResetSound == Reset \in ControllerRecord
BY DEF Reset, ControllerRecord, Still, Direction

\* The server's error is a message, and begins no match.
LEMMA ErrorSound == ServerError \in ServerRecord /\ ~IsJoined(ServerError)
<1>1. 0 \in 0 .. MaxMatches /\ "Error" \in ServerTypes
  BY QtClientAssumption DEF ServerTypes
<1>2. Says("Error", 0, FALSE) \in ServerRecord /\ Says("Error", 0, FALSE).type = "Error"
  BY <1>1, SaysSound
<1> QED
  BY <1>2 DEF ServerError, IsJoined

\* Going to a state keeps the client's match, number and phase.
LEMMA WithStateSound ==
  ASSUME NEW c \in ClientRecord, NEW state \in States
  PROVE  /\ WithState(c, state) \in ClientRecord /\ WithState(c, state).state = state
         /\ WithState(c, state).match = c.match /\ WithState(c, state).seq = c.seq
         /\ WithState(c, state).phase = c.phase
<1> DEFINE over == IF state = "InMatch" THEN c.over ELSE FALSE
           keys == IF c.state = "InMatch" /\ state # "InMatch" THEN {} ELSE c.keys
           ctl  == IF c.state = "InMatch" /\ state # "InMatch" THEN Reset ELSE c.ctl
<1>1. WithState(c, state) = [c EXCEPT !.state = state, !.over = over, !.keys = keys, !.ctl = ctl]
  BY DEF WithState
<1>2. over \in BOOLEAN /\ keys \in SUBSET Keys /\ ctl \in ControllerRecord
  BY ResetSound DEF ClientRecord
<1> HIDE DEF over, keys, ctl
<1> QED
  BY <1>1, <1>2 DEF ClientRecord

\* Joining a match begins its numbers at one.
LEMMA InJoinedSound ==
  ASSUME NEW c \in ClientRecord, NEW m \in 0 .. MaxMatches
  PROVE  /\ InJoined(c, m) \in ClientRecord /\ InJoined(c, m).match = m
         /\ InJoined(c, m).seq = 1 /\ InJoined(c, m).state = "InMatch"
<1> DEFINE w     == WithState(c, "InMatch")
           phase == "InMatch"
           over  == FALSE
           keys  == {}
           ctl   == Reset
<1>1. w \in ClientRecord /\ w.state = "InMatch"
  BY WithStateSound DEF States
<1>2. phase \in Phases /\ over \in BOOLEAN /\ keys \in SUBSET Keys /\ ctl \in ControllerRecord
  BY ResetSound DEF Phases
<1>3. InJoined(c, m) = [w EXCEPT !.phase = phase, !.match = m, !.seq = 1, !.over = over,
                                 !.keys = keys, !.ctl = ctl]
  BY DEF InJoined
<1> HIDE DEF w, phase, over, keys, ctl
<1>4. InJoined(c, m) \in ClientRecord
  <2> DEFINE ids     == 0 .. MaxMatches
             numbers == Nat \ {0}
             one     == 1
  <2>1. m \in ids /\ one \in numbers
    OBVIOUS
  <2>2. ClientRecord = [state : States, phase : Phases, match : ids, seq : numbers,
                        over : BOOLEAN, keys : SUBSET Keys, ctl : ControllerRecord, name : Nat]
    BY DEF ClientRecord
  <2>3. InJoined(c, m) = [w EXCEPT !.phase = phase, !.match = m, !.seq = one, !.over = over,
                                   !.keys = keys, !.ctl = ctl]
    BY <1>3
  <2> HIDE DEF ids, numbers, one
  <2> QED
    BY <1>1, <1>2, <2>1, <2>2, <2>3
<1>5. /\ InJoined(c, m).match = m /\ InJoined(c, m).seq = 1
      /\ InJoined(c, m).state = w.state
  BY <1>1, <1>3 DEF ClientRecord
<1> QED
  BY <1>1, <1>4, <1>5

\* The controller stays one, whatever is steered, polled or rejected.
LEMMA ControllerSound ==
  ASSUME NEW ctl \in ControllerRecord, NEW dir \in Direction, NEW due \in BOOLEAN
  PROVE  /\ UpdateDesired(ctl, dir, due) \in ControllerRecord /\ Polled(ctl) \in ControllerRecord
         /\ MarkRejected(ctl) \in ControllerRecord
         /\ DesiredCommand(ctl, dir, due) \in {NoCommand, "move", "stop"}
<1>1. DesiredCommand(ctl, dir, due) \in {NoCommand, "move", "stop"}
  BY DEF DesiredCommand
<1>2. UpdateDesired(ctl, dir, due) \in ControllerRecord
  BY DEF UpdateDesired, ControllerRecord
<1>3. Polled(ctl) \in ControllerRecord /\ MarkRejected(ctl) \in ControllerRecord
  BY DEF Polled, MarkRejected, ControllerRecord
<1> QED
  BY <1>1, <1>2, <1>3

\* A match that is new has taken no command.
LEMMA NewMatchSound ==
  ASSUME NEW started \in BOOLEAN
  PROVE  NewMatch(started) \in MatchRecord /\ NewMatch(started).lastSeq = 0
BY DEF NewMatch, MatchRecord, Still, Direction

\* A message is sent once or not at all, and never without a connection.
LEMMA SentSound ==
  ASSUME NEW c, NEW message \in MessageRecord
  PROVE  /\ Sent(c, message) \in {<<>>, <<message>>} /\ Sent(c, message) \in Messages
         /\ socket # "Connected" => Sent(c, message) = <<>>
         /\ \A i \in 1 .. Len(Sent(c, message)) : Sent(c, message)[i] = message
<1>1. Sent(c, message) \in {<<>>, <<message>>} /\ (socket # "Connected" => Sent(c, message) = <<>>)
  BY DEF Sent
<1>2. /\ <<>> \in Messages /\ <<message>> \in Messages
      /\ \A i \in 1 .. Len(<<>>) : FALSE
      /\ \A i \in 1 .. Len(<<message>>) : <<message>>[i] = message
  BY DEF Messages
<1> QED
  BY <1>1, <1>2

----------------------------------------------------------------------------
(***************************************************************************)
(* Steps of one kind each.                                                 *)
(***************************************************************************)
LEMMA InitInOrder == Init => NumbersInOrder
<1> SUFFICES ASSUME Init PROVE NumbersInOrder
  OBVIOUS
<1> DEFINE ids     == 0 .. MaxMatches
           numbers == Nat \ {0}
           none    == {}
<1>1. 0 \in ids /\ 1 \in numbers /\ none \in SUBSET Keys /\ 0 \in Nat
  BY QtClientAssumption
<1>2. ClientRecord = [state : States, phase : Phases, match : ids, seq : numbers,
                      over : BOOLEAN, keys : SUBSET Keys, ctl : ControllerRecord, name : Nat]
  BY DEF ClientRecord
<1>3. client = [state |-> "Disconnected", phase |-> "Connected", match |-> 0, seq |-> 1,
                over |-> FALSE, keys |-> none, ctl |-> Reset, name |-> 0]
  BY DEF Init
<1>4. "Disconnected" \in States /\ "Connected" \in Phases
  BY DEF States, Phases
<1> HIDE DEF ids, numbers, none
<1>5. client \in ClientRecord
  BY <1>1, <1>2, <1>3, <1>4, ResetSound
<1>6. /\ up = <<>> /\ down = <<>> /\ matches = <<>> /\ socket = "Unconnected"
      /\ handler = "None"
  BY DEF Init
<1>7. up \in Messages /\ down \in Answers /\ matches \in MatchList /\ Len(matches) <= MaxMatches
  BY <1>6, QtClientAssumption DEF Messages, Answers, MatchList
<1> QED
  BY <1>5, <1>6, <1>7 DEF NumbersInOrder, Good, Sockets

\* The connection is gone.
LEMMA ConnectionGone ==
  ASSUME Unconnected, client' \in ClientRecord
  PROVE  NumbersInOrder'
<1>1. /\ up' = <<>> /\ down' = <<>> /\ matches' = <<>> /\ socket' = "Unconnected"
      /\ handler' = "None"
  BY DEF Unconnected
<1>2. up' \in Messages /\ down' \in Answers /\ matches' \in MatchList /\ Len(matches') <= MaxMatches
  BY <1>1, QtClientAssumption DEF Messages, Answers, MatchList
<1> QED
  BY <1>1, <1>2 DEF NumbersInOrder, Good, Sockets

\* The server's end does something.
LEMMA ServerStep ==
  ASSUME NumbersInOrder, handler \in Phases, UNCHANGED <<client, socket>>,
         handler' \in Phases \cup {"Ended"}, up' \in Messages, down' \in Answers,
         matches' \in MatchList, Len(matches') <= MaxMatches, Core(client, up', down', matches')
  PROVE  NumbersInOrder'
<1>1. "None" \notin Phases
  BY DEF Phases
<1>2. socket \notin {"Unconnected", "Connecting"}
  BY <1>1 DEF NumbersInOrder, Good
<1> QED
  BY <1>2 DEF NumbersInOrder, Good

\* The client sends anything but a command.
LEMMA RequestStep ==
  ASSUME NumbersInOrder, NEW message \in MessageRecord, ~IsInput(message), Request(message)
  PROVE  NumbersInOrder'
<1> DEFINE e == Sent(client, message)
<1>1. /\ e \in Messages /\ (socket # "Connected" => e = <<>>)
      /\ \A i \in 1 .. Len(e) : e[i] = message
  BY SentSound
<1>2. /\ client' = client /\ socket' = socket /\ down' = down /\ handler' = handler
      /\ matches' = matches /\ up' = up \o e
  BY DEF Request
<1> HIDE DEF e
<1>3. up \in Messages
  BY DEF NumbersInOrder, Good
<1>4. CASE socket = "Connected"
  <2>1. Core(client, up, down, matches)
    BY <1>4 DEF NumbersInOrder, Good
  <2>2. Core(client, up', down, matches) /\ up' \in Messages
    BY <1>1, <1>2, <1>3, <2>1, CoreSend
  <2> QED
    BY <1>2, <1>4, <2>2 DEF NumbersInOrder, Good
<1>5. CASE socket # "Connected"
  <2>1. up' = up
    BY <1>1, <1>2, <1>3, <1>5 DEF Messages
  <2> QED
    BY <1>2, <2>1 DEF NumbersInOrder, Good
<1> QED
  BY <1>4, <1>5

\* The client, of which something else may have changed, sends a command or cannot.
LEMMA SendIntentStep ==
  ASSUME NumbersInOrder, NEW c \in ClientRecord, c.match = client.match, c.seq = client.seq,
         c.state = client.state, NEW kind \in {"move", "stop", "attack"}, NEW dir \in Direction,
         SendIntent(c, kind, dir), UNCHANGED <<socket, down, handler, matches>>
  PROVE  NumbersInOrder'
<1>1. /\ up \in Messages /\ matches \in MatchList /\ client \in ClientRecord
  BY DEF NumbersInOrder, Good
<1>2. CASE ~CanSendIntent(c)
  <2>1. client' = c /\ up' = up
    BY <1>2 DEF SendIntent
  <2>2. socket # "Unconnected" => Core(c, up, down, matches)
    BY CoreClient DEF NumbersInOrder, Good
  <2> QED
    BY <2>1, <2>2 DEF NumbersInOrder, Good
<1>3. CASE CanSendIntent(c)
  <2> DEFINE message == InputCommand(c.match, c.seq, kind, dir)
             e       == Sent(c, message)
  <2>1. c.match \in 0 .. MaxMatches /\ c.seq \in Nat
    BY DEF ClientRecord
  <2>2. /\ message \in MessageRecord /\ IsInput(message) /\ message.match = c.match
        /\ message.seq = c.seq
    BY <2>1, InputCommandSound
  <2>3. /\ client' = [c EXCEPT !.seq = @ + 1] /\ up' = up \o e
    BY <1>3 DEF SendIntent
  <2>4. e \in {<<>>, <<message>>} /\ (socket # "Connected" => e = <<>>)
    BY <2>2, SentSound
  <2>5. /\ client' \in ClientRecord /\ client'.match = c.match /\ client'.seq = c.seq + 1
        /\ client'.state = c.state
    <3> DEFINE numbers == Nat \ {0}
               n       == c.seq + 1
    <3>1. n \in numbers
      BY <2>1
    <3>2. client' = [c EXCEPT !.seq = n]
      BY <2>3
    <3>3. ClientRecord = [state : States, phase : Phases, match : 0 .. MaxMatches, seq : numbers,
                          over : BOOLEAN, keys : SUBSET Keys, ctl : ControllerRecord, name : Nat]
      BY DEF ClientRecord
    <3> HIDE DEF numbers, n
    <3>4. client' \in ClientRecord /\ client'.match = c.match /\ client'.state = c.state
      BY <3>1, <3>2, <3>3
    <3>5. client'.seq = n
      BY <3>2, <3>3
    <3> QED
      BY <3>4, <3>5 DEF n
  <2>6. c.match # 0
    BY <1>3 DEF CanSendIntent
  <2> HIDE DEF message, e
  <2>7. CASE e = <<>>
    <3>1. up' = up
      BY <1>1, <2>3, <2>7 DEF Messages
    <3>2. socket # "Unconnected" => Core(client', up, down, matches)
      BY <1>1, <2>5, CoreSkip DEF NumbersInOrder, Good
    <3> QED
      BY <2>5, <3>1, <3>2 DEF NumbersInOrder, Good
  <2>8. CASE e = <<message>> /\ socket = "Connected"
    <3>1. Core(client, up, down, matches)
      BY <2>8 DEF NumbersInOrder, Good
    <3>2. Core(c, up, down, matches)
      BY <3>1, CoreClient
    <3>3. Core(client', up', down, matches) /\ up' \in Messages
      BY <1>1, <2>2, <2>3, <2>5, <2>6, <2>8, <3>2, CoreIntent
    <3> QED
      BY <2>5, <2>8, <3>3 DEF NumbersInOrder, Good
  <2> QED
    BY <2>4, <2>7, <2>8
<1> QED
  BY <1>2, <1>3

----------------------------------------------------------------------------
(***************************************************************************)
(* The client's steps.                                                     *)
(***************************************************************************)
LEMMA ConnectInOrder ==
  ASSUME NumbersInOrder, NEW name \in Names, Connect(name)
  PROVE  NumbersInOrder'
<1> DEFINE ids     == 0 .. MaxMatches
           numbers == Nat \ {0}
           phase   == "Connected"
           c       == [client EXCEPT !.match = 0, !.seq = 1, !.phase = phase, !.name = name]
<1>1. /\ 0 \in ids /\ 1 \in numbers /\ phase \in Phases /\ name \in Nat
      /\ "Connecting" \in States
  BY QtClientAssumption DEF Phases, States
<1>2. ClientRecord = [state : States, phase : Phases, match : ids, seq : numbers,
                      over : BOOLEAN, keys : SUBSET Keys, ctl : ControllerRecord, name : Nat]
  BY DEF ClientRecord
<1>3. client \in ClientRecord
  BY DEF NumbersInOrder, Good
<1>4. client' = WithState(c, "Connecting") /\ socket' = "Connecting"
  BY DEF Connect
<1>5. /\ up' = up /\ down' = down /\ handler' = handler /\ matches' = matches
      /\ socket = "Unconnected"
  BY DEF Connect, NumbersInOrder, Good
<1> HIDE DEF ids, numbers, phase
<1>6. c \in ClientRecord /\ c.match = 0
  BY <1>1, <1>2, <1>3
<1> HIDE DEF c
<1>7. client' \in ClientRecord /\ client'.match = 0 /\ client'.state = "Connecting"
  BY <1>1, <1>4, <1>6, WithStateSound
<1>8. up = <<>> /\ down = <<>> /\ matches = <<>> /\ up \in Messages /\ down \in Answers
  BY <1>5 DEF NumbersInOrder, Good
<1>9. Core(client', <<>>, <<>>, <<>>)
  <2>1. \A i \in 1 .. Len(<<>>) : FALSE
    OBVIOUS
  <2> QED
    BY <1>7, <1>8, <2>1, CoreStart
<1> QED
  BY <1>4, <1>5, <1>7, <1>8, <1>9 DEF NumbersInOrder, Good, Sockets

\* The player disconnects: nothing is on its way any more.
LEMMA DisconnectInOrder == NumbersInOrder /\ DisconnectFromServer => NumbersInOrder'
<1> SUFFICES ASSUME NumbersInOrder, DisconnectFromServer PROVE NumbersInOrder'
  OBVIOUS
<1> DEFINE state == IF socket = "Unconnected" THEN "Disconnected" ELSE "Disconnecting"
<1>1. /\ client' = WithState(client, state) /\ up' = up /\ down' = down /\ handler' = handler
      /\ matches' = matches /\ socket' = IF socket = "Connected" THEN "Closing" ELSE socket
  BY DEF DisconnectFromServer
<1>2. client \in ClientRecord /\ state \in States
  BY DEF NumbersInOrder, Good, States
<1> HIDE DEF state
<1>3. /\ client' \in ClientRecord /\ client'.state = state /\ client'.match = client.match
      /\ client'.seq = client.seq
  BY <1>1, <1>2, WithStateSound
<1>4. socket # "Unconnected" => Core(client', up, down, matches)
  BY <1>3, CoreClient DEF NumbersInOrder, Good
<1> QED
  BY <1>1, <1>3, <1>4 DEF NumbersInOrder, Good, Sockets, state

\* A key is pressed or released: at most one command is sent.
LEMMA KeysInOrder ==
  ASSUME NumbersInOrder, NEW keys \in SUBSET Keys, KeysChange(keys)
  PROVE  NumbersInOrder'
<1> DEFINE dir == MoveDirection(keys)
<1>1. PICK due \in BOOLEAN :
        LET command == DesiredCommand(client.ctl, dir, due)
            changed == [client EXCEPT !.keys = keys, !.ctl = UpdateDesired(@, dir, due)]
        IN  /\ IF command = NoCommand THEN client' = changed /\ up' = up
               ELSE SendIntent(changed, command, dir)
            /\ UNCHANGED <<socket, down, handler, matches>>
  BY DEF KeysChange
<1> DEFINE command == DesiredCommand(client.ctl, dir, due)
           ctl     == UpdateDesired(client.ctl, dir, due)
           changed == [client EXCEPT !.keys = keys, !.ctl = ctl]
<1>2. client \in ClientRecord
  BY DEF NumbersInOrder, Good
<1>3. dir \in Direction /\ client.ctl \in ControllerRecord
  BY <1>2, DirectionOfKeys DEF ClientRecord
<1> HIDE DEF dir
<1>4. command \in {NoCommand, "move", "stop"} /\ ctl \in ControllerRecord
  BY <1>3, ControllerSound
<1>5. /\ IF command = NoCommand THEN client' = changed /\ up' = up
         ELSE SendIntent(changed, command, dir)
      /\ UNCHANGED <<socket, down, handler, matches>>
  BY <1>1
<1> HIDE DEF command, ctl
<1>6. /\ changed \in ClientRecord /\ changed.match = client.match /\ changed.seq = client.seq
      /\ changed.state = client.state
  BY <1>2, <1>4 DEF ClientRecord
<1> HIDE DEF changed
<1>7. CASE command = NoCommand
  <2>1. socket # "Unconnected" => Core(changed, up, down, matches)
    BY <1>6, CoreClient DEF NumbersInOrder, Good
  <2> QED
    BY <1>5, <1>6, <1>7, <2>1 DEF NumbersInOrder, Good
<1>8. CASE command \in {"move", "stop"}
  BY <1>3, <1>5, <1>6, <1>8, SendIntentStep DEF NoCommand
<1> QED
  BY <1>4, <1>7, <1>8

\* The held movement is polled: at most one command is sent.
LEMMA PollInOrder == NumbersInOrder /\ PollHeldMovement => NumbersInOrder'
<1> SUFFICES ASSUME NumbersInOrder, PollHeldMovement PROVE NumbersInOrder'
  OBVIOUS
<1> DEFINE ctl == Polled(client.ctl)
           c   == [client EXCEPT !.ctl = ctl]
<1>1. client \in ClientRecord
  BY DEF NumbersInOrder, Good
<1>2. client.ctl \in ControllerRecord
  BY <1>1 DEF ClientRecord
<1>3. client.ctl.desired \in Direction
  BY <1>2 DEF ControllerRecord
<1>4. ctl \in ControllerRecord
  BY <1>2, <1>3 DEF Polled, ControllerRecord
<1>5. SendIntent(c, "move", client.ctl.desired) /\ UNCHANGED <<socket, down, handler, matches>>
  BY DEF PollHeldMovement
<1> HIDE DEF ctl
<1>6. c \in ClientRecord /\ c.match = client.match /\ c.seq = client.seq /\ c.state = client.state
  BY <1>1, <1>4 DEF ClientRecord
<1> HIDE DEF c
<1> QED
  BY <1>3, <1>5, <1>6, SendIntentStep

\* An attack is sent with the next number.
LEMMA ActionInOrder == NumbersInOrder /\ SendAction => NumbersInOrder'
<1> SUFFICES ASSUME NumbersInOrder, SendAction PROVE NumbersInOrder'
  OBVIOUS
<1>1. client \in ClientRecord /\ <<0, -1>> \in Direction
  BY DEF NumbersInOrder, Good, Direction
<1>2. SendIntent(client, "attack", <<0, -1>>) /\ UNCHANGED <<socket, down, handler, matches>>
  BY DEF SendAction
<1> QED
  BY <1>1, <1>2, SendIntentStep

\* A request sends no command.
LEMMA RequestsInOrder ==
  ASSUME NumbersInOrder,
         \/ CreateMatch \/ StartNextMatch \/ SendPing \/ \E code \in Codes : JoinMatch(code)
  PROVE  NumbersInOrder'
<1>1. client.match \in 0 .. MaxMatches /\ 0 \in 0 .. MaxMatches /\ 0 \in Nat
  BY QtClientAssumption DEF NumbersInOrder, Good, ClientRecord
<1>2. CASE CreateMatch
  <2>1. /\ Sends("CreateMatch", 0, 0) \in MessageRecord
        /\ ~IsInput(Sends("CreateMatch", 0, 0))
    BY <1>1, SendsSound DEF ClientTypes
  <2> QED
    BY <1>2, <2>1, RequestStep DEF CreateMatch
<1>3. CASE StartNextMatch
  <2>1. /\ Sends("StartNextMatch", 0, client.match) \in MessageRecord
        /\ ~IsInput(Sends("StartNextMatch", 0, client.match))
    BY <1>1, SendsSound DEF ClientTypes
  <2> QED
    BY <1>3, <2>1, RequestStep DEF StartNextMatch
<1>4. CASE SendPing
  <2>1. Sends("Ping", 0, 0) \in MessageRecord /\ ~IsInput(Sends("Ping", 0, 0))
    BY <1>1, SendsSound DEF ClientTypes
  <2> QED
    BY <1>4, <2>1, RequestStep DEF SendPing
<1>5. ASSUME NEW code \in Codes, JoinMatch(code) PROVE NumbersInOrder'
  <2>1. Sends("JoinMatch", code, 0) \in MessageRecord /\ ~IsInput(Sends("JoinMatch", code, 0))
    BY <1>1, SendsSound, QtClientAssumption DEF ClientTypes
  <2> QED
    BY <1>5, <2>1, RequestStep DEF JoinMatch
<1> QED
  BY <1>2, <1>3, <1>4, <1>5

----------------------------------------------------------------------------
(***************************************************************************)
(* The network's steps.                                                    *)
(***************************************************************************)
LEMMA EstablishedInOrder == NumbersInOrder /\ Established => NumbersInOrder'
<1> SUFFICES ASSUME NumbersInOrder, Established PROVE NumbersInOrder'
  OBVIOUS
<1> DEFINE auth == Sends("AuthRequest", client.name, 0)
<1>1. /\ client \in ClientRecord /\ client.name \in Nat /\ 0 \in 0 .. MaxMatches
      /\ client.match = 0 /\ matches = <<>>
  BY QtClientAssumption DEF NumbersInOrder, Good, ClientRecord, Established
<1>2. auth \in MessageRecord /\ ~IsInput(auth)
  BY <1>1, SendsSound DEF ClientTypes
<1>3. ServerError \in ServerRecord /\ ~IsJoined(ServerError)
  BY ErrorSound
<1>4. /\ client' = WithState(client, "Connected")
      /\ socket' \in {"Connected", "Closing"} /\ matches' = <<>>
      /\ up' \in {<<>>, <<auth>>}
      /\ \/ handler' = "Connected" /\ down' = <<>>
         \/ handler' = "Ended" /\ down' = <<ServerError>>
  BY <1>1 DEF Established
<1> HIDE DEF auth
<1>5. /\ client' \in ClientRecord /\ client'.match = 0 /\ client'.state = "Connected"
  BY <1>1, <1>4, WithStateSound DEF States
<1>6. up' \in Messages /\ \A i \in 1 .. Len(up') : ~IsInput(up'[i])
  <2>1. <<>> \in Messages /\ \A i \in 1 .. Len(<<>>) : FALSE
    BY DEF Messages
  <2>2. <<auth>> \in Messages /\ \A i \in 1 .. Len(<<auth>>) : <<auth>>[i] = auth
    BY <1>2 DEF Messages
  <2> QED
    BY <1>2, <1>4, <2>1, <2>2
<1>7. down' \in Answers /\ \A i \in 1 .. Len(down') : ~IsJoined(down'[i])
  <2>1. <<>> \in Answers /\ \A i \in 1 .. Len(<<>>) : FALSE
    BY DEF Answers
  <2>2. /\ <<ServerError>> \in Answers
        /\ \A i \in 1 .. Len(<<ServerError>>) : <<ServerError>>[i] = ServerError
    BY <1>3 DEF Answers
  <2> QED
    BY <1>3, <1>4, <2>1, <2>2
<1>8. Core(client', up', down', <<>>)
  BY <1>5, <1>6, <1>7, CoreStart
<1>9. matches' \in MatchList /\ Len(matches') <= MaxMatches /\ handler' \in {"Connected", "Ended"}
  BY <1>4, QtClientAssumption DEF MatchList
<1> QED
  BY <1>4, <1>5, <1>6, <1>7, <1>8, <1>9 DEF NumbersInOrder, Good, Sockets, Phases

\* The connection fails: nothing is on its way any more.
LEMMA FailInOrder == NumbersInOrder /\ Fail => NumbersInOrder'
<1> SUFFICES ASSUME NumbersInOrder, Fail PROVE NumbersInOrder'
  OBVIOUS
<1>1. client' \in ClientRecord
  BY WithStateSound DEF NumbersInOrder, Good, Fail, States
<1> QED
  BY <1>1, ConnectionGone DEF Fail

\* The connection ends one way or another.
LEMMA EndsInOrder ==
  NumbersInOrder /\ (ConnectFails \/ ConnectionEnds \/ SocketCloses) => NumbersInOrder'
<1> SUFFICES ASSUME NumbersInOrder, ConnectFails \/ ConnectionEnds \/ SocketCloses
             PROVE  NumbersInOrder'
  OBVIOUS
<1>1. /\ client \in ClientRecord /\ WithState(client, "Error") \in ClientRecord
      /\ WithState(client, "Disconnected") \in ClientRecord
  BY WithStateSound DEF NumbersInOrder, Good, States
<1>2. client' \in ClientRecord /\ Unconnected
  BY <1>1 DEF ConnectFails, ConnectionEnds, SocketCloses, Fail
<1> QED
  BY <1>2, ConnectionGone

----------------------------------------------------------------------------
(***************************************************************************)
(* What the client reads.                                                  *)
(***************************************************************************)
\* Anything but an answer that changes its match, or an error.
LEMMA HearStep ==
  ASSUME NumbersInOrder, NEW type, Hears(type), NEW message \in MessageRecord, ~IsInput(message),
         client' \in ClientRecord, client'.match = client.match, client'.seq = client.seq,
         client'.state \in {client.state, "Authenticated"},
         up' = up \/ up' = up \o Sent(client, message)
  PROVE  NumbersInOrder'
<1>1. /\ socket' = socket /\ handler' = handler /\ matches' = matches /\ down' = Tail(down)
      /\ down # <<>> /\ socket \in {"Connected", "Closing"}
  BY DEF Hears, Reads
<1>2. /\ up \in Messages /\ down \in Answers /\ matches \in MatchList
      /\ Core(client, up, down, matches)
  BY <1>1 DEF NumbersInOrder, Good
<1>3. Core(client, up, Tail(down), matches) /\ Tail(down) \in Answers
  BY <1>1, <1>2, CoreRead
<1>4. Core(client', up, down', matches)
  BY <1>1, <1>3, CoreClient
<1>5. Core(client', up', down', matches) /\ up' \in Messages
  <2>1. CASE up' = up
    BY <1>2, <1>4, <2>1
  <2>2. CASE up' = up \o Sent(client, message)
    <3> DEFINE e == Sent(client, message)
    <3>1. e \in Messages /\ \A i \in 1 .. Len(e) : ~IsInput(e[i])
      BY SentSound
    <3> HIDE DEF e
    <3>2. up' = up \o e
      BY <2>2 DEF e
    <3> QED
      BY <1>2, <1>4, <3>1, <3>2, CoreSend
  <2> QED
    BY <2>1, <2>2
<1> QED
  BY <1>1, <1>3, <1>5 DEF NumbersInOrder, Good

\* The client reads that a match begins, and numbers its commands from one again.
LEMMA JoinedInOrder == NumbersInOrder /\ ReadMatchJoined => NumbersInOrder'
<1> SUFFICES ASSUME NumbersInOrder, ReadMatchJoined PROVE NumbersInOrder'
  OBVIOUS
<1> DEFINE k == Head(down).match
<1>1. /\ socket' = socket /\ handler' = handler /\ matches' = matches /\ down' = Tail(down)
      /\ down # <<>> /\ socket \in {"Connected", "Closing"} /\ IsJoined(Head(down))
      /\ client' = InJoined(client, k) /\ up' = up
  BY DEF ReadMatchJoined, Hears, Reads, IsJoined
<1>2. /\ client \in ClientRecord /\ up \in Messages /\ down \in Answers /\ matches \in MatchList
      /\ Core(client, up, down, matches)
  BY <1>1 DEF NumbersInOrder, Good
<1>3. Tail(down) \in Answers /\ Head(down) \in ServerRecord
  BY <1>1, <1>2, CoreRead
<1>4. k \in 0 .. MaxMatches
  BY <1>3 DEF ServerRecord
<1>5. /\ client' \in ClientRecord /\ client'.match = k /\ client'.seq = 1
      /\ client'.state = "InMatch"
  BY <1>1, <1>4, <1>2, InJoinedSound
<1>6. Core(client', up, Tail(down), matches)
  BY <1>1, <1>2, <1>5, CoreJoin
<1> QED
  BY <1>1, <1>3, <1>5, <1>6 DEF NumbersInOrder, Good

\* The client reads any answer.
LEMMA ReadsInOrder == NumbersInOrder /\ ClientReads => NumbersInOrder'
<1> SUFFICES ASSUME NumbersInOrder, ClientReads PROVE NumbersInOrder'
  OBVIOUS
<1> DEFINE pong == Sends("Pong", 0, 0)
<1>1. client \in ClientRecord /\ 0 \in 0 .. MaxMatches /\ down \in Answers
  BY QtClientAssumption DEF NumbersInOrder, Good
<1>2. pong \in MessageRecord /\ ~IsInput(pong)
  BY <1>1, SendsSound DEF ClientTypes
<1> HIDE DEF pong
<1>3. CASE ReadAuthResult
  <2> DEFINE phase == "Authenticated"
             c     == [client EXCEPT !.phase = phase]
  <2>1. phase \in Phases /\ "Authenticated" \in States
    BY DEF Phases, States
  <2>2. client' = WithState(c, "Authenticated") /\ up' = up /\ Hears("AuthResult")
    BY <1>3 DEF ReadAuthResult
  <2> HIDE DEF phase
  <2>3. c \in ClientRecord /\ c.match = client.match /\ c.seq = client.seq
    BY <1>1, <2>1 DEF ClientRecord
  <2> HIDE DEF c
  <2>4. /\ client' \in ClientRecord /\ client'.match = client.match /\ client'.seq = client.seq
        /\ client'.state = "Authenticated"
    BY <2>1, <2>2, <2>3, WithStateSound
  <2> QED
    BY <1>2, <2>2, <2>4, HearStep
<1>4. CASE ReadSnapshot
  <2>1. client' = [client EXCEPT !.over = Head(down).yes] /\ up' = up /\ Hears("Snapshot")
    BY <1>4 DEF ReadSnapshot
  <2>2. down # <<>>
    BY <2>1 DEF Hears, Reads
  <2>3. Head(down) \in ServerRecord
    BY <1>1, <2>2, HeadTailProperties DEF Answers
  <2>4. Head(down).yes \in BOOLEAN
    BY <2>3 DEF ServerRecord
  <2>5. /\ client' \in ClientRecord /\ client'.match = client.match /\ client'.seq = client.seq
        /\ client'.state = client.state
    BY <1>1, <2>1, <2>4 DEF ClientRecord
  <2> QED
    BY <1>2, <2>1, <2>5, HearStep
<1>5. CASE ReadInputAck
  <2> DEFINE ctl == MarkRejected(client.ctl)
  <2>1. ctl \in ControllerRecord
    BY <1>1 DEF ClientRecord, MarkRejected, ControllerRecord
  <2>2. client' \in {client, [client EXCEPT !.ctl = ctl]} /\ up' = up /\ Hears("InputAck")
    BY <1>5 DEF ReadInputAck
  <2> HIDE DEF ctl
  <2>3. /\ client' \in ClientRecord /\ client'.match = client.match /\ client'.seq = client.seq
        /\ client'.state = client.state
    BY <1>1, <2>1, <2>2 DEF ClientRecord
  <2> QED
    BY <1>2, <2>2, <2>3, HearStep
<1>6. CASE ReadPing
  <2>1. client' = client /\ up' = up \o Sent(client, pong) /\ Hears("Ping")
    BY <1>6 DEF ReadPing, pong
  <2> QED
    BY <1>1, <1>2, <2>1, HearStep
<1>7. CASE ReadPong
  <2>1. client' = client /\ up' = up /\ Hears("Pong")
    BY <1>7 DEF ReadPong
  <2> QED
    BY <1>1, <1>2, <2>1, HearStep
<1>8. CASE ReadError
  BY <1>8, FailInOrder DEF ReadError
<1>9. CASE ReadMatchJoined
  BY <1>9, JoinedInOrder
<1> QED
  BY <1>3, <1>4, <1>5, <1>6, <1>7, <1>8, <1>9 DEF ClientReads

----------------------------------------------------------------------------
(***************************************************************************)
(* The server's steps.                                                     *)
(***************************************************************************)
\* A list of answers, none of which says that a match begins, or one that does, first.
LEMMA ListsSound ==
  ASSUME NEW x \in ServerRecord, NEW y \in ServerRecord
  PROVE  /\ <<>> \in Answers /\ <<x>> \in Answers /\ <<x, y>> \in Answers
         /\ \A i \in 1 .. Len(<<>>) : FALSE
         /\ \A i \in 1 .. Len(<<x>>) : <<x>>[i] = x
         /\ \A i \in 1 .. Len(<<x, y>>) : (i = 1 /\ <<x, y>>[i] = x) \/ <<x, y>>[i] = y
BY DEF Answers

\* A list of answers none of which says that a match begins.
Quiet(e) == e \in Answers /\ \A i \in 1 .. Len(e) : ~IsJoined(e[i])

\* An answer of one message that begins no match is quiet.
LEMMA QuietLists ==
  ASSUME NEW x \in ServerRecord, ~IsJoined(x)
  PROVE  Quiet(<<>>) /\ Quiet(<<x>>)
<1>1. /\ <<>> \in Answers /\ <<x>> \in Answers
      /\ \A i \in 1 .. Len(<<>>) : FALSE
      /\ \A i \in 1 .. Len(<<x>>) : <<x>>[i] = x
  BY ListsSound
<1> DEFINE none == <<>>
           one == <<x>>
<1>2. none \in Answers /\ one \in Answers
  BY <1>1
<1>3. (\A i \in 1 .. Len(none) : FALSE) /\ \A i \in 1 .. Len(one) : one[i] = x
  BY <1>1
<1> HIDE DEF none, one
<1>4. Quiet(none) /\ Quiet(one)
  BY <1>2, <1>3 DEF Quiet
<1> QED
  BY <1>4 DEF none, one

\* While the server has a handler, the parts of the connection are what they should be.
LEMMA Connection ==
  ASSUME NumbersInOrder, handler \in Phases
  PROVE  /\ client \in ClientRecord /\ up \in Messages /\ down \in Answers
         /\ matches \in MatchList /\ Len(matches) <= MaxMatches
         /\ Core(client, up, down, matches)
<1>1. "None" \notin Phases
  BY DEF Phases
<1>2. socket \notin {"Unconnected", "Connecting"}
  BY <1>1 DEF NumbersInOrder, Good
<1> QED
  BY <1>2 DEF NumbersInOrder, Good

\* What a handler serves is the first message on its way, and it is taken off.
LEMMA ServedSound ==
  ASSUME NumbersInOrder, NEW type, Serves(type)
  PROVE  /\ handler \in Phases /\ UNCHANGED <<client, socket>> /\ up # <<>>
         /\ up' = Tail(up) /\ up' \in Messages /\ Core(client, up', down, matches)
         /\ Head(up) \in MessageRecord /\ Head(up).type = type
<1>1. /\ handler \in Phases /\ UNCHANGED <<client, socket>> /\ up # <<>>
      /\ up' = Tail(up) /\ Head(up).type = type
  BY DEF Serves
<1>2. up \in Messages /\ Core(client, up, down, matches)
  BY <1>1, Connection
<1>3. Core(client, Tail(up), down, matches) /\ Tail(up) \in Messages /\ Head(up) \in MessageRecord
  BY <1>1, <1>2, CoreServe
<1> QED
  BY <1>1, <1>3

\* A message is answered without any change to the matches.
LEMMA AnswerStep ==
  ASSUME NumbersInOrder, NEW type, Serves(type), NEW x \in ServerRecord, ~IsJoined(x),
         down' = down \/ down' = down \o <<x>>, handler' \in Phases, matches' = matches
  PROVE  NumbersInOrder'
<1>1. /\ handler \in Phases /\ UNCHANGED <<client, socket>> /\ up' \in Messages
      /\ Core(client, up', down, matches)
  BY ServedSound
<1>2. down \in Answers /\ matches \in MatchList /\ Len(matches) <= MaxMatches
  BY <1>1, Connection
<1>3. <<x>> \in Answers /\ \A i \in 1 .. Len(<<x>>) : ~IsJoined(<<x>>[i])
  <2>1. Quiet(<<x>>)
    BY QuietLists
  <2> QED
    BY <2>1 DEF Quiet
<1>4. Core(client, up', down \o <<x>>, matches) /\ down \o <<x>> \in Answers
  BY <1>1, <1>2, <1>3, CoreTell
<1>5. Core(client, up', down', matches') /\ down' \in Answers
  BY <1>1, <1>2, <1>4
<1> QED
  BY <1>1, <1>2, <1>5, ServerStep

\* A request that is rejected changes no match.
LEMMA RejectStep ==
  ASSUME NumbersInOrder, NEW type, Serves(type), Rejects
  PROVE  NumbersInOrder'
<1>1. down' = down \o <<ServerError>> /\ handler' = handler /\ matches' = matches
  BY DEF Rejects, Tells
<1>2. handler \in Phases
  BY DEF Serves
<1> QED
  BY <1>1, <1>2, ErrorSound, AnswerStep

\* A match is added, after what changes of the others.
LEMMA BeginStep ==
  ASSUME NumbersInOrder, handler \in Phases, UNCHANGED <<client, socket>>,
         handler' \in Phases, up' \in Messages, Core(client, up', down, matches),
         NextMatch <= MaxMatches,
         NEW ms \in MatchList, Len(ms) = Len(matches),
         \A m \in 1 .. Len(matches) : ms[m].lastSeq = matches[m].lastSeq,
         NEW started \in BOOLEAN, matches' = Append(ms, NewMatch(started)),
         \/ down' = down \o <<Says("MatchJoined", NextMatch, TRUE)>>
         \/ down' = down \o Begins(NextMatch)
  PROVE  NumbersInOrder'
<1> DEFINE x  == Says("MatchJoined", NextMatch, TRUE)
           y  == Says("Snapshot", NextMatch, FALSE)
           nm == NewMatch(started)
<1>1. /\ down \in Answers /\ matches \in MatchList /\ client \in ClientRecord
      /\ Len(matches) \in Nat
  BY Connection DEF MatchList
<1>2. NextMatch \in 0 .. MaxMatches /\ NextMatch = Len(matches) + 1
  BY <1>1, QtClientAssumption DEF NextMatch
<1>3. /\ "MatchJoined" \in ServerTypes \cup {"Ping", "Pong"}
      /\ "Snapshot" \in ServerTypes \cup {"Ping", "Pong"}
  BY DEF ServerTypes
<1>4. x \in ServerRecord /\ x.match = NextMatch
  BY <1>2, <1>3, SaysSound
<1>5. y \in ServerRecord /\ y.type = "Snapshot"
  BY <1>2, <1>3, SaysSound
<1>6. nm \in MatchRecord /\ nm.lastSeq = 0
  BY NewMatchSound
<1>7. Begins(NextMatch) = <<x, y>>
  BY DEF Begins
<1> HIDE DEF x, y, nm
<1>8. \A i \in 1 .. Len(<<x>>) : i = 1 /\ <<x>>[i] = x
  OBVIOUS
<1>9. PICK e \in Answers : /\ down' = down \o e
                           /\ \A i \in 1 .. Len(e) : IsJoined(e[i]) => i = 1 /\ e[i] = x
  <2>1. CASE down' = down \o <<x>>
    BY <1>4, <1>5, <1>8, <2>1, ListsSound
  <2>2. CASE down' = down \o <<x, y>>
    <3>1. ~IsJoined(y)
      BY <1>5 DEF IsJoined
    <3>2. /\ <<x, y>> \in Answers
          /\ \A i \in 1 .. Len(<<x, y>>) : (i = 1 /\ <<x, y>>[i] = x) \/ <<x, y>>[i] = y
      BY <1>4, <1>5, ListsSound
    <3> QED
      BY <2>2, <3>1, <3>2
  <2> QED
    BY <1>7, <2>1, <2>2 DEF x
<1>10. /\ matches' \in MatchList /\ Len(matches') = Len(matches) + 1
       /\ \A m \in 1 .. Len(matches) : matches'[m] = ms[m]
       /\ matches'[Len(matches) + 1] = nm
  BY <1>1, <1>6, AppendProperties DEF MatchList, nm
<1>11. Core(client, up', down', matches') /\ down' \in Answers
  <2>1. \A i \in 1 .. Len(e) : IsJoined(e[i]) => i = 1 /\ e[i].match = Len(matches) + 1
    BY <1>2, <1>4, <1>9
  <2>2. \A m \in 1 .. Len(matches) : matches'[m].lastSeq = matches[m].lastSeq
    BY <1>10
  <2>3. matches'[Len(matches) + 1].lastSeq = 0
    BY <1>6, <1>10
  <2>4. down' = down \o e
    BY <1>9
  <2> QED
    BY <1>1, <1>10, <2>1, <2>2, <2>3, <2>4, CoreBegin
<1>12. Len(matches') <= MaxMatches
  BY <1>2, <1>10
<1> QED
  BY <1>10, <1>11, <1>12, ServerStep

\* Matches go on without taking a command, and something is told of them.
LEMMA GoOnStep ==
  ASSUME NumbersInOrder, handler \in Phases, UNCHANGED <<client, socket, up, handler>>,
         matches' \in MatchList, Len(matches') = Len(matches),
         \A m \in 1 .. Len(matches) : matches'[m].lastSeq = matches[m].lastSeq,
         NEW x \in ServerRecord, ~IsJoined(x), down' = down \o <<>> \/ down' = down \o <<x>>
  PROVE  NumbersInOrder'
<1>1. /\ client \in ClientRecord /\ up \in Messages /\ down \in Answers
      /\ matches \in MatchList /\ Len(matches) <= MaxMatches /\ Core(client, up, down, matches)
  BY Connection
<1>2. /\ <<>> \in Answers /\ \A i \in 1 .. Len(<<>>) : ~IsJoined(<<>>[i])
      /\ <<x>> \in Answers /\ \A i \in 1 .. Len(<<x>>) : ~IsJoined(<<x>>[i])
  <2>1. Quiet(<<>>) /\ Quiet(<<x>>)
    BY QuietLists
  <2> QED
    BY <2>1 DEF Quiet
<1>3. Core(client, up, down, matches')
  BY <1>1, CoreMatches
<1>4. Core(client, up, down', matches') /\ down' \in Answers
  <2>1. CASE down' = down \o <<>>
    BY <1>1, <1>2, <1>3, <2>1, CoreTell
  <2>2. CASE down' = down \o <<x>>
    BY <1>1, <1>2, <1>3, <2>2, CoreTell
  <2> QED
    BY <2>1, <2>2
<1>5. Len(matches') <= MaxMatches /\ handler' \in Phases
  BY <1>1
<1> QED
  BY <1>1, <1>4, <1>5, ServerStep

\* The requests that touch no match are served.
LEMMA AnswersInOrder ==
  ASSUME NumbersInOrder, ServeAuth \/ ServePing \/ ServePong
  PROVE  NumbersInOrder'
<1>1. 0 \in 0 .. MaxMatches
  BY QtClientAssumption
<1>2. CASE ServeAuth
  <2> DEFINE x == Says("AuthResult", 0, TRUE)
  <2>1. x \in ServerRecord /\ x.type = "AuthResult"
    <3>1. "AuthResult" \in ServerTypes
      BY DEF ServerTypes
    <3> QED
      BY <1>1, <3>1, SaysSound
  <2>2. /\ Serves("AuthRequest") /\ handler' = "Authenticated" /\ matches' = matches
        /\ down' = down \o <<x>>
    BY <1>2 DEF ServeAuth, Tells
  <2> HIDE DEF x
  <2>3. ~IsJoined(x) /\ handler' \in Phases
    BY <2>1, <2>2 DEF IsJoined, Phases
  <2> QED
    BY <2>1, <2>2, <2>3, AnswerStep
<1>3. CASE ServePing
  <2> DEFINE x == Says("Pong", 0, TRUE)
  <2>1. x \in ServerRecord /\ x.type = "Pong"
    BY <1>1, SaysSound
  <2>2. /\ Serves("Ping") /\ handler' = handler /\ matches' = matches /\ down' = down \o <<x>>
    BY <1>3 DEF ServePing, Tells
  <2> HIDE DEF x
  <2>3. ~IsJoined(x) /\ handler' \in Phases
    BY <2>1, <2>2 DEF IsJoined, Serves
  <2> QED
    BY <2>1, <2>2, <2>3, AnswerStep
<1>4. CASE ServePong
  <2>1. Serves("Pong") /\ handler' = handler /\ matches' = matches /\ down' = down
    BY <1>4 DEF ServePong
  <2>2. handler' \in Phases
    BY <2>1 DEF Serves
  <2> QED
    BY <2>1, <2>2, ErrorSound, AnswerStep
<1> QED
  BY <1>2, <1>3, <1>4

\* A match is created or joined, and the client will be told of it.
LEMMA CreateJoinInOrder ==
  ASSUME NumbersInOrder, ServeCreate \/ ServeJoin
  PROVE  NumbersInOrder'
<1>1. PICK type \in ClientTypes, started \in BOOLEAN :
        /\ Serves(type)
        /\ \/ /\ NextMatch <= MaxMatches /\ handler' = "InMatch"
              /\ matches' = Append(matches, NewMatch(started))
              /\ \/ Tells(<<Says("MatchJoined", NextMatch, TRUE)>>)
                 \/ Tells(Begins(NextMatch))
           \/ Rejects
  BY DEF ServeCreate, ServeJoin, ClientTypes
<1>2. CASE Rejects
  BY <1>1, <1>2, RejectStep
<1>3. CASE ~Rejects
  <2>1. /\ handler \in Phases /\ UNCHANGED <<client, socket>> /\ up' \in Messages
        /\ Core(client, up', down, matches)
    BY <1>1, ServedSound
  <2>2. matches \in MatchList
    BY <2>1, Connection
  <2>3. handler' \in Phases
    BY <1>1, <1>3 DEF Phases
  <2>4. \/ down' = down \o <<Says("MatchJoined", NextMatch, TRUE)>>
        \/ down' = down \o Begins(NextMatch)
    BY <1>1, <1>3 DEF Tells
  <2>5. NextMatch <= MaxMatches /\ matches' = Append(matches, NewMatch(started))
    BY <1>1, <1>3
  <2> QED
    BY <2>1, <2>2, <2>3, <2>4, <2>5, BeginStep
<1> QED
  BY <1>2, <1>3

\* A rematch stops the clock of the match before it.
LEMMA RematchStep ==
  ASSUME NumbersInOrder, handler \in Phases, UNCHANGED <<client, socket>>, handler' \in Phases,
         up' \in Messages, Core(client, up', down, matches), NEW m, Rematch(m)
  PROVE  NumbersInOrder'
<1> DEFINE ms == [matches EXCEPT ![m].ticking = FALSE]
<1>1. matches \in MatchList
  BY Connection
<1>2. m \in DOMAIN matches /\ m \in 1 .. Len(matches) /\ matches[m] \in MatchRecord
  BY <1>1 DEF Rematch, MatchList
<1>3. ms \in MatchList /\ Len(ms) = Len(matches)
  <2> DEFINE r == [matches[m] EXCEPT !.ticking = FALSE]
  <2>1. r \in MatchRecord
    BY <1>2 DEF MatchRecord
  <2>2. ms = [matches EXCEPT ![m] = r]
    OBVIOUS
  <2> HIDE DEF r, ms
  <2> QED
    BY <1>1, <1>2, <2>1, <2>2 DEF MatchList
<1>4. \A k \in 1 .. Len(matches) : ms[k].lastSeq = matches[k].lastSeq
  <2>1. \A k \in 1 .. Len(matches) : matches[k] \in MatchRecord
    BY <1>1 DEF MatchList
  <2> QED
    BY <1>1, <1>2, <2>1 DEF MatchList, MatchRecord
<1>5. /\ NextMatch <= MaxMatches /\ matches' = Append(ms, NewMatch(TRUE))
      /\ down' = down \o Begins(NextMatch)
  BY DEF Rematch, Tells
<1> HIDE DEF ms
<1> QED
  BY <1>3, <1>4, <1>5, BeginStep

\* A rematch is asked for.
LEMMA StartNextInOrder == NumbersInOrder /\ ServeStartNext => NumbersInOrder'
<1> SUFFICES ASSUME NumbersInOrder, ServeStartNext PROVE NumbersInOrder'
  OBVIOUS
<1>1. Serves("StartNextMatch") /\ ((Rematch(Head(up).match) /\ handler' = handler) \/ Rejects)
  BY DEF ServeStartNext
<1>2. /\ handler \in Phases /\ UNCHANGED <<client, socket>> /\ up' \in Messages
      /\ Core(client, up', down, matches)
  BY <1>1, ServedSound
<1>3. CASE Rejects
  BY <1>1, <1>3, RejectStep
<1>4. CASE Rematch(Head(up).match) /\ handler' = handler
  BY <1>2, <1>4, RematchStep
<1> QED
  BY <1>1, <1>3, <1>4

\* A command is served, and its number is the last one its match has taken.
LEMMA InputInOrder == NumbersInOrder /\ ServeInput => NumbersInOrder'
<1> SUFFICES ASSUME NumbersInOrder, ServeInput PROVE NumbersInOrder'
  OBVIOUS
<1> DEFINE command == Head(up)
           m       == command.match
           x       == Says("InputAck", m, Accepts(command))
           ms      == [matches EXCEPT ![m].lastSeq = command.seq, ![m].taken = @ + 1,
                                      ![m].asked = Asked(matches[m], command)]
<1>1. /\ Serves("InputCommand") /\ matches' = IF Accepts(command) THEN ms ELSE matches
      /\ down' = down \o <<x>> /\ handler' = handler
  BY DEF ServeInput, Tells
<1>2. /\ handler \in Phases /\ UNCHANGED <<client, socket>> /\ up # <<>>
      /\ up' = Tail(up) /\ up' \in Messages /\ Core(client, up', down, matches)
      /\ command \in MessageRecord /\ IsInput(command)
  BY <1>1, ServedSound DEF IsInput
<1>3. /\ client \in ClientRecord /\ up \in Messages /\ down \in Answers
      /\ matches \in MatchList /\ Len(matches) <= MaxMatches /\ Core(client, up, down, matches)
  BY <1>2, Connection
<1>4. Accepts(command) \in BOOLEAN
  BY DEF Accepts
<1>5. x \in ServerRecord /\ ~IsJoined(x)
  <2>1. m \in 0 .. MaxMatches /\ "InputAck" \in ServerTypes
    BY <1>2 DEF MessageRecord, ServerTypes
  <2>2. x \in ServerRecord /\ x.type = "InputAck"
    BY <1>4, <2>1, SaysSound
  <2> QED
    BY <2>2 DEF IsJoined
<1> HIDE DEF x
<1>6. CASE ~Accepts(command)
  BY <1>1, <1>2, <1>5, <1>6, AnswerStep
<1>7. CASE Accepts(command)
  <2>1. command = up[1] /\ 1 \in 1 .. Len(up)
    BY <1>2, <1>3, HeadTailProperties DEF Messages
  <2>2. m \in 1 .. client.match /\ command.seq > matches[m].lastSeq
    BY <1>2, <1>3, <2>1 DEF Core, Commands
  <2>3. m \in 1 .. Len(matches) /\ matches[m] \in MatchRecord
    <3>1. client.match \in Nat /\ Len(matches) \in Nat /\ client.match <= Len(matches)
      BY <1>3 DEF ClientRecord, MatchList, Core, Numbered
    <3> QED
      BY <1>3, <2>2, <3>1 DEF MatchList
  <2>4. command.seq \in Nat
    BY <1>2, <2>2, <2>3 DEF MessageRecord, NoSeq, MatchRecord
  <2> DEFINE asked == Asked(matches[m], command)
             taken == matches[m].taken + 1
             r     == [matches[m] EXCEPT !.lastSeq = command.seq, !.taken = taken, !.asked = asked]
  <2>5. asked \in Direction
    BY <1>2, <2>3 DEF Asked, MatchRecord, MessageRecord, Still, Direction
  <2>6. taken \in Nat
    BY <2>3 DEF MatchRecord
  <2> HIDE DEF asked, taken
  <2>7. r \in MatchRecord /\ r.lastSeq = command.seq
    BY <2>3, <2>4, <2>5, <2>6 DEF MatchRecord
  <2>8. matches' = [matches EXCEPT ![m] = r]
    BY <1>1, <1>3, <1>7, <2>3 DEF MatchList, asked, taken
  <2> HIDE DEF r
  <2>9. /\ matches' \in MatchList /\ Len(matches') = Len(matches)
        /\ matches'[m].lastSeq = command.seq
        /\ \A k \in 1 .. Len(matches) : k # m => matches'[k].lastSeq = matches[k].lastSeq
    BY <1>3, <2>3, <2>7, <2>8 DEF MatchList
  <2>10. Core(client, up', down, matches')
    BY <1>2, <1>3, <2>9, CoreAccept
  <2>11. <<x>> \in Answers /\ \A i \in 1 .. Len(<<x>>) : ~IsJoined(<<x>>[i])
    <3>1. Quiet(<<x>>)
      BY <1>5, QuietLists
    <3> QED
      BY <3>1 DEF Quiet
  <2>12. Core(client, up', down', matches') /\ down' \in Answers
    BY <1>1, <1>3, <2>10, <2>11, CoreTell
  <2> QED
    BY <1>1, <1>2, <1>3, <2>9, <2>12, ServerStep
<1> QED
  BY <1>6, <1>7

\* The server ends the session.
LEMMA EndingsInOrder ==
  ASSUME NumbersInOrder, Refuse \/ HandshakeTimeout \/ CloseSession
  PROVE  NumbersInOrder'
<1>1. PICK e \in {<<ServerError>>, <<>>} : Ends(e)
  BY DEF Refuse, HandshakeTimeout, CloseSession
<1>2. /\ handler \in Phases /\ handler' = "Ended" /\ up' = <<>> /\ down' = down \o e
      /\ UNCHANGED <<client, socket>> /\ matches' = matches
  BY <1>1 DEF Ends
<1>3. /\ down \in Answers /\ matches \in MatchList /\ Len(matches) <= MaxMatches
      /\ Core(client, up, down, matches)
  BY <1>2, Connection
<1>4. e \in Answers /\ \A i \in 1 .. Len(e) : ~IsJoined(e[i])
  <2>1. /\ <<>> \in Answers /\ <<ServerError>> \in Answers
        /\ \A i \in 1 .. Len(<<>>) : FALSE
        /\ \A i \in 1 .. Len(<<ServerError>>) : <<ServerError>>[i] = ServerError
    BY ErrorSound, ListsSound
  <2> QED
    BY <1>1, <2>1, ErrorSound
<1>5. Core(client, <<>>, down, matches) /\ <<>> \in Messages
  BY <1>3, CoreDrop
<1>6. Core(client, up', down', matches') /\ down' \in Answers /\ up' \in Messages
  BY <1>2, <1>3, <1>4, <1>5, CoreTell
<1> QED
  BY <1>2, <1>3, <1>6, ServerStep

\* The server pings a session that is idle.
LEMMA PingIdleInOrder == NumbersInOrder /\ PingIdle => NumbersInOrder'
<1> SUFFICES ASSUME NumbersInOrder, PingIdle PROVE NumbersInOrder'
  OBVIOUS
<1> DEFINE x == Says("Ping", 0, TRUE)
<1>1. x \in ServerRecord /\ x.type = "Ping"
  <2>1. 0 \in 0 .. MaxMatches
    BY QtClientAssumption
  <2> QED
    BY <2>1, SaysSound
<1>2. /\ handler \in Phases /\ UNCHANGED <<client, socket, up, handler>> /\ matches' = matches
      /\ down' = down \o <<x>>
  BY QtClientAssumption DEF PingIdle, Tells
<1> HIDE DEF x
<1>3. ~IsJoined(x)
  BY <1>1 DEF IsJoined
<1>4. matches \in MatchList
  BY <1>2, Connection
<1> QED
  BY <1>1, <1>2, <1>3, <1>4, GoOnStep

\* A match ticks: the numbers it has taken stay.
LEMMA TickInOrder ==
  ASSUME NumbersInOrder, NEW m \in DOMAIN matches, TickMatch(m)
  PROVE  NumbersInOrder'
<1>1. PICK over \in BOOLEAN, snapshot \in BOOLEAN :
        LET now == matches[m].over \/ over
        IN  /\ matches' = [matches EXCEPT ![m].over = now, ![m].taken = 0]
            /\ Tells(IF snapshot THEN <<Says("Snapshot", m, now)>> ELSE <<>>)
  BY DEF TickMatch
<1>2. handler \in Phases /\ UNCHANGED <<client, socket, up, handler>>
  BY DEF TickMatch
<1>3. matches \in MatchList /\ Len(matches) <= MaxMatches
  BY <1>2, Connection
<1>4. m \in 1 .. Len(matches) /\ m \in 0 .. MaxMatches /\ matches[m] \in MatchRecord
  BY <1>3, QtClientAssumption DEF MatchList
<1> DEFINE now == matches[m].over \/ over
           x   == Says("Snapshot", m, now)
           r   == [matches[m] EXCEPT !.over = now, !.taken = 0]
<1>5. now \in BOOLEAN
  OBVIOUS
<1>6. /\ matches' = [matches EXCEPT ![m].over = now, ![m].taken = 0]
      /\ down' = down \o <<>> \/ down' = down \o <<x>>
  BY <1>1 DEF Tells
<1> HIDE DEF now
<1>7. x \in ServerRecord /\ ~IsJoined(x)
  <2>1. "Snapshot" \in ServerTypes
    BY DEF ServerTypes
  <2>2. x \in ServerRecord /\ x.type = "Snapshot"
    BY <1>4, <1>5, <2>1, SaysSound
  <2> QED
    BY <2>2 DEF IsJoined
<1>8. r \in MatchRecord /\ r.lastSeq = matches[m].lastSeq
  BY <1>4, <1>5 DEF MatchRecord
<1>9. matches' = [matches EXCEPT ![m] = r]
  BY <1>3, <1>4, <1>6 DEF MatchList
<1> HIDE DEF r, x
<1>10. /\ matches' \in MatchList /\ Len(matches') = Len(matches)
       /\ \A k \in 1 .. Len(matches) : matches'[k].lastSeq = matches[k].lastSeq
  BY <1>3, <1>4, <1>8, <1>9 DEF MatchList
<1> QED
  BY <1>2, <1>6, <1>7, <1>10, GoOnStep

\* The opponent joins a match, or asks for the next.
LEMMA OpponentInOrder ==
  ASSUME NumbersInOrder, NEW m \in DOMAIN matches, OpponentJoins(m) \/ OpponentStartsNext(m)
  PROVE  NumbersInOrder'
<1>1. CASE OpponentJoins(m)
  <2> DEFINE x == Says("Snapshot", m, FALSE)
             r == [matches[m] EXCEPT !.started = TRUE, !.ticking = TRUE]
  <2>1. /\ handler \in Phases /\ UNCHANGED <<client, socket, up, handler>>
        /\ matches' = [matches EXCEPT ![m].started = TRUE, ![m].ticking = TRUE]
        /\ down' = down \o <<x>>
    BY <1>1 DEF OpponentJoins, Tells
  <2>2. matches \in MatchList /\ Len(matches) <= MaxMatches
    BY <2>1, Connection
  <2>3. m \in 1 .. Len(matches) /\ m \in 0 .. MaxMatches /\ matches[m] \in MatchRecord
    BY <2>2, QtClientAssumption DEF MatchList
  <2>4. x \in ServerRecord /\ ~IsJoined(x)
    <3>1. "Snapshot" \in ServerTypes
      BY DEF ServerTypes
    <3>2. x \in ServerRecord /\ x.type = "Snapshot"
      BY <2>3, <3>1, SaysSound
    <3> QED
      BY <3>2 DEF IsJoined
  <2>5. r \in MatchRecord /\ r.lastSeq = matches[m].lastSeq
    BY <2>3 DEF MatchRecord
  <2>6. matches' = [matches EXCEPT ![m] = r]
    BY <2>1, <2>2, <2>3 DEF MatchList
  <2> HIDE DEF x, r
  <2>7. /\ matches' \in MatchList /\ Len(matches') = Len(matches)
        /\ \A k \in 1 .. Len(matches) : matches'[k].lastSeq = matches[k].lastSeq
    BY <2>2, <2>3, <2>5, <2>6 DEF MatchList
  <2> QED
    BY <2>1, <2>4, <2>7, GoOnStep
<1>2. CASE OpponentStartsNext(m)
  <2>1. /\ handler \in Phases /\ UNCHANGED <<client, socket, up, handler>> /\ Rematch(m)
    BY <1>2 DEF OpponentStartsNext
  <2>2. up \in Messages /\ Core(client, up, down, matches)
    BY <2>1, Connection
  <2> QED
    BY <2>1, <2>2, RematchStep
<1> QED
  BY <1>1, <1>2

\* Nothing happens.
LEMMA StutterInOrder == NumbersInOrder /\ UNCHANGED vars => NumbersInOrder'
BY DEF NumbersInOrder, Good, vars

----------------------------------------------------------------------------
(***************************************************************************)
(* Every step keeps the numbers in order, of any player, network, client   *)
(* and server there is.                                                    *)
(***************************************************************************)
LEMMA NextInOrder == NumbersInOrder /\ [Next]_vars => NumbersInOrder'
<1> SUFFICES ASSUME NumbersInOrder, [Next]_vars PROVE NumbersInOrder'
  OBVIOUS
<1>1. CASE Player
  <2>1. CASE \E name \in Names : Connect(name)
    BY <2>1, ConnectInOrder
  <2>2. CASE DisconnectFromServer
    BY <2>2, DisconnectInOrder
  <2>3. CASE CreateMatch \/ StartNextMatch \/ \E code \in Codes : JoinMatch(code)
    BY <2>3, RequestsInOrder
  <2>4. ASSUME NEW key \in Keys, PressKey(key) \/ ReleaseKey(key)
        PROVE  NumbersInOrder'
    <3>1. client.keys \in SUBSET Keys
      BY DEF NumbersInOrder, Good, ClientRecord
    <3>2. client.keys \cup {key} \in SUBSET Keys /\ client.keys \ {key} \in SUBSET Keys
      BY <3>1
    <3> QED
      BY <2>4, <3>2, KeysInOrder DEF PressKey, ReleaseKey
  <2>5. CASE SendAction
    BY <2>5, ActionInOrder
  <2> QED
    BY <1>1, <2>1, <2>2, <2>3, <2>4, <2>5 DEF Player
<1>2. CASE Timers
  BY <1>2, PollInOrder, RequestsInOrder DEF Timers
<1>3. CASE Network
  BY <1>3, EstablishedInOrder, EndsInOrder DEF Network
<1>4. CASE ClientReads
  BY <1>4, ReadsInOrder
<1>5. CASE Server
  <2>1. CASE HandlerReads
    BY <2>1, AnswersInOrder, CreateJoinInOrder, StartNextInOrder, InputInOrder, EndingsInOrder
       DEF HandlerReads
  <2>2. CASE HandshakeTimeout \/ CloseSession
    BY <2>2, EndingsInOrder
  <2>3. CASE PingIdle
    BY <2>3, PingIdleInOrder
  <2>4. CASE \E m \in DOMAIN matches : TickMatch(m) \/ OpponentJoins(m) \/ OpponentStartsNext(m)
    BY <2>4, TickInOrder, OpponentInOrder
  <2> QED
    BY <1>5, <2>1, <2>2, <2>3, <2>4 DEF Server
<1>6. CASE UNCHANGED vars
  BY <1>6, StutterInOrder
<1> QED
  BY <1>1, <1>2, <1>3, <1>4, <1>5, <1>6 DEF Next

\* The numbers are in order in every state that is reached.
LEMMA InOrderHolds == Spec => []NumbersInOrder
<1> QED
  BY InitInOrder, NextInOrder, PTL DEF Spec

(***************************************************************************)
(* The types of the client, its connection and its matches are right in    *)
(* every reachable state, however long queues get and whatever the player, *)
(* the network and the opponent do.                                        *)
(***************************************************************************)
THEOREM TypeCorrect == Spec => []TypeOK
<1>1. NumbersInOrder => TypeOK
  BY DEF NumbersInOrder, Good, TypeOK, Sockets, Messages, Answers, MatchList
<1> QED
  BY <1>1, InOrderHolds, PTL

\* Numbers in order are fresh.
LEMMA OrderIsFresh == NumbersInOrder => SequenceNumbersAreFresh
<1> SUFFICES ASSUME NumbersInOrder, NEW m \in DOMAIN matches
             PROVE  /\ \A i \in Inputs(m) :
                         /\ up[i].seq > matches[m].lastSeq
                         /\ \A j \in Inputs(m) : i < j => up[i].seq < up[j].seq
                         /\ client.match = m => up[i].seq < client.seq
                    /\ client.match = m => client.seq > matches[m].lastSeq
  BY DEF SequenceNumbersAreFresh
<1>1. /\ up \in Messages /\ matches \in MatchList /\ client \in ClientRecord
  BY DEF NumbersInOrder, Good
<1>2. m \in 1 .. Len(matches) /\ matches[m] \in MatchRecord /\ m # 0
  BY <1>1 DEF MatchList
<1>3. Core(client, up, down, matches)
  <2>1. socket # "Unconnected"
    BY <1>2 DEF NumbersInOrder, Good
  <2> QED
    BY <2>1 DEF NumbersInOrder, Good
<1>4. Inputs(m) = {i \in 1 .. Len(up) : IsInput(up[i]) /\ up[i].match = m}
  BY <1>1 DEF Inputs, IsInput, Messages
<1>5. ASSUME NEW i \in Inputs(m)
      PROVE  /\ up[i].seq > matches[m].lastSeq
             /\ client.match = m => up[i].seq < client.seq
  BY <1>3, <1>4 DEF Core, Commands
<1>6. ASSUME NEW i \in Inputs(m), NEW j \in Inputs(m), i < j
      PROVE  up[i].seq < up[j].seq
  BY <1>3, <1>4, <1>6 DEF Core, Ordered
<1>7. client.match = m => client.seq > matches[m].lastSeq
  <2>1. client.seq \in Nat /\ matches[m].lastSeq \in Nat
    BY <1>1, <1>2 DEF ClientRecord, MatchRecord
  <2>2. client.match = m => matches[m].lastSeq < client.seq
    BY <1>2, <1>3 DEF Core, Numbered
  <2> QED
    BY <2>1, <2>2
<1> QED
  BY <1>5, <1>6, <1>7

(***************************************************************************)
(* No command is ever refused for its number, in any match and rematch: a  *)
(* rematch begins with no command taken, and the client, which counts from *)
(* one again when it hears of it, is told of it before any command of its  *)
(* can arrive there.                                                       *)
(***************************************************************************)
THEOREM NumbersAlwaysFresh == Spec => []SequenceNumbersAreFresh
<1> QED
  BY OrderIsFresh, InOrderHolds, PTL

----------------------------------------------------------------------------
(***************************************************************************)
(* The two phases.  The handler's is never behind the client's, and every  *)
(* message on its way is valid in the phase that its sender had; so only a *)
(* second request for a match can meet a phase that has gone on.           *)
(***************************************************************************)
\* What a message on its way at place i says of the handler's phase h.
Fits(i, message, h) ==
  /\ \E phase \in Phases : IsValid(message, phase)
  /\ message.type \in {"AuthRequest", "Handshake"} => i = 1 /\ h = "Connected"
  /\ message.type \in {"CreateMatch", "JoinMatch"} => h # "Connected"
  /\ message.type \in {"StartNextMatch", "InputCommand"} => h = "InMatch"

\* The client's phase c, that of its handler h, and what is on its way between them.
Behind(c, u, d, h, ms) ==
  h \in Phases =>
    /\ c = "Authenticated" => h # "Connected"
    /\ c = "InMatch" => h = "InMatch"
    /\ ms # <<>> => h = "InMatch"
    /\ \A i \in 1 .. Len(d) : /\ d[i].type = "AuthResult" => h # "Connected"
                              /\ IsJoined(d[i]) => h = "InMatch"
    /\ \A i \in 1 .. Len(u) : Fits(i, u[i], h)

\* A client that waits to be authenticated has asked to be, if its name is short enough.
AuthAsked(c, u, d, h) ==
  c.state = "Connected" =>
    (c.name <= 64 => \/ \E i \in 1 .. Len(u) : u[i].type = "AuthRequest"
                     \/ \E i \in 1 .. Len(d) : d[i].type \in {"AuthResult", "Error"}
                     \/ h = "Ended")

InStep ==
  /\ socket = "Connecting" => client.phase = "Connected"
  /\ socket # "Unconnected" => client.name \in Names
  /\ client.state = "InMatch" => client.match # 0 /\ client.phase = "InMatch"
  /\ Behind(client.phase, up, down, handler, matches)
  /\ AuthAsked(client, up, down, handler)

\* A message that is valid in one phase is valid in all that allow its type.
LEMMA ValidElsewhere ==
  ASSUME NEW message \in MessageRecord, NEW p, NEW q, IsValid(message, p)
  PROVE  /\ PhaseAllows(message.type, p)
         /\ PhaseAllows(message.type, q) => IsValid(message, q)
<1> DEFINE fields == Payload(message)
<1>1. message.type \notin ServerTypes
  BY DEF MessageRecord, ClientTypes, ServerTypes
<1> HIDE DEF fields
<1>2. \A r : IsValid(message, r) <=> Verdict(message.type, message.seq, fields, r) = "None"
  BY DEF IsValid, fields
<1>3. \A r : Verdict(message.type, message.seq, fields, r) =
               IF ~PhaseAllows(message.type, r) THEN "InvalidMessageOrder"
               ELSE IF message.type = "InputCommand" /\ message.seq = NoSeq THEN "MissingField"
               ELSE First(Readable(fields), ValidPayload(message.type, fields))
  BY <1>1 DEF Verdict
<1>4. PhaseAllows(message.type, p)
  BY <1>2, <1>3
<1> QED
  BY <1>2, <1>3, <1>4

\* In which phase each type is allowed.
LEMMA AllowedPhases ==
  ASSUME NEW type, NEW p
  PROVE  /\ type \in {"CreateMatch", "JoinMatch"} => (PhaseAllows(type, p) <=> p = "Authenticated")
         /\ type \in {"StartNextMatch", "InputCommand"} => (PhaseAllows(type, p) <=> p = "InMatch")
         /\ type \in {"AuthRequest", "Handshake"} => (PhaseAllows(type, p) <=> p = "Connected")
         /\ type \in {"Ping", "Pong"} => PhaseAllows(type, p)
BY DEF PhaseAllows

\* The client sends a message that it finds valid.
LEMMA BehindPost ==
  ASSUME NEW c \in Phases, NEW u \in Messages, NEW d, NEW h, NEW ms, NEW x \in MessageRecord,
         Behind(c, u, d, h, ms), IsValid(x, c), x.type \notin {"AuthRequest", "Handshake"}
  PROVE  Behind(c, Append(u, x), d, h, ms)
<1> DEFINE v == Append(u, x)
<1>1. /\ Len(u) \in Nat /\ Len(v) = Len(u) + 1 /\ v[Len(u) + 1] = x
      /\ \A i \in 1 .. Len(u) : v[i] = u[i]
  BY AppendProperties DEF Messages
<1> HIDE DEF v
<1>2. ASSUME h \in Phases PROVE Fits(Len(v), x, h)
  <2>1. PhaseAllows(x.type, c)
    BY ValidElsewhere
  <2>2. /\ x.type \in {"CreateMatch", "JoinMatch"} => c = "Authenticated"
        /\ x.type \in {"StartNextMatch", "InputCommand"} => c = "InMatch"
    BY <2>1, AllowedPhases
  <2> QED
    BY <1>2, <2>2 DEF Fits, Behind
<1>3. ASSUME h \in Phases, NEW i \in 1 .. Len(v) PROVE Fits(i, v[i], h)
  <2>1. CASE i \in 1 .. Len(u)
    BY <1>1, <1>3, <2>1 DEF Behind
  <2>2. CASE i = Len(v)
    BY <1>1, <1>2, <1>3, <2>2
  <2> QED
    BY <1>1, <2>1, <2>2
<1> QED
  BY <1>3 DEF Behind, v

\* The client reads an answer.
LEMMA BehindRead ==
  ASSUME NEW c, NEW e, NEW u, NEW d \in Answers, d # <<>>, NEW h, NEW ms, Behind(c, u, d, h, ms),
         \/ e = c
         \/ e = "Authenticated" /\ Head(d).type = "AuthResult"
         \/ e = "InMatch" /\ IsJoined(Head(d))
  PROVE  Behind(e, u, Tail(d), h, ms)
<1> DEFINE t == Tail(d)
<1>1. /\ Len(t) = Len(d) - 1 /\ Len(d) \in Nat \ {0} /\ Head(d) = d[1]
      /\ \A i \in 1 .. Len(t) : t[i] = d[i + 1]
  BY HeadTailProperties DEF Answers
<1> HIDE DEF t
<1>2. 1 \in 1 .. Len(d) /\ \A i \in 1 .. Len(t) : i + 1 \in 1 .. Len(d)
  BY <1>1
<1>3. ASSUME h \in Phases
      PROVE  \A i \in 1 .. Len(t) : /\ t[i].type = "AuthResult" => h # "Connected"
                                    /\ IsJoined(t[i]) => h = "InMatch"
  BY <1>1, <1>2, <1>3 DEF Behind
<1>4. ASSUME h \in Phases
      PROVE  (e = "Authenticated" => h # "Connected") /\ (e = "InMatch" => h = "InMatch")
  BY <1>1, <1>2, <1>4 DEF Behind
<1> QED
  BY <1>3, <1>4 DEF Behind, t

\* The handler reads a message or none, answers, and goes on to a later phase or stays.
LEMMA BehindServe ==
  ASSUME NEW c, NEW u \in Messages, NEW v, NEW d \in Answers, NEW e \in Answers,
         NEW h \in Phases, NEW g, NEW ms, NEW ns, Behind(c, u, d, h, ms),
         v = u \/ (v = Tail(u) /\ u # <<>>),
         \/ g = h
         \/ g = "Authenticated" /\ h = "Connected" /\ v # u
         \/ g = "InMatch" /\ h = "Authenticated" /\ v # u,
         ns # <<>> => ms # <<>> \/ g = "InMatch",
         \A i \in 1 .. Len(e) : /\ e[i].type = "AuthResult" => g # "Connected"
                                /\ IsJoined(e[i]) => g = "InMatch"
  PROVE  Behind(c, v, d \o e, g, ns)
<1> DEFINE w == d \o e
<1>1. /\ Len(d) \in Nat /\ Len(e) \in Nat /\ Len(w) = Len(d) + Len(e)
      /\ \A i \in 1 .. Len(d) + Len(e) : w[i] = IF i <= Len(d) THEN d[i] ELSE e[i - Len(d)]
  BY ConcatProperties DEF Answers
<1> HIDE DEF w
<1>2. /\ h = "InMatch" => g = "InMatch"
      /\ h # "Connected" => g # "Connected"
  BY DEF Phases
<1>3. ASSUME NEW i \in 1 .. Len(w)
      PROVE  /\ w[i].type = "AuthResult" => g # "Connected"
             /\ IsJoined(w[i]) => g = "InMatch"
  <2>1. CASE i <= Len(d)
    BY <1>1, <1>2, <2>1 DEF Behind
  <2>2. CASE i > Len(d)
    BY <1>1, <2>2
  <2> QED
    BY <1>1, <2>1, <2>2
<1>4. ASSUME NEW i \in 1 .. Len(v) PROVE Fits(i, v[i], g)
  <2>1. CASE v = u /\ g = h
    BY <1>4, <2>1 DEF Behind
  <2>2. CASE v = Tail(u) /\ u # <<>>
    <3>1. i + 1 \in 1 .. Len(u) /\ v[i] = u[i + 1] /\ i + 1 # 1
      BY <1>4, <2>2, HeadTailProperties DEF Messages
    <3>2. Fits(i + 1, v[i], h)
      BY <3>1 DEF Behind
    <3> QED
      BY <1>2, <3>1, <3>2 DEF Fits
  <2> QED
    BY <2>1, <2>2
<1> QED
  BY <1>2, <1>3, <1>4 DEF Behind, w

\* What the invariant says of the message that is read next.
LEMMA HeadFits ==
  ASSUME NEW c, NEW u \in Messages, NEW d, NEW h \in Phases, NEW ms, Behind(c, u, d, h, ms),
         u # <<>>
  PROVE  /\ Head(u) \in MessageRecord /\ Fits(1, Head(u), h)
         /\ ~IsValid(Head(u), h) => Head(u).type \in {"CreateMatch", "JoinMatch"} /\ h = "InMatch"
<1> DEFINE x == Head(u)
<1>1. x = u[1] /\ x \in MessageRecord /\ 1 \in 1 .. Len(u)
  BY HeadTailProperties DEF Messages
<1> HIDE DEF x
<1>2. Fits(1, x, h)
  BY <1>1 DEF Behind
<1>3. PICK p \in Phases : IsValid(x, p)
  BY <1>2 DEF Fits
<1>4. ~IsValid(x, h) => ~PhaseAllows(x.type, h)
  BY <1>1, <1>3, ValidElsewhere
<1>5. x.type \in ClientTypes
  BY <1>1 DEF MessageRecord
<1> QED
  BY <1>1, <1>2, <1>4, <1>5, AllowedPhases DEF Fits, x, ClientTypes, Phases

\* What the client does of itself: it may send x.
Acts(x) ==
  /\ x \in MessageRecord /\ x.type \notin {"AuthRequest", "Handshake"}
  /\ client'.phase = client.phase /\ client'.name = client.name /\ client'.match = client.match
  /\ client'.state \in {client.state, "Disconnecting", "Disconnected"}
  /\ client'.over => client.over
  /\ socket' \in {socket, "Closing"} /\ (socket' # socket => socket = "Connected")
  /\ \/ up' = up
     \/ socket = "Connected" /\ IsValid(x, client.phase) /\ up' = Append(up, x)
  /\ down' = down /\ handler' = handler /\ matches' = matches

\* Sending is appending.
LEMMA PostedBySent ==
  ASSUME NEW c, NEW x \in MessageRecord, up \in Messages
  PROVE  up \o Sent(c, x) = up \/ (/\ socket = "Connected" /\ IsValid(x, c.phase)
                                   /\ up \o Sent(c, x) = Append(up, x))
<1>1. up \o <<>> = up /\ up \o <<x>> = Append(up, x)
  BY ConcatEmptySeq, AppendIsConcat DEF Messages
<1> QED
  BY <1>1 DEF Sent

\* A request changes nothing but what is on its way.
LEMMA RequestActs ==
  ASSUME NumbersInOrder, NEW x \in MessageRecord, x.type \notin {"AuthRequest", "Handshake"},
         Request(x)
  PROVE  Acts(x)
<1>1. up \in Messages
  BY DEF NumbersInOrder, Good
<1> QED
  BY <1>1, PostedBySent DEF Request, Acts

\* So does a command, but for the number that it takes.
LEMMA SendIntentActs ==
  ASSUME NumbersInOrder, NEW c \in ClientRecord, NEW kind \in {"move", "stop", "attack"},
         NEW dir \in Direction, SendIntent(c, kind, dir),
         c.phase = client.phase, c.name = client.name, c.match = client.match,
         c.state = client.state, c.over = client.over,
         UNCHANGED <<socket, down, handler, matches>>
  PROVE  \E x : Acts(x)
<1> DEFINE x == InputCommand(c.match, c.seq, kind, dir)
<1>1. x \in MessageRecord /\ x.type \notin {"AuthRequest", "Handshake"}
  <2>1. c.match \in 0 .. MaxMatches /\ c.seq \in Nat
    BY DEF ClientRecord
  <2> QED
    BY <2>1, InputCommandSound DEF IsInput
<1>2. up \in Messages
  BY DEF NumbersInOrder, Good
<1>3. \/ client' = c /\ up' = up
      \/ client' = [c EXCEPT !.seq = @ + 1] /\ up' = up \o Sent(c, x)
  BY DEF SendIntent
<1>4. /\ client'.phase = c.phase /\ client'.name = c.name /\ client'.match = c.match
      /\ client'.state = c.state /\ client'.over = c.over
  BY <1>3 DEF ClientRecord
<1> HIDE DEF x
<1>5. up' = up \/ (socket = "Connected" /\ IsValid(x, client.phase) /\ up' = Append(up, x))
  BY <1>1, <1>2, <1>3, PostedBySent
<1>6. Acts(x)
  BY <1>1, <1>4, <1>5 DEF Acts
<1> QED
  BY <1>6

\* What the player and the timers make the client do.
LEMMA ClientActs ==
  ASSUME NumbersInOrder,
         \/ DisconnectFromServer \/ CreateMatch \/ StartNextMatch \/ SendPing \/ SendAction
         \/ PollHeldMovement \/ \E code \in Codes : JoinMatch(code)
         \/ \E keys \in SUBSET Keys : KeysChange(keys)
  PROVE  \E x : Acts(x)
<1>1. /\ client \in ClientRecord /\ client.match \in 0 .. MaxMatches
      /\ 0 \in 0 .. MaxMatches /\ 0 \in Nat
  BY QtClientAssumption DEF NumbersInOrder, Good, ClientRecord
<1>2. CASE DisconnectFromServer
  <2> DEFINE state == IF socket = "Unconnected" THEN "Disconnected" ELSE "Disconnecting"
             x == Sends("Ping", 0, 0)
  <2>1. x \in MessageRecord /\ x.type = "Ping"
    BY <1>1, SendsSound DEF ClientTypes, Sends
  <2>2. /\ client' = WithState(client, state) /\ up' = up /\ down' = down /\ handler' = handler
        /\ matches' = matches /\ socket' = IF socket = "Connected" THEN "Closing" ELSE socket
    BY <1>2 DEF DisconnectFromServer
  <2>3. state \in {"Disconnecting", "Disconnected"} /\ state \in States
    BY DEF States
  <2> HIDE DEF state, x
  <2>4. /\ client'.phase = client.phase /\ client'.match = client.match /\ client'.state = state
    BY <1>1, <2>2, <2>3, WithStateSound
  <2>5. client'.name = client.name /\ (client'.over => client.over)
    BY <1>1, <2>2 DEF WithState, ClientRecord
  <2>6. Acts(x)
    BY <2>1, <2>2, <2>3, <2>4, <2>5 DEF Acts
  <2> QED
    BY <2>6
<1>3. ASSUME NEW type \in ClientTypes, NEW bytes \in Nat, NEW m \in 0 .. MaxMatches,
             type \in {"CreateMatch", "JoinMatch", "StartNextMatch", "Ping"},
             Request(Sends(type, bytes, m))
      PROVE  \E x : Acts(x)
  <2>1. Sends(type, bytes, m) \in MessageRecord /\ Sends(type, bytes, m).type = type
    BY <1>3, SendsSound DEF Sends
  <2>2. Acts(Sends(type, bytes, m))
    BY <1>3, <2>1, RequestActs
  <2> QED
    BY <2>2
<1>4. CASE CreateMatch \/ StartNextMatch \/ SendPing \/ \E code \in Codes : JoinMatch(code)
  <2>1. {"CreateMatch", "JoinMatch", "StartNextMatch", "Ping"} \subseteq ClientTypes
    BY DEF ClientTypes
  <2>2. CASE CreateMatch
    BY <1>1, <1>3, <2>1, <2>2 DEF CreateMatch
  <2>3. CASE StartNextMatch
    BY <1>1, <1>3, <2>1, <2>3 DEF StartNextMatch
  <2>4. CASE SendPing
    BY <1>1, <1>3, <2>1, <2>4 DEF SendPing
  <2>5. ASSUME NEW code \in Codes, JoinMatch(code) PROVE \E x : Acts(x)
    BY <1>1, <1>3, <2>1, <2>5, QtClientAssumption DEF JoinMatch
  <2> QED
    BY <1>4, <2>2, <2>3, <2>4, <2>5
<1>5. CASE SendAction
  <2>1. /\ SendIntent(client, "attack", <<0, -1>>) /\ <<0, -1>> \in Direction
        /\ UNCHANGED <<socket, down, handler, matches>>
    BY <1>5 DEF SendAction, Direction
  <2> QED
    BY <1>1, <2>1, SendIntentActs
<1>6. CASE PollHeldMovement
  <2> DEFINE ctl == Polled(client.ctl)
             c   == [client EXCEPT !.ctl = ctl]
  <2>1. client.ctl \in ControllerRecord /\ client.ctl.desired \in Direction
    BY <1>1 DEF ClientRecord, ControllerRecord
  <2>2. ctl \in ControllerRecord
    BY <2>1 DEF Polled, ControllerRecord
  <2>3. SendIntent(c, "move", client.ctl.desired) /\ UNCHANGED <<socket, down, handler, matches>>
    BY <1>6 DEF PollHeldMovement
  <2> HIDE DEF ctl
  <2>4. /\ c \in ClientRecord /\ c.phase = client.phase /\ c.name = client.name
        /\ c.match = client.match /\ c.state = client.state /\ c.over = client.over
    BY <1>1, <2>2 DEF ClientRecord
  <2> HIDE DEF c
  <2> QED
    BY <2>1, <2>3, <2>4, SendIntentActs
<1>7. ASSUME NEW keys \in SUBSET Keys, KeysChange(keys) PROVE \E x : Acts(x)
  <2> DEFINE dir == MoveDirection(keys)
  <2>1. PICK due \in BOOLEAN :
          LET command == DesiredCommand(client.ctl, dir, due)
              changed == [client EXCEPT !.keys = keys, !.ctl = UpdateDesired(@, dir, due)]
          IN  /\ IF command = NoCommand THEN client' = changed /\ up' = up
                 ELSE SendIntent(changed, command, dir)
              /\ UNCHANGED <<socket, down, handler, matches>>
    BY <1>7 DEF KeysChange
  <2> DEFINE command == DesiredCommand(client.ctl, dir, due)
             ctl     == UpdateDesired(client.ctl, dir, due)
             changed == [client EXCEPT !.keys = keys, !.ctl = ctl]
  <2>2. dir \in Direction /\ client.ctl \in ControllerRecord
    BY <1>1, DirectionOfKeys DEF ClientRecord
  <2> HIDE DEF dir
  <2>3. command \in {NoCommand, "move", "stop"} /\ ctl \in ControllerRecord
    BY <2>2, ControllerSound
  <2>4. /\ IF command = NoCommand THEN client' = changed /\ up' = up
           ELSE SendIntent(changed, command, dir)
        /\ UNCHANGED <<socket, down, handler, matches>>
    BY <2>1
  <2> HIDE DEF command, ctl
  <2>5. /\ changed \in ClientRecord /\ changed.phase = client.phase /\ changed.name = client.name
        /\ changed.match = client.match /\ changed.state = client.state
        /\ changed.over = client.over
    BY <1>1, <2>3 DEF ClientRecord
  <2> HIDE DEF changed
  <2>6. CASE command = NoCommand
    <3> DEFINE x == Sends("Ping", 0, 0)
    <3>1. x \in MessageRecord /\ x.type = "Ping"
      BY <1>1, SendsSound DEF ClientTypes, Sends
    <3> HIDE DEF x
    <3>2. Acts(x)
      BY <2>4, <2>5, <2>6, <3>1 DEF Acts
    <3> QED
      BY <3>2
  <2>7. CASE command # NoCommand
    BY <2>2, <2>3, <2>4, <2>5, <2>7, SendIntentActs
  <2> QED
    BY <2>6, <2>7
<1> QED
  BY <1>2, <1>4, <1>5, <1>6, <1>7

\* A name that is short enough makes a request that is valid.
LEMMA ShortNamesAreValid ==
  ASSUME NEW name \in Nat \ {0}, name <= 64
  PROVE  IsValid(Sends("AuthRequest", name, 0), "Connected")
<1> DEFINE mode   == Text("demo", 4)
           text   == Text("name", name)
           fields == [mode |-> mode, displayName |-> text]
<1>1. Payload(Sends("AuthRequest", name, 0)) = fields
  BY DEF Payload, Sends
<1>2. /\ mode.type = "String" /\ mode.size = 4 /\ mode.text = "demo"
      /\ text.type = "String" /\ text.size = name
  BY DEF Text, Value
<1> HIDE DEF mode, text
<1>3. /\ DOMAIN fields = {"mode", "displayName"}
      /\ fields["mode"] = mode /\ fields["displayName"] = text
  OBVIOUS
<1> HIDE DEF fields
<1>4. Readable(fields) = "None"
  BY <1>2, <1>3 DEF Readable, MaxStringBytes
<1>5. RequireString(fields, "mode", 32) = "None" /\ RequireString(fields, "displayName", 64) = "None"
  BY <1>2, <1>3 DEF RequireString
<1>6. ValidAuth(fields) = "None"
  BY <1>2, <1>3, <1>5 DEF ValidAuth, First
<1>7. ValidPayload("AuthRequest", fields) = "None"
  BY <1>6 DEF ValidPayload
<1>8. PhaseAllows("AuthRequest", "Connected") /\ "AuthRequest" \notin ServerTypes
  BY AllowedPhases DEF ServerTypes
<1>9. Verdict("AuthRequest", NoSeq, fields, "Connected") = "None"
  BY <1>4, <1>7, <1>8 DEF Verdict, First
<1> QED
  BY <1>1, <1>9 DEF IsValid, Sends

\* A state of the client says nothing of its name, and of no match that is over.
LEMMA WithStateKeeps ==
  ASSUME NEW c \in ClientRecord, NEW state \in States
  PROVE  /\ WithState(c, state).name = c.name
         /\ WithState(c, state).over => c.over
<1> DEFINE over == IF state = "InMatch" THEN c.over ELSE FALSE
           keys == IF c.state = "InMatch" /\ state # "InMatch" THEN {} ELSE c.keys
           ctl  == IF c.state = "InMatch" /\ state # "InMatch" THEN Reset ELSE c.ctl
<1>1. WithState(c, state) = [c EXCEPT !.state = state, !.over = over, !.keys = keys, !.ctl = ctl]
  BY DEF WithState
<1>2. over => c.over
  OBVIOUS
<1> HIDE DEF over, keys, ctl
<1> QED
  BY <1>1, <1>2 DEF ClientRecord

\* The connection is gone, and the client knows it.
LEMMA GoneEffect ==
  ASSUME NumbersInOrder, ConnectFails \/ ConnectionEnds \/ SocketCloses \/ ReadError
  PROVE  /\ Unconnected
         /\ \/ client' = client /\ client.state = "Disconnecting"
            \/ client' = WithState(client, "Error")
            \/ client' = WithState(client, "Disconnected")
         /\ client'.state \in {"Error", "Disconnected", "Disconnecting"}
<1>1. client \in ClientRecord /\ {"Error", "Disconnected"} \subseteq States
  BY DEF NumbersInOrder, Good, States
<1>2. /\ WithState(client, "Error").state = "Error"
      /\ WithState(client, "Disconnected").state = "Disconnected"
  BY <1>1, WithStateSound
<1>3. SocketCloses => client.state # "Error"
  BY DEF SocketCloses, NumbersInOrder, Good
<1> QED
  BY <1>2, <1>3 DEF ConnectFails, ConnectionEnds, SocketCloses, ReadError, Fail

\* What the client does with what it reads, e.
Heard(e) ==
  \/ /\ e.type = "AuthResult"
     /\ client'.phase = "Authenticated" /\ client'.state = "Authenticated"
     /\ client'.match = client.match /\ (client'.over => client.over)
  \/ /\ IsJoined(e)
     /\ client'.phase = "InMatch" /\ client'.state = "InMatch"
     /\ client'.match = e.match /\ ~client'.over
  \/ /\ e.type \in {"Snapshot", "InputAck", "Ping", "Pong"}
     /\ client'.phase = client.phase /\ client'.state = client.state
     /\ client'.match = client.match
     /\ client'.over = client.over \/ (e.type = "Snapshot" /\ client'.over = e.yes)

\* Reading without an error does what the answer says, and changes nothing of the server.
LEMMA HeardEffect ==
  ASSUME NumbersInOrder, ClientReads, ~ReadError
  PROVE  /\ down # <<>> /\ down' = Tail(down) /\ Head(down) \in ServerRecord
         /\ socket \in {"Connected", "Closing"} /\ UNCHANGED <<socket, handler, matches>>
         /\ Heard(Head(down)) /\ client'.name = client.name
         /\ \/ up' = up
            \/ /\ socket = "Connected" /\ up' = Append(up, Sends("Pong", 0, 0))
               /\ IsValid(Sends("Pong", 0, 0), client.phase)
<1>1. client \in ClientRecord /\ up \in Messages /\ down \in Answers
  BY DEF NumbersInOrder, Good
<1>2. ASSUME NEW type, Hears(type)
      PROVE  /\ down # <<>> /\ down' = Tail(down) /\ Head(down).type = type
             /\ Head(down) \in ServerRecord
             /\ socket \in {"Connected", "Closing"} /\ UNCHANGED <<socket, handler, matches>>
  BY <1>1, <1>2, HeadTailProperties DEF Hears, Reads, Answers
<1>3. CASE ReadAuthResult
  <2> DEFINE phase == "Authenticated"
             c     == [client EXCEPT !.phase = phase]
  <2>1. client' = WithState(c, "Authenticated") /\ up' = up /\ Hears("AuthResult")
    BY <1>3 DEF ReadAuthResult
  <2>2. phase \in Phases /\ phase \in States
    BY DEF Phases, States
  <2> HIDE DEF phase
  <2>3. /\ c \in ClientRecord /\ c.match = client.match /\ c.phase = phase /\ c.name = client.name
        /\ c.over = client.over
    BY <1>1, <2>2 DEF ClientRecord
  <2> HIDE DEF c
  <2>4. /\ client'.state = "Authenticated" /\ client'.match = c.match /\ client'.phase = c.phase
        /\ client'.name = c.name
    BY <2>1, <2>2, <2>3, WithStateSound, WithStateKeeps DEF phase
  <2>5. client'.over => c.over
    BY <2>1, <2>2, <2>3, WithStateKeeps DEF phase
  <2>6. Heard(Head(down))
    BY <1>2, <2>1, <2>3, <2>4, <2>5 DEF Heard, phase
  <2> QED
    BY <1>2, <2>1, <2>3, <2>4, <2>6
<1>4. CASE ReadMatchJoined
  <2> DEFINE w == WithState(client, "InMatch")
             k == Head(down).match
             none == {}
  <2>1. client' = InJoined(client, k) /\ up' = up /\ Hears("MatchJoined")
    BY <1>4 DEF ReadMatchJoined
  <2>2. w \in ClientRecord /\ w.name = client.name
    BY <1>1, WithStateSound, WithStateKeeps DEF States
  <2>3. client' = [w EXCEPT !.phase = "InMatch", !.match = k, !.seq = 1, !.over = FALSE,
                            !.keys = none, !.ctl = Reset]
    BY <2>1 DEF InJoined
  <2>4. w.state = "InMatch"
    BY <1>1, WithStateSound DEF States
  <2> DEFINE phase == "InMatch"
             one   == 1
             over  == FALSE
             ctl   == Reset
  <2>5. client' = [w EXCEPT !.phase = phase, !.match = k, !.seq = one, !.over = over,
                            !.keys = none, !.ctl = ctl]
    BY <2>3
  <2>6. DOMAIN w = {"state", "phase", "match", "seq", "over", "keys", "ctl", "name"}
    BY <2>2 DEF ClientRecord
  <2> HIDE DEF w, k, none, phase, one, over, ctl
  <2>7. /\ client'.phase = phase /\ client'.match = k /\ client'.over = over
        /\ client'.name = w.name /\ client'.state = w.state
    BY <2>5, <2>6
  <2>8. /\ client'.phase = "InMatch" /\ client'.match = k /\ ~client'.over
        /\ client'.name = client.name /\ client'.state = "InMatch"
    BY <2>2, <2>4, <2>7 DEF phase, over
  <2>9. Heard(Head(down))
    BY <1>2, <2>1, <2>8 DEF Heard, IsJoined, k
  <2> QED
    BY <1>2, <2>1, <2>8, <2>9
<1>5. CASE ReadSnapshot
  <2>1. client' = [client EXCEPT !.over = Head(down).yes] /\ up' = up /\ Hears("Snapshot")
    BY <1>5 DEF ReadSnapshot
  <2>2. /\ client'.phase = client.phase /\ client'.state = client.state
        /\ client'.match = client.match /\ client'.name = client.name
        /\ client'.over = Head(down).yes
    BY <1>1, <2>1 DEF ClientRecord
  <2> QED
    BY <1>2, <2>1, <2>2 DEF Heard
<1>6. CASE ReadInputAck
  <2>1. /\ client' \in {client, [client EXCEPT !.ctl = MarkRejected(client.ctl)]}
        /\ up' = up /\ Hears("InputAck")
    BY <1>6 DEF ReadInputAck
  <2>2. /\ client'.phase = client.phase /\ client'.state = client.state
        /\ client'.match = client.match /\ client'.name = client.name
        /\ client'.over = client.over
    BY <1>1, <2>1 DEF ClientRecord
  <2> QED
    BY <1>2, <2>1, <2>2 DEF Heard
<1>7. CASE ReadPing
  <2> DEFINE x == Sends("Pong", 0, 0)
  <2>1. client' = client /\ up' = up \o Sent(client, x) /\ Hears("Ping")
    BY <1>7 DEF ReadPing
  <2>2. 0 \in 0 .. MaxMatches
    BY QtClientAssumption
  <2>3. x \in MessageRecord
    BY <2>2, SendsSound DEF ClientTypes
  <2> HIDE DEF x
  <2>4. up' = up \/ (socket = "Connected" /\ IsValid(x, client.phase) /\ up' = Append(up, x))
    BY <1>1, <2>1, <2>3, PostedBySent
  <2> QED
    BY <1>2, <2>1, <2>4 DEF Heard, x
<1>8. CASE ReadPong
  <2>1. client' = client /\ up' = up /\ Hears("Pong")
    BY <1>8 DEF ReadPong
  <2> QED
    BY <1>2, <2>1 DEF Heard
<1> QED
  BY <1>3, <1>4, <1>5, <1>6, <1>7, <1>8 DEF ClientReads

\* The handler is there only while there is a connection.
LEMMA Connected ==
  ASSUME NumbersInOrder, handler \in Phases
  PROVE  socket \in {"Connected", "Closing"}
BY DEF NumbersInOrder, Good, Phases, Sockets

\* What stands in a list that is one longer, and in the rest of one.
LEMMA TailKeeps ==
  ASSUME NEW S, NEW s \in Seq(S), s # <<>>
  PROVE  /\ Tail(s) # s /\ Len(Tail(s)) = Len(s) - 1 /\ Len(s) \in Nat /\ Head(s) = s[1]
         /\ \A i \in 1 .. Len(s) : i = 1 \/ (i - 1 \in 1 .. Len(Tail(s)) /\ Tail(s)[i - 1] = s[i])
<1>1. /\ Len(Tail(s)) = Len(s) - 1 /\ Len(s) \in Nat \ {0} /\ Head(s) = s[1]
      /\ \A i \in 1 .. Len(Tail(s)) : Tail(s)[i] = s[i + 1]
  BY HeadTailProperties
<1>2. Tail(s) # s
  <2>1. \A n \in Nat : n - 1 # n
    OBVIOUS
  <2>2. ASSUME Tail(s) = s PROVE FALSE
    <3>1. Len(Tail(s)) = Len(s)
      BY <2>2
    <3> QED
      BY <1>1, <2>1, <3>1
  <2> QED
    BY <2>2
<1> DEFINE t == Tail(s)
<1> HIDE DEF t
<1>3. ASSUME NEW i \in 1 .. Len(s), i # 1
      PROVE  i - 1 \in 1 .. Len(t) /\ t[i - 1] = s[i]
  <2>1. i - 1 \in 1 .. Len(t) /\ (i - 1) + 1 = i
    BY <1>1, <1>3 DEF t
  <2> QED
    BY <1>1, <2>1 DEF t
<1> QED
  BY <1>1, <1>2, <1>3 DEF t

\* Out of a match, none is over.
LEMMA OverEnds ==
  ASSUME NEW c \in ClientRecord, NEW state, state # "InMatch"
  PROVE  ~WithState(c, state).over
<1> DEFINE over == IF state = "InMatch" THEN c.over ELSE FALSE
           keys == IF c.state = "InMatch" /\ state # "InMatch" THEN {} ELSE c.keys
           ctl  == IF c.state = "InMatch" /\ state # "InMatch" THEN Reset ELSE c.ctl
<1>1. WithState(c, state) = [c EXCEPT !.state = state, !.over = over, !.keys = keys, !.ctl = ctl]
  BY DEF WithState
<1>2. ~over
  OBVIOUS
<1> HIDE DEF over, keys, ctl
<1> QED
  BY <1>1, <1>2 DEF ClientRecord

\* The client sends something, or says that it will go.
LEMMA ActsInStep ==
  ASSUME NumbersInOrder, InStep, NEW x, Acts(x)
  PROVE  InStep'
<1>1. client \in ClientRecord /\ up \in Messages /\ client.phase \in Phases
  BY DEF NumbersInOrder, Good, ClientRecord
<1>2. Behind(client.phase, up', down, handler, matches)
  BY <1>1, BehindPost DEF Acts, InStep
<1>3. /\ Len(up) \in Nat
      /\ up' = up \/ (Len(up') = Len(up) + 1 /\ \A i \in 1 .. Len(up) : up'[i] = up[i])
  BY <1>1, AppendProperties DEF Acts, Messages
<1>4. \A i \in 1 .. Len(up) : i \in 1 .. Len(up') /\ up'[i] = up[i]
  BY <1>3
<1>5. AuthAsked(client', up', down', handler')
  BY <1>4 DEF Acts, InStep, AuthAsked
<1> QED
  BY <1>2, <1>5 DEF Acts, InStep

\* The client reads.
LEMMA ReadsInStep ==
  ASSUME NumbersInOrder, InStep, ClientReads, ~ReadError
  PROVE  InStep'
<1> DEFINE e == Head(down)
<1>1. /\ client \in ClientRecord /\ up \in Messages /\ client.phase \in Phases /\ down \in Answers
      /\ client.match \in Nat
  BY DEF NumbersInOrder, Good, ClientRecord
<1>2. /\ down # <<>> /\ down' = Tail(down) /\ e \in ServerRecord
      /\ socket \in {"Connected", "Closing"} /\ UNCHANGED <<socket, handler, matches>>
      /\ Heard(e) /\ client'.name = client.name
      /\ \/ up' = up
         \/ /\ up' = Append(up, Sends("Pong", 0, 0))
            /\ IsValid(Sends("Pong", 0, 0), client.phase)
  BY HeardEffect
<1>3. e = down[1] /\ Len(down) \in Nat \ {0} /\ 1 \in 1 .. Len(down)
  BY <1>1, <1>2, HeadTailProperties DEF Answers
<1>4. Sends("Pong", 0, 0) \in MessageRecord /\ Sends("Pong", 0, 0).type = "Pong"
  <2>1. 0 \in 0 .. MaxMatches
    BY QtClientAssumption
  <2> QED
    BY <2>1, SendsSound DEF ClientTypes, Sends
<1>5. Behind(client.phase, up', down, handler, matches)
  BY <1>1, <1>2, <1>4, BehindPost DEF InStep
<1> HIDE DEF e
<1>6. IsJoined(e) => e.match \in Nat \ {0}
  <2>1. Core(client, up, down, matches)
    BY <1>2 DEF NumbersInOrder, Good
  <2>2. e.match \in Nat
    BY <1>2 DEF ServerRecord
  <2> QED
    BY <1>1, <1>3, <2>1, <2>2 DEF Core, Announced
<1>7. Behind(client'.phase, up', down', handler', matches')
  BY <1>1, <1>2, <1>5, BehindRead DEF Heard, e
<1>8. client'.state = "InMatch" => client'.match # 0 /\ client'.phase = "InMatch"
  BY <1>2, <1>6 DEF Heard, InStep
<1>9. \A i \in 1 .. Len(up) : i \in 1 .. Len(up') /\ up'[i] = up[i]
  <2>1. /\ Len(up) \in Nat
        /\ up' = up \/ (Len(up') = Len(up) + 1 /\ \A i \in 1 .. Len(up) : up'[i] = up[i])
    BY <1>1, <1>2, <1>4, AppendProperties DEF Messages
  <2> QED
    BY <2>1
<1>10. \A i \in 1 .. Len(down) : i = 1 \/ (i - 1 \in 1 .. Len(down') /\ down'[i - 1] = down[i])
  BY <1>1, <1>2, TailKeeps DEF Answers
<1>11. AuthAsked(client', up', down', handler')
  <2> SUFFICES ASSUME client'.state = "Connected", client'.name <= 64
               PROVE  \/ \E i \in 1 .. Len(up') : up'[i].type = "AuthRequest"
                      \/ \E i \in 1 .. Len(down') : down'[i].type \in {"AuthResult", "Error"}
                      \/ handler' = "Ended"
    BY DEF AuthAsked
  <2>1. client.state = "Connected" /\ e.type \notin {"AuthResult", "Error"}
    BY <1>2 DEF Heard
  <2>2. \/ \E i \in 1 .. Len(up) : up[i].type = "AuthRequest"
        \/ \E i \in 1 .. Len(down) : down[i].type \in {"AuthResult", "Error"}
        \/ handler = "Ended"
    BY <1>2, <2>1 DEF InStep, AuthAsked
  <2>3. CASE \E i \in 1 .. Len(up) : up[i].type = "AuthRequest"
    BY <1>9, <2>3
  <2>4. ASSUME NEW i \in 1 .. Len(down), down[i].type \in {"AuthResult", "Error"}
        PROVE  \E k \in 1 .. Len(down') : down'[k].type \in {"AuthResult", "Error"}
    <3>1. i # 1
      BY <1>3, <2>1, <2>4
    <3> QED
      BY <1>10, <2>4, <3>1
  <2> QED
    BY <1>2, <2>2, <2>3, <2>4
<1> QED
  BY <1>2, <1>7, <1>8, <1>11 DEF InStep

\* No connection, or none any more.
LEMMA GoneInStep ==
  ASSUME NumbersInOrder, ConnectFails \/ ConnectionEnds \/ SocketCloses \/ ReadError
  PROVE  InStep'
<1>1. socket' = "Unconnected" /\ handler' = "None"
  BY GoneEffect DEF Unconnected
<1>2. client'.state \in {"Error", "Disconnected", "Disconnecting"}
  BY GoneEffect
<1> QED
  BY <1>1, <1>2 DEF InStep, Behind, AuthAsked, Phases

\* The two phases are in step to begin with.
LEMMA InitInStep == Init => InStep
BY DEF Init, InStep, Behind, AuthAsked, Phases

\* A connection is tried.
LEMMA ConnectInStep ==
  ASSUME NumbersInOrder, NEW name \in Names, Connect(name)
  PROVE  /\ InStep' /\ socket' = "Connecting" /\ client'.phase = "Connected"
         /\ client'.state = "Connecting" /\ down' = <<>> /\ matches' = <<>> /\ ~client'.over
         /\ client'.match = 0
<1> DEFINE phase == "Connected"
           zero  == 0
           one   == 1
           c     == [client EXCEPT !.match = zero, !.seq = one, !.phase = phase, !.name = name]
           ids     == 0 .. MaxMatches
           numbers == Nat \ {0}
<1>1. client \in ClientRecord /\ name \in Nat
  BY QtClientAssumption DEF NumbersInOrder, Good
<1>2. client' = WithState(c, "Connecting") /\ socket' = "Connecting"
  BY DEF Connect
<1>3. UNCHANGED <<up, down, handler, matches>> /\ client.state \in {"Disconnected", "Error"}
  BY DEF Connect
<1>4. handler = "None" /\ down = <<>> /\ matches = <<>>
  BY <1>3 DEF NumbersInOrder, Good
<1>5. phase \in Phases /\ "Connecting" \in States /\ zero \in ids /\ one \in numbers
  BY QtClientAssumption DEF Phases, States
<1>6. ClientRecord = [state : States, phase : Phases, match : ids, seq : numbers,
                      over : BOOLEAN, keys : SUBSET Keys, ctl : ControllerRecord, name : Nat]
  BY DEF ClientRecord
<1> HIDE DEF phase, zero, one, ids, numbers
<1>7. c \in ClientRecord /\ c.phase = phase /\ c.name = name /\ c.match = zero
  BY <1>1, <1>5, <1>6
<1> HIDE DEF c
<1>8. /\ client'.state = "Connecting" /\ client'.phase = phase /\ client'.name = name
      /\ client'.match = zero
  BY <1>2, <1>5, <1>7, WithStateSound, WithStateKeeps
<1>9. ~client'.over
  BY <1>2, <1>7, OverEnds
<1> QED
  BY <1>2, <1>3, <1>4, <1>8, <1>9 DEF InStep, Behind, AuthAsked, Phases, phase, zero

\* A connection is made.
LEMMA EstablishedInStep ==
  ASSUME NumbersInOrder, InStep, Established
  PROVE  InStep' /\ ~client'.over /\ matches' = <<>> /\ client'.match = client.match
         /\ \A i \in 1 .. Len(down') : down'[i].type = "Error"
<1> DEFINE auth == Sends("AuthRequest", client.name, 0)
<1>1. client \in ClientRecord /\ "Connected" \in States /\ client.name \in Nat
  BY DEF NumbersInOrder, Good, States, ClientRecord
<1>2. /\ socket = "Connecting" /\ socket' \in {"Closing", "Connected"}
      /\ client' = WithState(client, "Connected")
      /\ up' = IF IsValid(auth, client.phase) THEN <<auth>> ELSE <<>>
      /\ matches' = matches
      /\ \/ handler' = "Connected" /\ down' = <<>>
         \/ handler' = "Ended" /\ down' = <<ServerError>>
  BY DEF Established
<1>3. client.phase = "Connected" /\ matches = <<>> /\ client.name \in Names
  BY <1>2 DEF InStep, NumbersInOrder, Good
<1>4. /\ client'.state = "Connected" /\ client'.phase = client.phase
      /\ client'.name = client.name /\ client'.match = client.match
  BY <1>1, <1>2, WithStateSound, WithStateKeeps
<1>5. ~client'.over
  BY <1>1, <1>2, OverEnds
<1>6. auth.type = "AuthRequest" /\ (client.name <= 64 => IsValid(auth, "Connected"))
  BY <1>1, <1>3, QtClientAssumption, ShortNamesAreValid DEF Sends
<1>7. ServerError.type = "Error"
  BY DEF ServerError, Says
<1> HIDE DEF auth
<1>8. /\ \A i \in 1 .. Len(<<>>) : FALSE
      /\ Len(<<auth>>) = 1 /\ <<auth>>[1] = auth
      /\ Len(<<ServerError>>) = 1 /\ <<ServerError>>[1] = ServerError
  OBVIOUS
<1>9. \A i \in 1 .. Len(down') : down'[i].type = "Error"
  BY <1>2, <1>7, <1>8
<1>10. /\ \A i \in 1 .. Len(up') : i = 1 /\ up'[i] = auth /\ IsValid(auth, "Connected")
       /\ IsValid(auth, "Connected") => 1 \in 1 .. Len(up') /\ up'[1] = auth
  BY <1>2, <1>3, <1>8
<1>11. Behind(client'.phase, up', down', handler', matches')
  <2> SUFFICES ASSUME handler' \in Phases PROVE Behind(client'.phase, up', down', handler', matches')
    BY DEF Behind
  <2>1. handler' = "Connected" /\ "Connected" \in Phases
    BY <1>2 DEF Phases
  <2>2. \A i \in 1 .. Len(up') : Fits(i, up'[i], handler')
    BY <1>6, <1>10, <2>1 DEF Fits
  <2> QED
    BY <1>2, <1>3, <1>4, <1>9, <2>1, <2>2 DEF Behind, IsJoined
<1>12. AuthAsked(client', up', down', handler')
  BY <1>4, <1>6, <1>10 DEF AuthAsked
<1> QED
  BY <1>2, <1>3, <1>4, <1>5, <1>9, <1>11, <1>12 DEF InStep

(***************************************************************************)
(* What the server's end does to all of this: it answers e.                *)
(***************************************************************************)
Replies(e) ==
  /\ handler \in Phases /\ e \in Answers /\ down' = down \o e /\ UNCHANGED <<client, socket>>
  /\ \/ handler' = "Ended"
     \/ /\ \/ up' = up
           \/ /\ up # <<>> /\ up' = Tail(up)
              /\ Head(up).type = "AuthRequest" => \E i \in 1 .. Len(e) : e[i].type = "AuthResult"
        /\ \/ handler' = handler
           \/ handler' = "Authenticated" /\ handler = "Connected" /\ up' # up
           \/ handler' = "InMatch" /\ handler = "Authenticated" /\ up' # up
        /\ matches' # <<>> => matches # <<>> \/ handler' = "InMatch"
        /\ \A i \in 1 .. Len(e) : /\ e[i].type = "AuthResult" => handler' # "Connected"
                                  /\ IsJoined(e[i]) => handler' = "InMatch"

\* Whatever the server replies, the phases stay in step.
LEMMA RepliesInStep ==
  ASSUME NumbersInOrder, InStep, NEW e, Replies(e)
  PROVE  InStep'
<1>1. /\ up \in Messages /\ down \in Answers /\ handler \in Phases /\ e \in Answers
      /\ UNCHANGED <<client, socket>> /\ down' = down \o e
  BY DEF NumbersInOrder, Good, Replies
<1>2. /\ Len(down) \in Nat /\ Len(e) \in Nat /\ Len(down') = Len(down) + Len(e)
      /\ \A i \in 1 .. Len(down) + Len(e) : down'[i] = IF i <= Len(down) THEN down[i] ELSE e[i - Len(down)]
  BY <1>1, ConcatProperties DEF Answers
<1>3. /\ \A i \in 1 .. Len(down) : i \in 1 .. Len(down') /\ down'[i] = down[i]
      /\ \A i \in 1 .. Len(e) : Len(down) + i \in 1 .. Len(down') /\ down'[Len(down) + i] = e[i]
  <2>1. ASSUME NEW i \in 1 .. Len(e)
        PROVE  Len(down) + i \in 1 .. Len(down') /\ down'[Len(down) + i] = e[i]
    <3>1. /\ Len(down) + i \in 1 .. Len(down) + Len(e) /\ ~(Len(down) + i <= Len(down))
          /\ (Len(down) + i) - Len(down) = i
      BY <1>2
    <3> QED
      BY <1>2, <3>1
  <2> QED
    BY <1>2, <2>1
<1>4. CASE handler' = "Ended"
  BY <1>1, <1>4 DEF InStep, Behind, AuthAsked, Phases
<1>5. CASE handler' # "Ended"
  <2>1. /\ \/ up' = up
           \/ /\ up # <<>> /\ up' = Tail(up)
              /\ Head(up).type = "AuthRequest" => \E i \in 1 .. Len(e) : e[i].type = "AuthResult"
        /\ \/ handler' = handler
           \/ handler' = "Authenticated" /\ handler = "Connected" /\ up' # up
           \/ handler' = "InMatch" /\ handler = "Authenticated" /\ up' # up
        /\ matches' # <<>> => matches # <<>> \/ handler' = "InMatch"
        /\ \A i \in 1 .. Len(e) : /\ e[i].type = "AuthResult" => handler' # "Connected"
                                  /\ IsJoined(e[i]) => handler' = "InMatch"
    BY <1>5 DEF Replies
  <2>2. Behind(client.phase, up', down \o e, handler', matches')
    BY <1>1, <2>1, BehindServe DEF InStep
  <2>3. AuthAsked(client', up', down', handler')
    <3> SUFFICES ASSUME client'.state = "Connected", client'.name <= 64
                 PROVE  \/ \E i \in 1 .. Len(up') : up'[i].type = "AuthRequest"
                        \/ \E i \in 1 .. Len(down') : down'[i].type \in {"AuthResult", "Error"}
      BY DEF AuthAsked
    <3>1. \/ \E i \in 1 .. Len(up) : up[i].type = "AuthRequest"
          \/ \E i \in 1 .. Len(down) : down[i].type \in {"AuthResult", "Error"}
      BY <1>1 DEF InStep, AuthAsked, Phases
    <3>2. CASE \E i \in 1 .. Len(down) : down[i].type \in {"AuthResult", "Error"}
      BY <1>3, <3>2
    <3>3. ASSUME NEW i \in 1 .. Len(up), up[i].type = "AuthRequest", up # <<>>, up' = Tail(up)
          PROVE  \/ \E k \in 1 .. Len(up') : up'[k].type = "AuthRequest"
                 \/ \E k \in 1 .. Len(down') : down'[k].type \in {"AuthResult", "Error"}
      <4>1. Head(up) = up[1] /\ (i = 1 \/ (i - 1 \in 1 .. Len(up') /\ up'[i - 1] = up[i]))
        BY <1>1, <3>3, TailKeeps DEF Messages
      <4>2. CASE i # 1
        BY <3>3, <4>1, <4>2
      <4>3. CASE i = 1
        <5>1. \E k \in 1 .. Len(e) : e[k].type = "AuthResult" \/ up' = up
          BY <2>1, <3>3, <4>1, <4>3
        <5>2. up' # up
          BY <1>1, <3>3, TailKeeps DEF Messages
        <5> QED
          BY <1>3, <5>1, <5>2
      <4> QED
        BY <4>2, <4>3
    <3> QED
      BY <2>1, <3>1, <3>2, <3>3
  <2> QED
    BY <1>1, <2>2, <2>3 DEF InStep
<1> QED
  BY <1>4, <1>5

\* In what phase a message is served.
LEMMA ServedPhase ==
  ASSUME NumbersInOrder, NEW type, Serves(type)
  PROVE  /\ handler \in Phases /\ UNCHANGED <<client, socket>> /\ up # <<>> /\ up' = Tail(up)
         /\ Head(up).type = type /\ Head(up) \in MessageRecord /\ IsValid(Head(up), handler)
         /\ up' # up
         /\ type \in {"CreateMatch", "JoinMatch"} => handler = "Authenticated"
         /\ type \in {"StartNextMatch", "InputCommand"} => handler = "InMatch"
         /\ type = "AuthRequest" => handler = "Connected"
<1>1. /\ handler \in Phases /\ UNCHANGED <<client, socket>> /\ up # <<>> /\ up' = Tail(up)
      /\ Head(up).type = type /\ Head(up) \in MessageRecord
  BY ServedSound
<1>2. IsValid(Head(up), handler)
  BY DEF Serves
<1>3. PhaseAllows(type, handler)
  BY <1>1, <1>2, ValidElsewhere
<1>4. up \in Messages
  BY DEF NumbersInOrder, Good
<1>5. up' # up
  BY <1>1, <1>4, TailKeeps DEF Messages
<1> QED
  BY <1>1, <1>2, <1>3, <1>5, AllowedPhases

\* The answers there are, and of what type they are.
LEMMA AnswerLists ==
  ASSUME NEW x \in ServerRecord, NEW y \in ServerRecord
  PROVE  /\ <<>> \in Answers /\ <<x>> \in Answers /\ <<x, y>> \in Answers
         /\ Len(<<>>) = 0 /\ Len(<<x>>) = 1 /\ Len(<<x, y>>) = 2
         /\ <<x>>[1] = x /\ <<x, y>>[1] = x /\ <<x, y>>[2] = y
BY DEF Answers

\* The handler answers.
LEMMA HandlerReplies ==
  ASSUME NumbersInOrder, InStep, HandlerReads
  PROVE  \E e : Replies(e)
<1>1. ServerError \in ServerRecord /\ ServerError.type = "Error"
  BY ErrorSound DEF ServerError, Says
<1>0. "AuthResult" \in ServerTypes \cup {"Ping", "Pong"} /\ 0 \in 0 .. MaxMatches
  BY QtClientAssumption DEF ServerTypes
<1>2. ASSUME NEW type, NEW e \in Answers, Serves(type), down' = down \o e, handler' = handler,
             matches' = matches \/ handler' = "InMatch", type # "AuthRequest",
             \A i \in 1 .. Len(e) : /\ e[i].type # "AuthResult"
                                    /\ IsJoined(e[i]) => handler' = "InMatch"
      PROVE  Replies(e)
  BY <1>2, ServedPhase DEF Replies
<1>3. ASSUME NEW type, NEW x \in ServerRecord, Serves(type), down' = down \o <<x>>,
             handler' = handler, matches' = matches \/ handler' = "InMatch", type # "AuthRequest",
             x.type \notin {"AuthResult", "MatchJoined"}
      PROVE  \E e : Replies(e)
  <2> DEFINE e == <<x>>
  <2>1. e \in Answers /\ Len(e) = 1 /\ e[1] = x
    BY AnswerLists
  <2> HIDE DEF e
  <2>2. \A i \in 1 .. Len(e) : e[i] = x
    BY <2>1
  <2>3. Replies(e)
    BY <1>2, <1>3, <2>1, <2>2 DEF IsJoined, e
  <2> QED
    BY <2>3
<1>4. ASSUME NEW type, Serves(type), Rejects, type # "AuthRequest"
      PROVE  \E e : Replies(e)
  BY <1>1, <1>3, <1>4 DEF Rejects, Tells
<1>5. CASE ServeAuth
  <2> DEFINE x == Says("AuthResult", 0, TRUE)
             e == <<x>>
  <2>1. x \in ServerRecord /\ x.type = "AuthResult"
    BY <1>0, SaysSound
  <2>2. e \in Answers /\ Len(e) = 1 /\ e[1] = x
    BY <2>1, AnswerLists
  <2>3. Serves("AuthRequest") /\ handler' = "Authenticated" /\ down' = down \o e /\ matches' = matches
    BY <1>5 DEF ServeAuth, Tells
  <2> HIDE DEF e, x
  <2>4. /\ handler \in Phases /\ UNCHANGED <<client, socket>> /\ up # <<>> /\ up' = Tail(up)
        /\ up' # up /\ handler = "Connected"
    BY <2>3, ServedPhase
  <2>5. /\ \A i \in 1 .. Len(e) : e[i].type = "AuthResult"
        /\ \E i \in 1 .. Len(e) : e[i].type = "AuthResult"
    BY <2>1, <2>2
  <2>6. Replies(e)
    BY <2>2, <2>3, <2>4, <2>5 DEF Replies, IsJoined
  <2> QED
    BY <2>6
<1>6. ASSUME NEW type, NEW k \in 0 .. MaxMatches, Serves(type), handler' = "InMatch",
             type \notin {"AuthRequest"}, handler' # handler => type \in {"CreateMatch", "JoinMatch"},
             \/ down' = down \o <<Says("MatchJoined", k, TRUE)>>
             \/ down' = down \o <<Says("MatchJoined", k, TRUE), Says("Snapshot", k, FALSE)>>
      PROVE  \E e : Replies(e)
  <2> DEFINE x == Says("MatchJoined", k, TRUE)
             y == Says("Snapshot", k, FALSE)
  <2>1. /\ x \in ServerRecord /\ x.type = "MatchJoined"
        /\ y \in ServerRecord /\ y.type = "Snapshot"
    BY SaysSound DEF ServerTypes
  <2>2. PICK e \in {<<x>>, <<x, y>>} : down' = down \o e
    BY <1>6
  <2> HIDE DEF x, y
  <2>3. e \in Answers /\ \A i \in 1 .. Len(e) : e[i] = x \/ e[i] = y
    <3>1. CASE e = <<x>>
      <4>1. e \in Answers /\ Len(e) = 1 /\ e[1] = x
        BY <2>1, <3>1, AnswerLists
      <4> QED
        BY <4>1
    <3>2. CASE e = <<x, y>>
      <4>1. e \in Answers /\ Len(e) = 2 /\ e[1] = x /\ e[2] = y
        BY <2>1, <3>2, AnswerLists
      <4> QED
        BY <4>1
    <3> QED
      BY <2>2, <3>1, <3>2
  <2>4. /\ handler \in Phases /\ UNCHANGED <<client, socket>> /\ up # <<>> /\ up' = Tail(up)
        /\ up' # up /\ Head(up).type = type
        /\ handler' = handler \/ handler = "Authenticated"
    BY <1>6, ServedPhase
  <2>5. Replies(e)
    BY <1>6, <2>1, <2>2, <2>3, <2>4 DEF Replies
  <2> QED
    BY <2>5
<1>7. CASE ServeCreate \/ ServeJoin
  <2>1. PICK type \in {"CreateMatch", "JoinMatch"} :
          /\ Serves(type)
          /\ \/ Rejects
             \/ /\ NextMatch <= MaxMatches /\ handler' = "InMatch"
                /\ \/ down' = down \o <<Says("MatchJoined", NextMatch, TRUE)>>
                   \/ down' = down \o <<Says("MatchJoined", NextMatch, TRUE),
                                        Says("Snapshot", NextMatch, FALSE)>>
    BY <1>7 DEF ServeCreate, ServeJoin, Tells, Begins
  <2>2. NextMatch <= MaxMatches => NextMatch \in 0 .. MaxMatches
    <3>1. Len(matches) \in Nat
      BY DEF NumbersInOrder, Good, MatchList
    <3> QED
      BY <3>1, QtClientAssumption DEF NextMatch
  <2> QED
    BY <1>4, <1>6, <2>1, <2>2
<1>8. CASE ServeStartNext
  <2>1. Serves("StartNextMatch")
    BY <1>8 DEF ServeStartNext
  <2>2. handler = "InMatch"
    BY <2>1, ServedPhase
  <2>3. CASE Rejects
    BY <1>4, <2>1, <2>3
  <2>4. CASE Rematch(Head(up).match) /\ handler' = handler
    <3>1. /\ NextMatch <= MaxMatches
          /\ down' = down \o <<Says("MatchJoined", NextMatch, TRUE), Says("Snapshot", NextMatch, FALSE)>>
      BY <2>4 DEF Rematch, Tells, Begins
    <3>2. NextMatch \in 0 .. MaxMatches
      <4>1. Len(matches) \in Nat
        BY DEF NumbersInOrder, Good, MatchList
      <4> QED
        BY <3>1, <4>1, QtClientAssumption DEF NextMatch
    <3> QED
      BY <1>6, <2>1, <2>2, <2>4, <3>1, <3>2
  <2> QED
    BY <1>8, <2>3, <2>4 DEF ServeStartNext
<1>9. CASE ServeInput
  <2> DEFINE x == Says("InputAck", Head(up).match, Accepts(Head(up)))
  <2>1. Serves("InputCommand") /\ down' = down \o <<x>> /\ handler' = handler
    BY <1>9 DEF ServeInput, Tells
  <2>2. Head(up) \in MessageRecord /\ handler = "InMatch"
    BY <2>1, ServedPhase
  <2>3. x \in ServerRecord /\ x.type = "InputAck"
    <3>1. Accepts(Head(up)) \in BOOLEAN
      BY DEF Accepts
    <3>2. Head(up).match \in 0 .. MaxMatches
      BY <2>2 DEF MessageRecord
    <3> QED
      BY <3>1, <3>2, SaysSound DEF ServerTypes
  <2> HIDE DEF x
  <2> QED
    BY <1>3, <2>1, <2>2, <2>3
<1>10. CASE ServePing
  <2> DEFINE x == Says("Pong", 0, TRUE)
  <2>1. x \in ServerRecord /\ x.type = "Pong"
    BY <1>0, SaysSound
  <2>2. Serves("Ping") /\ down' = down \o <<x>> /\ handler' = handler /\ matches' = matches
    BY <1>10 DEF ServePing, Tells
  <2> HIDE DEF x
  <2> QED
    BY <1>3, <2>1, <2>2
<1>11. CASE ServePong
  <2> DEFINE e == <<>>
  <2>1. e \in Answers /\ Len(e) = 0
    BY <1>1, AnswerLists
  <2>2. down \in Answers
    BY DEF NumbersInOrder, Good
  <2>3. down = down \o e
    BY <2>2, ConcatEmptySeq DEF Answers
  <2> HIDE DEF e
  <2>4. Serves("Pong") /\ down' = down \o e /\ handler' = handler /\ matches' = matches
    BY <1>11, <2>3 DEF ServePong
  <2>5. Replies(e)
    BY <1>2, <2>1, <2>4
  <2> QED
    BY <2>5
<1>12. CASE Refuse
  <2>1. PICK e \in {<<ServerError>>} : Ends(e)
    BY <1>12 DEF Refuse
  <2>2. e \in Answers
    BY <1>1, <2>1, AnswerLists
  <2>3. Replies(e)
    BY <2>1, <2>2 DEF Ends, Replies
  <2> QED
    BY <2>3
<1> QED
  BY <1>5, <1>7, <1>8, <1>9, <1>10, <1>11, <1>12 DEF HandlerReads

\* So does the server when nothing is read.
LEMMA ServerReplies ==
  ASSUME NumbersInOrder, InStep, Server
  PROVE  \E e : Replies(e)
<1>1. /\ ServerError \in ServerRecord /\ ServerError.type = "Error"
      /\ down \in Answers /\ matches \in MatchList /\ Len(matches) <= MaxMatches
  BY ErrorSound DEF ServerError, Says, NumbersInOrder, Good
<1>2. ASSUME NEW e \in {<<ServerError>>, <<>>}, Ends(e)
      PROVE  \E x : Replies(x)
  <2>1. e \in Answers
    BY <1>1, <1>2, AnswerLists
  <2>2. Replies(e)
    BY <1>2, <2>1 DEF Ends, Replies
  <2> QED
    BY <2>2
<1>3. ASSUME NEW x \in ServerRecord, x.type \in {"Ping", "Snapshot"}, handler \in Phases,
             UNCHANGED <<client, socket, up, handler>>, matches' # <<>> => matches # <<>>,
             down' = down \o <<x>> \/ down' = down \o <<>>
      PROVE  \E e : Replies(e)
  <2>1. PICK e \in {<<x>>, <<>>} : down' = down \o e
    BY <1>3
  <2>2. e \in Answers /\ \A i \in 1 .. Len(e) : e[i] = x
    <3>1. CASE e = <<x>>
      <4>1. e \in Answers /\ Len(e) = 1 /\ e[1] = x
        BY <3>1, AnswerLists
      <4> QED
        BY <4>1
    <3>2. CASE e = <<>>
      <4>1. e \in Answers /\ Len(e) = 0
        BY <3>2, AnswerLists
      <4> QED
        BY <4>1
    <3> QED
      BY <2>1, <3>1, <3>2
  <2>3. Replies(e)
    BY <1>3, <2>1, <2>2 DEF Replies, IsJoined
  <2> QED
    BY <2>3
<1>4. CASE HandshakeTimeout \/ CloseSession
  BY <1>2, <1>4 DEF HandshakeTimeout, CloseSession
<1>5. CASE PingIdle
  <2> DEFINE x == Says("Ping", 0, TRUE)
  <2>1. x \in ServerRecord /\ x.type = "Ping"
    <3>1. 0 \in 0 .. MaxMatches
      BY QtClientAssumption
    <3> QED
      BY <3>1, SaysSound
  <2>2. /\ handler \in Phases /\ UNCHANGED <<client, socket, up, handler>> /\ matches' = matches
        /\ down' = down \o <<x>>
    BY <1>5, QtClientAssumption DEF PingIdle, Tells
  <2> HIDE DEF x
  <2> QED
    BY <1>3, <2>1, <2>2
<1>6. ASSUME NEW m \in DOMAIN matches
      PROVE  /\ m \in 1 .. Len(matches) /\ m \in 0 .. MaxMatches /\ matches # <<>>
             /\ \A yes \in BOOLEAN : /\ Says("Snapshot", m, yes) \in ServerRecord
                                     /\ Says("Snapshot", m, yes).type = "Snapshot"
  <2>1. m \in 1 .. Len(matches) /\ m \in 0 .. MaxMatches /\ "Snapshot" \in ServerTypes
    BY <1>1, QtClientAssumption DEF MatchList, ServerTypes
  <2>2. matches # <<>>
    BY <2>1
  <2> QED
    BY <2>1, <2>2, SaysSound
<1>7. ASSUME NEW m \in DOMAIN matches, TickMatch(m)
      PROVE  \E e : Replies(e)
  <2>1. PICK over \in BOOLEAN, snapshot \in BOOLEAN :
          LET now == matches[m].over \/ over
          IN  Tells(IF snapshot THEN <<Says("Snapshot", m, now)>> ELSE <<>>)
    BY <1>7 DEF TickMatch
  <2> DEFINE now == matches[m].over \/ over
             x   == Says("Snapshot", m, now)
  <2>2. handler \in Phases /\ UNCHANGED <<client, socket, up, handler>>
    BY <1>7 DEF TickMatch
  <2>3. now \in BOOLEAN
    OBVIOUS
  <2>4. down' = down \o <<x>> \/ down' = down \o <<>>
    BY <2>1 DEF Tells
  <2> HIDE DEF now
  <2>5. x \in ServerRecord /\ x.type = "Snapshot"
    BY <1>6, <2>3
  <2> HIDE DEF x
  <2> QED
    BY <1>3, <1>6, <2>2, <2>4, <2>5
<1>8. ASSUME NEW m \in DOMAIN matches, OpponentJoins(m)
      PROVE  \E e : Replies(e)
  <2> DEFINE x == Says("Snapshot", m, FALSE)
  <2>1. handler \in Phases /\ UNCHANGED <<client, socket, up, handler>> /\ down' = down \o <<x>>
    BY <1>8 DEF OpponentJoins, Tells
  <2>2. x \in ServerRecord /\ x.type = "Snapshot"
    BY <1>6
  <2> HIDE DEF x
  <2> QED
    BY <1>3, <1>6, <2>1, <2>2
<1>9. ASSUME NEW m \in DOMAIN matches, OpponentStartsNext(m)
      PROVE  \E e : Replies(e)
  <2> DEFINE x == Says("MatchJoined", NextMatch, TRUE)
             y == Says("Snapshot", NextMatch, FALSE)
             e == <<x, y>>
  <2>1. /\ handler \in Phases /\ UNCHANGED <<client, socket, up, handler>> /\ down' = down \o e
        /\ NextMatch <= MaxMatches
    BY <1>9 DEF OpponentStartsNext, Rematch, Tells, Begins
  <2>2. handler = "InMatch"
    BY <1>6, <2>1 DEF InStep, Behind
  <2>3. x \in ServerRecord /\ y \in ServerRecord /\ x.type = "MatchJoined" /\ y.type = "Snapshot"
    <3>1. NextMatch \in 0 .. MaxMatches /\ {"MatchJoined", "Snapshot"} \subseteq ServerTypes
      <4>1. Len(matches) \in Nat
        BY <1>1 DEF MatchList
      <4> QED
        BY <2>1, <4>1, QtClientAssumption DEF NextMatch, ServerTypes
    <3> QED
      BY <3>1, SaysSound
  <2> HIDE DEF x, y
  <2>4. e \in Answers /\ Len(e) = 2 /\ e[1] = x /\ e[2] = y
    BY <2>3, AnswerLists
  <2> HIDE DEF e
  <2>5. \A i \in 1 .. Len(e) : e[i] = x \/ e[i] = y
    BY <2>4
  <2>6. Replies(e)
    BY <1>6, <2>1, <2>2, <2>3, <2>4, <2>5 DEF Replies
  <2> QED
    BY <2>6
<1> QED
  BY HandlerReplies, <1>4, <1>5, <1>7, <1>8, <1>9 DEF Server

\* Every step keeps the two phases in step.
LEMMA NextInStep == NumbersInOrder /\ InStep /\ [Next]_vars => InStep'
<1> SUFFICES ASSUME NumbersInOrder, InStep, [Next]_vars PROVE InStep'
  OBVIOUS
<1>1. CASE Player
  <2>1. CASE \E name \in Names : Connect(name)
    BY <2>1, ConnectInStep
  <2>2. CASE DisconnectFromServer \/ CreateMatch \/ StartNextMatch \/ SendAction
             \/ \E code \in Codes : JoinMatch(code)
    BY <2>2, ClientActs, ActsInStep
  <2>3. ASSUME NEW key \in Keys, PressKey(key) \/ ReleaseKey(key)
        PROVE  InStep'
    <3>1. client.keys \in SUBSET Keys
      BY DEF NumbersInOrder, Good, ClientRecord
    <3>2. client.keys \cup {key} \in SUBSET Keys /\ client.keys \ {key} \in SUBSET Keys
      BY <3>1
    <3>3. \E keys \in SUBSET Keys : KeysChange(keys)
      BY <2>3, <3>2 DEF PressKey, ReleaseKey
    <3> QED
      BY <3>3, ClientActs, ActsInStep
  <2> QED
    BY <1>1, <2>1, <2>2, <2>3 DEF Player
<1>2. CASE Timers
  BY <1>2, ClientActs, ActsInStep DEF Timers
<1>3. CASE Network
  BY <1>3, EstablishedInStep, GoneInStep DEF Network
<1>4. CASE ClientReads
  BY <1>4, ReadsInStep, GoneInStep
<1>5. CASE Server
  BY <1>5, ServerReplies, RepliesInStep
<1>6. CASE UNCHANGED vars
  BY <1>6 DEF vars, InStep, Behind, AuthAsked
<1> QED
  BY <1>1, <1>2, <1>3, <1>4, <1>5, <1>6 DEF Next

\* The phases are in step in every state that is reached.
LEMMA InStepHolds == Spec => []InStep
<1> QED
  BY InitInStep, NextInStep, InOrderHolds, PTL DEF Spec

(***************************************************************************)
(* The handler refuses nothing that the client found valid but a second    *)
(* request for a match that was sent before the first was answered,        *)
(* whatever the player does and however slow the connection is: the        *)
(* handler's phase is never behind the client's.                           *)
(***************************************************************************)
THEOREM OnlySecondRequestsAreRefused == Spec => []OnlyAskingTwiceIsRefused
<1>1. NumbersInOrder /\ InStep => OnlyAskingTwiceIsRefused
  BY HeadFits DEF NumbersInOrder, Good, InStep, OnlyAskingTwiceIsRefused
<1> QED
  BY <1>1, InOrderHolds, InStepHolds, PTL

(***************************************************************************)
(* Every connection whose display name is short enough asks to be          *)
(* authenticated, is being answered, or is being ended.                    *)
(***************************************************************************)
THEOREM AuthenticationAlwaysAskedFor == Spec => []AuthenticationIsAskedFor
<1>1. NumbersInOrder /\ InStep => AuthenticationIsAskedFor
  <2>1. NumbersInOrder => DOMAIN up = 1 .. Len(up) /\ DOMAIN down = 1 .. Len(down)
    BY DEF NumbersInOrder, Good, Messages, Answers
  <2> QED
    BY <2>1 DEF InStep, AuthAsked, AuthenticationIsAskedFor
<1> QED
  BY <1>1, InOrderHolds, InStepHolds, PTL

----------------------------------------------------------------------------
(***************************************************************************)
(* What the client knows of matches that are over.  A snapshot of a match  *)
(* that is over is one of the client's match, or of another that was       *)
(* ticking when it was taken; of two that tick, a rematch has been begun   *)
(* twice.                                                                  *)
(***************************************************************************)
\* The match k is over, or another one ticks.
Elsewhere(ms, k) == ms[k].over \/ \E x \in 1 .. Len(ms) : x # k /\ ms[x].ticking

\* Only the first match waits to start, and what has started is over or ticks.
Begun(ms) ==
  \A m \in 1 .. Len(ms) : /\ ms[m].started \/ Len(ms) = 1
                          /\ ms[m].started => ms[m].over \/ ms[m].ticking

IsFinal(message) == message.type = "Snapshot" /\ message.yes

Overs(c, d, ms) ==
  /\ Begun(ms)
  /\ c.over /\ c.match # 0 => Elsewhere(ms, c.match)
  /\ \A i \in 1 .. Len(d) : IsFinal(d[i]) =>
       /\ c.match # 0 => Elsewhere(ms, c.match)
       /\ \A j \in 1 .. i - 1 : IsJoined(d[j]) => Elsewhere(ms, d[j].match)

OversKnown == socket # "Unconnected" => Overs(client, down, matches)

\* Matches go on: nothing of this is lost.
Goes(ms, ns) ==
  /\ Begun(ns) /\ Len(ns) >= Len(ms)
  /\ \A k \in 1 .. Len(ms) : Elsewhere(ms, k) => Elsewhere(ns, k)

\* A list of answers none of which is a snapshot of a match that is over.
Untrue(e) == e \in Answers /\ \A i \in 1 .. Len(e) : ~IsFinal(e[i])

\* Answers of at most two messages that end no match end none.
LEMMA UntrueLists ==
  ASSUME NEW x \in ServerRecord, NEW y \in ServerRecord, ~IsFinal(x), ~IsFinal(y)
  PROVE  Untrue(<<>>) /\ Untrue(<<x>>) /\ Untrue(<<x, y>>)
<1> DEFINE none == <<>>
           one  == <<x>>
           two  == <<x, y>>
<1>1. /\ none \in Answers /\ one \in Answers /\ two \in Answers
      /\ Len(none) = 0 /\ Len(one) = 1 /\ Len(two) = 2
      /\ one[1] = x /\ two[1] = x /\ two[2] = y
  BY AnswerLists
<1> HIDE DEF none, one, two
<1>2. /\ \A i \in 1 .. Len(none) : FALSE
      /\ \A i \in 1 .. Len(one) : one[i] = x
      /\ \A i \in 1 .. Len(two) : two[i] = x \/ two[i] = y
  BY <1>1
<1>3. Untrue(none) /\ Untrue(one) /\ Untrue(two)
  BY <1>1, <1>2 DEF Untrue
<1> QED
  BY <1>3 DEF none, one, two

\* The server answers, and what it says of a match that is over comes from one that ticks.
LEMMA OversReply ==
  ASSUME NEW c, NEW d \in Answers, NEW e \in Answers, NEW ms, NEW ns,
         Overs(c, d, ms), Goes(ms, ns), Len(ms) \in Nat, Len(ns) \in Nat,
         c.match \in 0 .. Len(ms),
         \A i \in 1 .. Len(d) : IsJoined(d[i]) => d[i].match \in 1 .. Len(ms),
         \/ Untrue(e)
         \/ Quiet(e) /\ \A k \in 1 .. Len(ms) : Elsewhere(ns, k)
  PROVE  Overs(c, d \o e, ns)
<1> DEFINE w == d \o e
<1>1. /\ Len(d) \in Nat /\ Len(e) \in Nat /\ Len(w) = Len(d) + Len(e)
      /\ \A i \in 1 .. Len(d) + Len(e) : w[i] = IF i <= Len(d) THEN d[i] ELSE e[i - Len(d)]
  BY ConcatProperties DEF Answers
<1> HIDE DEF w
<1>2. /\ \A i \in 1 .. Len(w) : \/ i \in 1 .. Len(d) /\ w[i] = d[i]
                                \/ i > Len(d) /\ i - Len(d) \in 1 .. Len(e) /\ w[i] = e[i - Len(d)]
  BY <1>1
<1>3. Begun(ns) /\ (c.over /\ c.match # 0 => Elsewhere(ns, c.match))
  BY DEF Overs, Goes
<1>4. ASSUME NEW i \in 1 .. Len(w), IsFinal(w[i])
      PROVE  /\ c.match # 0 => Elsewhere(ns, c.match)
             /\ \A j \in 1 .. i - 1 : IsJoined(w[j]) => Elsewhere(ns, w[j].match)
  <2>1. CASE i \in 1 .. Len(d) /\ w[i] = d[i]
    <3>1. \A j \in 1 .. i - 1 : j \in 1 .. Len(d) /\ w[j] = d[j]
      BY <1>1, <2>1
    <3>2. i \in 1 .. Len(d) /\ IsFinal(d[i])
      BY <1>4, <2>1
    <3>3. /\ c.match # 0 => Elsewhere(ms, c.match)
          /\ \A j \in 1 .. i - 1 : IsJoined(d[j]) => Elsewhere(ms, d[j].match)
      BY <3>2 DEF Overs
    <3>4. \A k \in 1 .. Len(ms) : Elsewhere(ms, k) => Elsewhere(ns, k)
      BY DEF Goes
    <3>5. c.match # 0 => Elsewhere(ns, c.match)
      BY <3>3, <3>4
    <3>6. ASSUME NEW j \in 1 .. i - 1, IsJoined(w[j])
          PROVE  Elsewhere(ns, w[j].match)
      <4>1. j \in 1 .. Len(d) /\ w[j] = d[j]
        BY <3>1
      <4>2. d[j].match \in 1 .. Len(ms) /\ Elsewhere(ms, d[j].match)
        BY <3>3, <3>6, <4>1
      <4> QED
        BY <3>4, <4>1, <4>2
    <3> QED
      BY <3>5, <3>6
  <2>2. CASE i > Len(d) /\ i - Len(d) \in 1 .. Len(e) /\ w[i] = e[i - Len(d)]
    <3>1. Quiet(e) /\ \A k \in 1 .. Len(ms) : Elsewhere(ns, k)
      BY <1>4, <2>2 DEF Untrue
    <3>2. ASSUME NEW j \in 1 .. i - 1, IsJoined(w[j])
          PROVE  w[j].match \in 1 .. Len(ms)
      <4>1. j \in 1 .. Len(w)
        BY <1>1, <1>4
      <4>2. j \in 1 .. Len(d) /\ w[j] = d[j]
        BY <1>2, <3>1, <3>2, <4>1 DEF Quiet
      <4> QED
        BY <3>2, <4>2
    <3> QED
      BY <3>1, <3>2
  <2> QED
    BY <1>2, <2>1, <2>2
<1> QED
  BY <1>3, <1>4 DEF Overs, w

\* The client reads e, and hears of a match that it is its own.
LEMMA OversRead ==
  ASSUME NEW c, NEW c2, NEW d \in Answers, NEW ms, Overs(c, d, ms), d # <<>>,
         \/ c2.match = c.match /\ (c2.over => c.over)
         \/ c2.match = c.match /\ c2.over /\ IsFinal(Head(d))
         \/ c2.match = Head(d).match /\ ~c2.over /\ IsJoined(Head(d))
  PROVE  Overs(c2, Tail(d), ms)
<1> DEFINE t == Tail(d)
<1>1. /\ Len(t) = Len(d) - 1 /\ Len(d) \in Nat \ {0} /\ Head(d) = d[1]
      /\ \A i \in 1 .. Len(t) : t[i] = d[i + 1]
  BY HeadTailProperties DEF Answers
<1> HIDE DEF t
<1>2. c2.over /\ c2.match # 0 => Elsewhere(ms, c2.match)
  <2>1. 1 \in 1 .. Len(d)
    BY <1>1
  <2> QED
    BY <1>1, <2>1 DEF Overs
<1>3. ASSUME NEW i \in 1 .. Len(t), IsFinal(t[i])
      PROVE  /\ c2.match # 0 => Elsewhere(ms, c2.match)
             /\ \A j \in 1 .. i - 1 : IsJoined(t[j]) => Elsewhere(ms, t[j].match)
  <2>1. i + 1 \in 1 .. Len(d) /\ t[i] = d[i + 1] /\ 1 \in 1 .. (i + 1) - 1
    BY <1>1
  <2>2. /\ c.match # 0 => Elsewhere(ms, c.match)
        /\ \A j \in 1 .. (i + 1) - 1 : IsJoined(d[j]) => Elsewhere(ms, d[j].match)
    BY <1>3, <2>1 DEF Overs
  <2>3. c2.match # 0 => Elsewhere(ms, c2.match)
    BY <1>1, <2>1, <2>2
  <2>4. \A j \in 1 .. i - 1 : j + 1 \in 1 .. (i + 1) - 1 /\ t[j] = d[j + 1]
    BY <1>1
  <2> QED
    BY <2>2, <2>3, <2>4
<1> QED
  BY <1>2, <1>3 DEF Overs, t

\* Nothing but what the matches say of themselves.
LEMMA OversAlone ==
  ASSUME NEW c, NEW d, c.match = 0, \A i \in 1 .. Len(d) : ~IsFinal(d[i])
  PROVE  Overs(c, d, <<>>)
<1>1. Begun(<<>>)
  BY DEF Begun
<1> QED
  BY <1>1 DEF Overs

\* Matches of which only what they have taken changes.
LEMMA GoesSame ==
  ASSUME NEW ms, NEW ns, Begun(ms), Len(ns) = Len(ms), Len(ms) \in Nat,
         \A k \in 1 .. Len(ms) : /\ ns[k].started = ms[k].started /\ ns[k].over = ms[k].over
                                 /\ ns[k].ticking = ms[k].ticking
  PROVE  Goes(ms, ns)
BY DEF Begun, Goes, Elsewhere

\* A match that ticks may come to be over: then every match is over, or this one ticks.
LEMMA GoesTicked ==
  ASSUME NEW ms, NEW ns, Begun(ms), Len(ns) = Len(ms), Len(ms) \in Nat, NEW m \in 1 .. Len(ms),
         ms[m].ticking, ns[m].ticking, ns[m].started = ms[m].started,
         ms[m].over => ns[m].over, \A k \in 1 .. Len(ms) : k # m => ns[k] = ms[k]
  PROVE  Goes(ms, ns) /\ (ns[m].over => \A k \in 1 .. Len(ms) : Elsewhere(ns, k))
<1>1. Begun(ns)
  BY DEF Begun
<1>2. \A k \in 1 .. Len(ms) : Elsewhere(ms, k) => Elsewhere(ns, k)
  BY DEF Elsewhere
<1>3. ns[m].over => \A k \in 1 .. Len(ms) : Elsewhere(ns, k)
  BY DEF Elsewhere
<1> QED
  BY <1>1, <1>2, <1>3 DEF Goes

\* A match that waited starts.
LEMMA GoesStarted ==
  ASSUME NEW ms, NEW ns, Begun(ms), Len(ns) = Len(ms), Len(ms) \in Nat, NEW m \in 1 .. Len(ms),
         ns[m].ticking, ns[m].started, ns[m].over = ms[m].over,
         \A k \in 1 .. Len(ms) : k # m => ns[k] = ms[k]
  PROVE  Goes(ms, ns)
<1>1. Begun(ns)
  BY DEF Begun
<1>2. \A k \in 1 .. Len(ms) : Elsewhere(ms, k) => Elsewhere(ns, k)
  BY DEF Elsewhere
<1> QED
  BY <1>1, <1>2 DEF Goes

\* A first match is made.
LEMMA GoesFirst ==
  ASSUME NEW ns, Len(ns) = 1, ns[1].started => ns[1].ticking
  PROVE  Goes(<<>>, ns)
<1>1. Begun(ns)
  BY DEF Begun
<1>2. Len(<<>>) = 0
  OBVIOUS
<1> QED
  BY <1>1, <1>2 DEF Goes

\* After a match that is over another one begins.
LEMMA GoesAgain ==
  ASSUME NEW ms, NEW ns, Begun(ms), Len(ms) \in Nat, Len(ns) = Len(ms) + 1, NEW m \in 1 .. Len(ms),
         ms[m].started, ns[m].over, ns[m].started,
         \A k \in 1 .. Len(ms) : k # m => ns[k] = ms[k],
         ns[Len(ns)].started, ns[Len(ns)].ticking
  PROVE  Goes(ms, ns)
<1>1. \A k \in 1 .. Len(ns) : k \in 1 .. Len(ms) \/ k = Len(ns)
  OBVIOUS
<1>2. ASSUME NEW k \in 1 .. Len(ms) PROVE ns[k].started /\ (ns[k].over \/ ns[k].ticking)
  <2>1. ms[k].started
    BY DEF Begun
  <2> QED
    BY <2>1 DEF Begun
<1>3. Begun(ns)
  BY <1>1, <1>2 DEF Begun
<1>4. ASSUME NEW k \in 1 .. Len(ms) PROVE Elsewhere(ns, k)
  <2>1. Len(ns) \in 1 .. Len(ns) /\ Len(ns) # k
    OBVIOUS
  <2> QED
    BY <2>1 DEF Elsewhere
<1> QED
  BY <1>3, <1>4 DEF Goes

\* What the server's end does to matches and says of them.
Tidings ==
  /\ handler \in Phases /\ UNCHANGED <<client, socket>>
  /\ Goes(matches, matches') /\ Len(matches') \in Nat
  /\ \E e \in Answers : /\ down' = down \o e
                        /\ \/ Untrue(e)
                           \/ Quiet(e) /\ \A k \in 1 .. Len(matches) : Elsewhere(matches', k)

\* What the server tells of its matches keeps what the client knows of them true.
LEMMA TidingsKeep ==
  ASSUME NumbersInOrder, OversKnown, Tidings
  PROVE  OversKnown'
<1>1. /\ down \in Answers /\ Core(client, up, down, matches) /\ client \in ClientRecord
      /\ matches \in MatchList
  BY Connection DEF Tidings
<1>2. socket # "Unconnected"
  BY Connected DEF Tidings
<1>3. Len(matches) \in Nat /\ client.match \in 0 .. Len(matches)
  BY <1>1 DEF MatchList, ClientRecord, Core, Numbered
<1>4. ASSUME NEW i \in 1 .. Len(down), IsJoined(down[i])
      PROVE  down[i].match \in 1 .. Len(matches)
  <2>1. down[i] \in ServerRecord
    BY <1>1 DEF Answers
  <2>2. down[i].match \in Nat /\ down[i].match > client.match /\ down[i].match <= Len(matches)
    BY <1>1, <1>4, <2>1 DEF ServerRecord, Core, Announced
  <2> QED
    BY <1>3, <2>2
<1>5. PICK e \in Answers :
        /\ down' = down \o e
        /\ \/ Untrue(e)
           \/ Quiet(e) /\ \A k \in 1 .. Len(matches) : Elsewhere(matches', k)
  BY DEF Tidings
<1>6. Overs(client, down \o e, matches')
  BY <1>1, <1>2, <1>3, <1>4, <1>5, OversReply DEF Tidings, OversKnown
<1> QED
  BY <1>5, <1>6 DEF Tidings, OversKnown

\* The answers that say nothing of a match that is over.
LEMMA UntrueAnswers ==
  ASSUME NEW k \in 0 .. MaxMatches, NEW b \in BOOLEAN
  PROVE  /\ Untrue(<<>>) /\ Untrue(<<ServerError>>) /\ Untrue(<<Says("AuthResult", 0, TRUE)>>)
         /\ Untrue(<<Says("MatchJoined", k, TRUE)>>) /\ Untrue(Begins(k))
         /\ Untrue(<<Says("InputAck", k, b)>>) /\ Untrue(<<Says("Snapshot", k, FALSE)>>)
         /\ Untrue(<<Says("Ping", 0, TRUE)>>) /\ Untrue(<<Says("Pong", 0, TRUE)>>)
<1>1. {"Error", "AuthResult", "MatchJoined", "InputAck", "Snapshot"} \subseteq ServerTypes
  BY DEF ServerTypes
<1>2. 0 \in 0 .. MaxMatches
  BY QtClientAssumption
<1>3. ASSUME NEW type \in {"Error", "AuthResult", "MatchJoined", "InputAck", "Ping", "Pong"},
             NEW m \in 0 .. MaxMatches, NEW yes \in BOOLEAN
      PROVE  Says(type, m, yes) \in ServerRecord /\ ~IsFinal(Says(type, m, yes))
  <2>1. Says(type, m, yes) \in ServerRecord /\ Says(type, m, yes).type = type
    BY <1>1, SaysSound
  <2> QED
    BY <2>1 DEF IsFinal
<1>4. Says("Snapshot", k, FALSE) \in ServerRecord /\ ~IsFinal(Says("Snapshot", k, FALSE))
  <2>1. Says("Snapshot", k, FALSE) \in ServerRecord
    BY <1>1, SaysSound
  <2> QED
    BY <2>1 DEF IsFinal, Says
<1>5. ServerError \in ServerRecord /\ ~IsFinal(ServerError)
  BY <1>2, <1>3 DEF ServerError
<1>6. Untrue(Begins(k))
  BY <1>3, <1>4, UntrueLists DEF Begins
<1>7. ASSUME NEW x \in ServerRecord, ~IsFinal(x) PROVE Untrue(<<>>) /\ Untrue(<<x>>)
  BY <1>7, UntrueLists
<1> QED
  BY <1>2, <1>3, <1>4, <1>5, <1>6, <1>7

\* A match that is over is followed by another.
LEMMA RematchGoes ==
  ASSUME NumbersInOrder, Begun(matches), NEW m, Rematch(m)
  PROVE  /\ Goes(matches, matches') /\ Len(matches') \in Nat
         /\ down' = down \o Begins(NextMatch) /\ NextMatch <= MaxMatches
<1> DEFINE still == FALSE
           r  == [matches[m] EXCEPT !.ticking = still]
           ms == [matches EXCEPT ![m] = r]
           nm == NewMatch(TRUE)
<1>1. matches \in MatchList /\ Len(matches) \in Nat
  BY DEF NumbersInOrder, Good, MatchList
<1>2. /\ m \in 1 .. Len(matches) /\ matches[m] \in MatchRecord
      /\ matches[m].started /\ matches[m].over
      /\ matches' = Append(ms, nm) /\ down' = down \o Begins(NextMatch) /\ NextMatch <= MaxMatches
  BY <1>1 DEF Rematch, MatchList, Tells
<1>3. still \in BOOLEAN /\ nm \in MatchRecord /\ nm.started /\ nm.ticking
  BY NewMatchSound DEF NewMatch
<1> HIDE DEF still, nm
<1>4. r \in MatchRecord /\ r.over /\ r.started
  BY <1>2, <1>3 DEF MatchRecord
<1> HIDE DEF r
<1>5. /\ ms \in MatchList /\ Len(ms) = Len(matches) /\ ms[m] = r
      /\ \A k \in 1 .. Len(matches) : k # m => ms[k] = matches[k]
  BY <1>1, <1>2, <1>4 DEF MatchList
<1> HIDE DEF ms
<1>6. /\ Len(matches') = Len(matches) + 1 /\ matches'[Len(matches) + 1] = nm
      /\ \A k \in 1 .. Len(matches) : matches'[k] = ms[k]
  <2>1. ms \in Seq(MatchRecord)
    BY <1>5 DEF MatchList
  <2>2. /\ Len(Append(ms, nm)) = Len(ms) + 1 /\ Append(ms, nm)[Len(ms) + 1] = nm
        /\ \A k \in 1 .. Len(ms) : Append(ms, nm)[k] = ms[k]
    BY <1>3, <2>1, AppendProperties
  <2> QED
    BY <1>2, <1>5, <2>2
<1>7. Goes(matches, matches')
  <2> DEFINE ns == matches'
  <2>1. /\ Len(ns) = Len(matches) + 1 /\ ns[Len(ns)] = nm /\ ns[m] = r
        /\ \A k \in 1 .. Len(matches) : k # m => ns[k] = matches[k]
    BY <1>2, <1>5, <1>6
  <2> HIDE DEF ns
  <2>2. Goes(matches, ns)
    BY <1>1, <1>2, <1>3, <1>4, <2>1, GoesAgain
  <2> QED
    BY <2>2 DEF ns
<1> QED
  BY <1>1, <1>2, <1>6, <1>7

\* The handler reads a message.
LEMMA HandlerTidings ==
  ASSUME NumbersInOrder, InStep, OversKnown, HandlerReads
  PROVE  Tidings
<1>1. /\ up \in Messages /\ down \in Answers /\ matches \in MatchList /\ Len(matches) \in Nat
      /\ Len(matches) <= MaxMatches
  BY DEF NumbersInOrder, Good, MatchList
<1>2. ASSUME handler \in Phases PROVE Begun(matches) /\ Goes(matches, matches)
  <2>1. Begun(matches)
    BY <1>2, Connected DEF OversKnown, Overs
  <2> QED
    BY <1>1, <2>1, GoesSame
<1>3. ASSUME NEW e, Untrue(e), handler \in Phases, UNCHANGED <<client, socket>>,
             down' = down \o e, Goes(matches, matches'), Len(matches') \in Nat
      PROVE  Tidings
  BY <1>3 DEF Tidings, Untrue
<1>4. ASSUME NEW e, Untrue(e), handler \in Phases, UNCHANGED <<client, socket>>,
             down' = down \o e, matches' = matches
      PROVE  Tidings
  BY <1>1, <1>2, <1>3, <1>4
<1>5. /\ 0 \in 0 .. MaxMatches /\ TRUE \in BOOLEAN
      /\ NextMatch <= MaxMatches => NextMatch \in 0 .. MaxMatches
  BY <1>1, QtClientAssumption DEF NextMatch
<1>6. ASSUME NEW type, Serves(type), Rejects
      PROVE  Tidings
  BY <1>4, <1>5, <1>6, ServedPhase, UntrueAnswers DEF Rejects, Tells
<1>7. CASE ServeAuth
  <2>1. Serves("AuthRequest") /\ down' = down \o <<Says("AuthResult", 0, TRUE)>> /\ matches' = matches
    BY <1>7 DEF ServeAuth, Tells
  <2> QED
    BY <1>4, <1>5, <2>1, ServedPhase, UntrueAnswers
<1>8. CASE ServeCreate \/ ServeJoin
  <2>1. PICK type \in {"CreateMatch", "JoinMatch"}, started \in BOOLEAN :
          /\ Serves(type)
          /\ \/ Rejects
             \/ /\ NextMatch <= MaxMatches
                /\ matches' = Append(matches, NewMatch(started))
                /\ \/ down' = down \o <<Says("MatchJoined", NextMatch, TRUE)>>
                   \/ down' = down \o Begins(NextMatch)
    BY <1>8 DEF ServeCreate, ServeJoin, Tells
  <2>2. handler = "Authenticated" /\ handler \in Phases /\ UNCHANGED <<client, socket>>
    BY <2>1, ServedPhase
  <2>3. matches = <<>>
    BY <2>2 DEF InStep, Behind
  <2> DEFINE nm == NewMatch(started)
  <2>4. nm.started => nm.ticking
    BY DEF NewMatch
  <2>5. CASE /\ NextMatch <= MaxMatches
             /\ matches' = Append(matches, nm)
             /\ \/ down' = down \o <<Says("MatchJoined", NextMatch, TRUE)>>
                \/ down' = down \o Begins(NextMatch)
    <3> HIDE DEF nm
    <3>1. Len(matches') = 1 /\ matches'[1] = nm
      BY <2>3, <2>5
    <3>2. Goes(matches, matches')
      BY <2>3, <2>4, <3>1, GoesFirst
    <3>3. NextMatch \in 0 .. MaxMatches
      BY <1>5, <2>5
    <3>4. Untrue(<<Says("MatchJoined", NextMatch, TRUE)>>) /\ Untrue(Begins(NextMatch))
      BY <3>3, UntrueAnswers
    <3>5. Len(matches') \in Nat
      BY <3>1
    <3> QED
      BY <1>3, <2>2, <2>5, <3>2, <3>4, <3>5
  <2> QED
    BY <1>6, <2>1, <2>5
<1>9. CASE ServeStartNext
  <2>1. Serves("StartNextMatch") /\ (Rejects \/ Rematch(Head(up).match))
    BY <1>9 DEF ServeStartNext
  <2>2. handler \in Phases /\ UNCHANGED <<client, socket>>
    BY <2>1, ServedPhase
  <2>3. CASE Rematch(Head(up).match)
    <3>1. /\ Goes(matches, matches') /\ Len(matches') \in Nat
          /\ down' = down \o Begins(NextMatch) /\ NextMatch <= MaxMatches
      BY <1>2, <2>2, <2>3, RematchGoes
    <3>2. Untrue(Begins(NextMatch))
      BY <1>5, <3>1, UntrueAnswers
    <3> QED
      BY <1>3, <2>2, <3>1, <3>2
  <2> QED
    BY <1>6, <2>1, <2>3
<1>10. CASE ServeInput
  <2> DEFINE command == Head(up)
             m       == command.match
             taken   == matches[m].taken + 1
             asked   == Asked(matches[m], command)
  <2>1. /\ Serves("InputCommand") /\ down' = down \o <<Says("InputAck", m, Accepts(command))>>
        /\ \/ matches' = matches
           \/ matches' = [matches EXCEPT ![m].lastSeq = command.seq, ![m].taken = taken,
                                         ![m].asked = asked]
    BY <1>10 DEF ServeInput, Tells
  <2>2. handler \in Phases /\ UNCHANGED <<client, socket>> /\ command \in MessageRecord
    BY <2>1, ServedPhase
  <2>3. m \in 0 .. MaxMatches /\ Accepts(command) \in BOOLEAN
    BY <2>2 DEF MessageRecord, Accepts
  <2> DEFINE r == [matches[m] EXCEPT !.lastSeq = command.seq, !.taken = taken, !.asked = asked]
  <2>4. matches' = matches \/ matches' = [matches EXCEPT ![m] = r]
    BY <2>1
  <2> HIDE DEF taken, asked
  <2>5. /\ Len(matches') = Len(matches)
        /\ \A k \in 1 .. Len(matches) : /\ matches'[k].started = matches[k].started
                                        /\ matches'[k].over = matches[k].over
                                        /\ matches'[k].ticking = matches[k].ticking
    <3>1. \A k \in 1 .. Len(matches) : matches[k] \in MatchRecord
      BY <1>1 DEF MatchList
    <3>2. m \in 1 .. Len(matches) => r.started = matches[m].started /\ r.over = matches[m].over
                                      /\ r.ticking = matches[m].ticking
      BY <3>1 DEF MatchRecord
    <3> HIDE DEF r
    <3>3. /\ Len(matches') = Len(matches)
          /\ \A k \in 1 .. Len(matches) : matches'[k] = IF k = m /\ matches' # matches THEN r ELSE matches[k]
      BY <1>1, <2>4 DEF MatchList
    <3> QED
      BY <3>2, <3>3
  <2>6. Goes(matches, matches')
    BY <1>1, <1>2, <2>2, <2>5, GoesSame
  <2> QED
    BY <1>1, <1>3, <2>1, <2>2, <2>3, <2>5, <2>6, UntrueAnswers
<1>11. CASE ServePing
  <2>1. Serves("Ping") /\ down' = down \o <<Says("Pong", 0, TRUE)>> /\ matches' = matches
    BY <1>11 DEF ServePing, Tells
  <2> QED
    BY <1>4, <1>5, <2>1, ServedPhase, UntrueAnswers
<1>12. CASE ServePong
  <2>1. Serves("Pong") /\ down' = down \o <<>> /\ matches' = matches
    BY <1>1, <1>12, ConcatEmptySeq DEF ServePong, Answers
  <2> QED
    BY <1>4, <1>5, <2>1, ServedPhase, UntrueAnswers
<1>13. CASE Refuse
  <2>1. handler \in Phases /\ UNCHANGED <<client, socket, matches>> /\ down' = down \o <<ServerError>>
    BY <1>13 DEF Refuse, Ends
  <2> QED
    BY <1>4, <1>5, <2>1, UntrueAnswers
<1> QED
  BY <1>7, <1>8, <1>9, <1>10, <1>11, <1>12, <1>13 DEF HandlerReads

\* The server does something.
LEMMA ServerTidings ==
  ASSUME NumbersInOrder, InStep, OversKnown, Server
  PROVE  Tidings
<1>1. /\ up \in Messages /\ down \in Answers /\ matches \in MatchList /\ Len(matches) \in Nat
      /\ Len(matches) <= MaxMatches
  BY DEF NumbersInOrder, Good, MatchList
<1>2. ASSUME handler \in Phases PROVE Begun(matches) /\ Goes(matches, matches)
  <2>1. Begun(matches)
    BY <1>2, Connected DEF OversKnown, Overs
  <2> QED
    BY <1>1, <2>1, GoesSame
<1>3. ASSUME NEW e, Untrue(e), handler \in Phases, UNCHANGED <<client, socket>>,
             down' = down \o e, Goes(matches, matches'), Len(matches') \in Nat
      PROVE  Tidings
  BY <1>3 DEF Tidings, Untrue
<1>4. ASSUME NEW e, Untrue(e), handler \in Phases, UNCHANGED <<client, socket>>,
             down' = down \o e, matches' = matches
      PROVE  Tidings
  BY <1>1, <1>2, <1>3, <1>4
<1>5. Untrue(<<>>) /\ Untrue(<<ServerError>>) /\ Untrue(<<Says("Ping", 0, TRUE)>>)
  <2>1. 0 \in 0 .. MaxMatches /\ TRUE \in BOOLEAN
    BY QtClientAssumption
  <2> QED
    BY <2>1, UntrueAnswers
<1>6. CASE HandshakeTimeout \/ CloseSession
  <2>1. PICK e \in {<<ServerError>>, <<>>} : Ends(e)
    BY <1>6 DEF HandshakeTimeout, CloseSession
  <2>2. Untrue(e)
    BY <1>5, <2>1
  <2> QED
    BY <1>4, <2>1, <2>2 DEF Ends
<1>7. CASE PingIdle
  BY <1>4, <1>5, <1>7, QtClientAssumption DEF PingIdle, Tells
<1>8. ASSUME NEW m \in DOMAIN matches
      PROVE  m \in 1 .. Len(matches) /\ m \in 0 .. MaxMatches /\ matches[m] \in MatchRecord
  BY <1>1, QtClientAssumption DEF MatchList
<1>9. ASSUME NEW m \in DOMAIN matches, TickMatch(m)
      PROVE  Tidings
  <2>1. handler \in Phases /\ UNCHANGED <<client, socket>> /\ matches[m].ticking
    BY <1>9 DEF TickMatch
  <2>2. PICK over \in BOOLEAN, snapshot \in BOOLEAN :
          LET now == matches[m].over \/ over
          IN  /\ matches' = [matches EXCEPT ![m].over = now, ![m].taken = 0]
              /\ Tells(IF snapshot THEN <<Says("Snapshot", m, now)>> ELSE <<>>)
    BY <1>9 DEF TickMatch
  <2> DEFINE now  == matches[m].over \/ over
             zero == 0
             x    == Says("Snapshot", m, now)
             r    == [matches[m] EXCEPT !.over = now, !.taken = zero]
  <2>3. now \in BOOLEAN /\ (matches[m].over => now)
    OBVIOUS
  <2>4. /\ matches' = [matches EXCEPT ![m] = r]
        /\ down' = down \o <<>> \/ down' = down \o <<x>>
    BY <2>2 DEF Tells
  <2> HIDE DEF now, zero
  <2>5. r.over = now /\ r.ticking = matches[m].ticking /\ r.started = matches[m].started
    BY <1>8 DEF MatchRecord
  <2> HIDE DEF r
  <2>6. /\ Len(matches') = Len(matches) /\ matches'[m] = r
        /\ \A k \in 1 .. Len(matches) : k # m => matches'[k] = matches[k]
    BY <1>1, <1>8, <2>4 DEF MatchList
  <2>7. Goes(matches, matches') /\ (r.over => \A k \in 1 .. Len(matches) : Elsewhere(matches', k))
    <3> DEFINE ns == matches'
    <3>1. /\ Len(ns) = Len(matches) /\ ns[m] = r
          /\ \A k \in 1 .. Len(matches) : k # m => ns[k] = matches[k]
      BY <2>6
    <3> HIDE DEF ns
    <3>2. Goes(matches, ns) /\ (ns[m].over => \A k \in 1 .. Len(matches) : Elsewhere(ns, k))
      BY <1>1, <1>2, <1>8, <2>1, <2>3, <2>5, <3>1, GoesTicked
    <3> QED
      BY <3>1, <3>2 DEF ns
  <2>8. x \in ServerRecord /\ x.type = "Snapshot" /\ x.yes = now
    <3>1. "Snapshot" \in ServerTypes
      BY DEF ServerTypes
    <3>2. x \in ServerRecord /\ x.type = "Snapshot"
      BY <1>8, <2>3, <3>1, SaysSound
    <3> QED
      BY <3>2 DEF Says
  <2> HIDE DEF x
  <2>9. CASE down' = down \o <<>>
    BY <1>1, <1>3, <1>5, <2>1, <2>6, <2>7, <2>9
  <2>10. CASE down' = down \o <<x>> /\ ~now
    <3>1. Untrue(<<x>>)
      BY <2>8, <2>10, UntrueLists DEF IsFinal
    <3> QED
      BY <1>1, <1>3, <2>1, <2>6, <2>7, <2>10, <3>1
  <2>11. CASE down' = down \o <<x>> /\ now
    <3>1. Quiet(<<x>>)
      BY <2>8, QuietLists DEF IsJoined
    <3>2. <<x>> \in Answers
      BY <3>1 DEF Quiet
    <3>3. \A k \in 1 .. Len(matches) : Elsewhere(matches', k)
      BY <2>5, <2>7, <2>11
    <3>4. Len(matches') \in Nat
      BY <1>1, <2>6
    <3> QED
      BY <2>1, <2>7, <2>11, <3>1, <3>2, <3>3, <3>4 DEF Tidings
  <2> QED
    BY <2>4, <2>9, <2>10, <2>11
<1>10. ASSUME NEW m \in DOMAIN matches, OpponentJoins(m)
      PROVE  Tidings
  <2> DEFINE yes == TRUE
             r   == [matches[m] EXCEPT !.started = yes, !.ticking = yes]
  <2>1. /\ handler \in Phases /\ UNCHANGED <<client, socket>>
        /\ matches' = [matches EXCEPT ![m] = r]
        /\ down' = down \o <<Says("Snapshot", m, FALSE)>>
    BY <1>10 DEF OpponentJoins, Tells
  <2>2. Untrue(<<Says("Snapshot", m, FALSE)>>)
    BY <1>8, UntrueAnswers
  <2>3. r.started /\ r.ticking /\ r.over = matches[m].over
    BY <1>8 DEF MatchRecord
  <2> HIDE DEF yes, r
  <2>4. /\ Len(matches') = Len(matches) /\ matches'[m] = r
        /\ \A k \in 1 .. Len(matches) : k # m => matches'[k] = matches[k]
    BY <1>1, <1>8, <2>1 DEF MatchList
  <2>5. Goes(matches, matches')
    <3> DEFINE ns == matches'
    <3>1. /\ Len(ns) = Len(matches) /\ ns[m] = r
          /\ \A k \in 1 .. Len(matches) : k # m => ns[k] = matches[k]
      BY <2>4
    <3> HIDE DEF ns
    <3>2. Goes(matches, ns)
      BY <1>1, <1>2, <1>8, <2>1, <2>3, <3>1, GoesStarted
    <3> QED
      BY <3>2 DEF ns
  <2> QED
    BY <1>1, <1>3, <2>1, <2>2, <2>4, <2>5
<1>11. ASSUME NEW m \in DOMAIN matches, OpponentStartsNext(m)
      PROVE  Tidings
  <2>1. handler \in Phases /\ UNCHANGED <<client, socket>> /\ Rematch(m)
    BY <1>11 DEF OpponentStartsNext
  <2>2. /\ Goes(matches, matches') /\ Len(matches') \in Nat
        /\ down' = down \o Begins(NextMatch) /\ NextMatch <= MaxMatches
    BY <1>2, <2>1, RematchGoes
  <2>3. NextMatch \in 0 .. MaxMatches
    BY <1>1, <2>2, QtClientAssumption DEF NextMatch
  <2>4. Untrue(Begins(NextMatch))
    BY <2>3, UntrueAnswers
  <2> QED
    BY <1>3, <2>1, <2>2, <2>4
<1> QED
  BY HandlerTidings, <1>6, <1>7, <1>9, <1>10, <1>11 DEF Server

\* Every step keeps what is known of matches that are over.
LEMMA NextOvers == NumbersInOrder /\ InStep /\ OversKnown /\ [Next]_vars => OversKnown'
<1> SUFFICES ASSUME NumbersInOrder, InStep, OversKnown, [Next]_vars PROVE OversKnown'
  OBVIOUS
<1>1. ASSUME \E x : Acts(x) PROVE OversKnown'
  BY <1>1 DEF Acts, OversKnown, Overs
<1>2. ASSUME ConnectFails \/ ConnectionEnds \/ SocketCloses \/ ReadError PROVE OversKnown'
  BY <1>2, GoneEffect DEF Unconnected, OversKnown
<1>3. CASE Player
  <2>1. ASSUME NEW name \in Names, Connect(name) PROVE OversKnown'
    <3>1. down' = <<>> /\ matches' = <<>> /\ client'.match = 0
      BY <2>1, ConnectInStep
    <3>2. \A i \in 1 .. Len(<<>>) : FALSE
      OBVIOUS
    <3> QED
      BY <3>1, <3>2, OversAlone DEF OversKnown
  <2>2. CASE DisconnectFromServer \/ CreateMatch \/ StartNextMatch \/ SendAction
             \/ \E code \in Codes : JoinMatch(code)
    BY <1>1, <2>2, ClientActs
  <2>3. ASSUME NEW key \in Keys, PressKey(key) \/ ReleaseKey(key)
        PROVE  OversKnown'
    <3>1. client.keys \in SUBSET Keys
      BY DEF NumbersInOrder, Good, ClientRecord
    <3>2. client.keys \cup {key} \in SUBSET Keys /\ client.keys \ {key} \in SUBSET Keys
      BY <3>1
    <3>3. \E keys \in SUBSET Keys : KeysChange(keys)
      BY <2>3, <3>2 DEF PressKey, ReleaseKey
    <3> QED
      BY <1>1, <3>3, ClientActs
  <2> QED
    BY <1>3, <2>1, <2>2, <2>3 DEF Player
<1>4. CASE Timers
  BY <1>1, <1>4, ClientActs DEF Timers
<1>5. CASE Network
  <2>1. CASE Established
    <3>1. socket = "Connecting"
      BY <2>1 DEF Established
    <3>2. client.match = 0
      BY <3>1 DEF NumbersInOrder, Good
    <3>3. /\ matches' = <<>> /\ client'.match = 0
          /\ \A i \in 1 .. Len(down') : ~IsFinal(down'[i])
      BY <2>1, <3>2, EstablishedInStep DEF IsFinal
    <3> QED
      BY <3>3, OversAlone DEF OversKnown
  <2> QED
    BY <1>2, <1>5, <2>1 DEF Network
<1>6. CASE ClientReads /\ ~ReadError
  <2>1. /\ down \in Answers /\ down # <<>> /\ down' = Tail(down)
        /\ socket \in {"Connected", "Closing"} /\ UNCHANGED <<socket, handler, matches>>
        /\ Heard(Head(down))
    BY <1>6, HeardEffect DEF NumbersInOrder, Good
  <2>2. \/ client'.match = client.match /\ (client'.over => client.over)
        \/ client'.match = client.match /\ client'.over /\ IsFinal(Head(down))
        \/ client'.match = Head(down).match /\ ~client'.over /\ IsJoined(Head(down))
    BY <2>1 DEF Heard, IsFinal
  <2>3. Overs(client', Tail(down), matches)
    BY <2>1, <2>2, OversRead DEF OversKnown
  <2> QED
    BY <2>1, <2>3 DEF OversKnown
<1>7. CASE Server
  BY <1>7, ServerTidings, TidingsKeep
<1>8. CASE UNCHANGED vars
  BY <1>8 DEF vars, OversKnown, Overs
<1> QED
  BY <1>2, <1>3, <1>4, <1>5, <1>6, <1>7, <1>8 DEF Next, ClientReads

\* What the client knows of matches that are over is true in every state that is reached.
LEMMA OversHold == Spec => []OversKnown
<1>1. Init => OversKnown
  BY DEF Init, OversKnown
<1> QED
  BY <1>1, NextOvers, InStepHolds, InOrderHolds, PTL DEF Spec

\* If at most one match ticks, the client's is over when it is offered the next.
LEMMA OversAreOffered == NumbersInOrder /\ InStep /\ OversKnown => OfferedOnlyWhenOver
<1> SUFFICES ASSUME NumbersInOrder, InStep, OversKnown,
                    NextIsOffered, socket = "Connected", Cardinality(TickingMatches) <= 1,
                    ~matches[client.match].over
             PROVE  FALSE
  BY DEF OfferedOnlyWhenOver
<1> DEFINE k == client.match
<1>1. matches \in MatchList /\ Len(matches) \in Nat /\ client \in ClientRecord
  BY DEF NumbersInOrder, Good, MatchList
<1>2. client.over /\ k # 0
  BY DEF NextIsOffered, InStep
<1>3. k \in 1 .. Len(matches)
  <2>1. Core(client, up, down, matches)
    BY DEF NumbersInOrder, Good
  <2> QED
    BY <1>1, <1>2, <2>1 DEF ClientRecord, Core, Numbered
<1>4. Begun(matches) /\ Elsewhere(matches, k)
  BY <1>2 DEF OversKnown, Overs
<1>5. PICK x \in 1 .. Len(matches) : x # k /\ matches[x].ticking
  BY <1>4 DEF Elsewhere
<1>6. matches[k].ticking
  <2>1. Len(matches) # 1
    BY <1>3, <1>5
  <2> QED
    BY <1>3, <1>4, <2>1 DEF Begun
<1>7. IsFiniteSet(TickingMatches)
  <2>1. IsFiniteSet(1 .. Len(matches))
    BY <1>1, FS_Interval
  <2>2. TickingMatches \in SUBSET (1 .. Len(matches))
    BY <1>1 DEF TickingMatches, MatchList
  <2> QED
    BY <2>1, <2>2, FS_Subset
<1>8. {k} \cup {x} \in SUBSET TickingMatches
  BY <1>1, <1>3, <1>5, <1>6 DEF TickingMatches, MatchList
<1>9. IsFiniteSet({k} \cup {x}) /\ Cardinality({k} \cup {x}) = 2
  <2>1. IsFiniteSet({k}) /\ Cardinality({k}) = 1
    BY FS_Singleton
  <2>2. x \notin {k} /\ 1 + 1 = 2
    BY <1>5
  <2> QED
    BY <2>1, <2>2, FS_AddElement
<1>10. Cardinality({k} \cup {x}) <= Cardinality(TickingMatches)
  BY <1>7, <1>8, FS_Subset
<1>11. Cardinality(TickingMatches) \in Nat
  BY <1>7, FS_CardinalityType
<1> QED
  BY <1>9, <1>10, <1>11

(***************************************************************************)
(* The next match is offered only of a match that is over, unless two      *)
(* rematches of one match tick at once: however snapshots and rematches of *)
(* either player follow each other, and however late the client reads.     *)
(***************************************************************************)
THEOREM OfferedOnlyAfterTheEnd == Spec => []OfferedOnlyWhenOver
<1> QED
  BY OversAreOffered, OversHold, InStepHolds, InOrderHolds, PTL

----------------------------------------------------------------------------
(***************************************************************************)
(* What the hero follows.  While the client counts a direction as sent,    *)
(* the last command to its match that steers has that direction, on its    *)
(* way or taken; or the client is about to hear that one was rejected, or  *)
(* of another match; or the match is over.                                 *)
(***************************************************************************)
Steers(message, k) == IsInput(message) /\ message.match = k /\ message.kind \in {"move", "stop"}
Turn(message) == IF message.kind = "stop" THEN Still ELSE message.dir

Steered(u, k, dir) ==
  \E i \in 1 .. Len(u) : /\ Steers(u[i], k) /\ Turn(u[i]) = dir
                         /\ \A j \in i + 1 .. Len(u) : ~Steers(u[j], k)
Steady(u, k) == \A i \in 1 .. Len(u) : ~Steers(u[i], k)

IsRefusal(message) == message.type = "InputAck" /\ ~message.yes

Excused(d, ms, k) ==
  \/ \E i \in 1 .. Len(d) : IsJoined(d[i]) \/ IsRefusal(d[i])
  \/ ms[k].over

Led(u, d, ms, k, dir) ==
  Excused(d, ms, k) \/ Steered(u, k, dir) \/ (Steady(u, k) /\ ms[k].asked = dir)

Held(c) ==
  c.ctl.desired = MoveDirection(c.keys) /\ c.ctl.last \in {c.ctl.desired, NotSent}

FollowsKeys ==
  /\ Held(client)
  /\ (socket = "Connected" /\ client.state = "InMatch" /\ handler = "InMatch"
        /\ client.ctl.last # NotSent)
       => Led(up, down, matches, client.match, client.ctl.last)

\* Something is sent that does not steer, or steers to where is counted as sent.
LEMMA LedPost ==
  ASSUME NEW u \in Messages, NEW d, NEW ms, NEW k, NEW dir, NEW x \in MessageRecord,
         IF Steers(x, k) THEN Turn(x) = dir ELSE Led(u, d, ms, k, dir)
  PROVE  Led(Append(u, x), d, ms, k, dir)
<1> DEFINE v == Append(u, x)
<1>1. /\ Len(u) \in Nat /\ Len(v) = Len(u) + 1 /\ v[Len(u) + 1] = x
      /\ \A i \in 1 .. Len(u) : v[i] = u[i]
  BY AppendProperties DEF Messages
<1> HIDE DEF v
<1>2. CASE Steers(x, k)
  <2>1. Len(v) \in 1 .. Len(v) /\ v[Len(v)] = x /\ \A j \in Len(v) + 1 .. Len(v) : FALSE
    BY <1>1
  <2>2. Steered(v, k, dir)
    BY <1>2, <2>1 DEF Steered
  <2> QED
    BY <2>2 DEF Led, v
<1>3. CASE ~Steers(x, k)
  <2>1. Led(u, d, ms, k, dir)
    BY <1>3
  <2>2. ASSUME Steady(u, k) PROVE Steady(v, k)
    <3>1. \A i \in 1 .. Len(v) : i \in 1 .. Len(u) \/ v[i] = x
      BY <1>1
    <3> QED
      BY <1>1, <1>3, <2>2, <3>1 DEF Steady
  <2>3. ASSUME Steered(u, k, dir) PROVE Steered(v, k, dir)
    <3>1. PICK i \in 1 .. Len(u) : /\ Steers(u[i], k) /\ Turn(u[i]) = dir
                                   /\ \A j \in i + 1 .. Len(u) : ~Steers(u[j], k)
      BY <2>3 DEF Steered
    <3>2. i \in 1 .. Len(v) /\ v[i] = u[i]
      BY <1>1
    <3>3. \A j \in i + 1 .. Len(v) : \/ j \in i + 1 .. Len(u) /\ v[j] = u[j]
                                     \/ v[j] = x
      BY <1>1
    <3> QED
      BY <1>3, <3>1, <3>2, <3>3 DEF Steered
  <2> QED
    BY <2>1, <2>2, <2>3 DEF Led, v
<1> QED
  BY <1>2, <1>3

\* The client reads what is neither a refusal nor another match.
LEMMA LedRead ==
  ASSUME NEW u, NEW d \in Answers, NEW ms, NEW k, NEW dir, Led(u, d, ms, k, dir), d # <<>>,
         ~IsJoined(Head(d)), ~IsRefusal(Head(d))
  PROVE  Led(u, Tail(d), ms, k, dir)
<1>1. /\ Head(d) = d[1]
      /\ \A i \in 1 .. Len(d) : i = 1 \/ (i - 1 \in 1 .. Len(Tail(d)) /\ Tail(d)[i - 1] = d[i])
  BY TailKeeps DEF Answers
<1> DEFINE t == Tail(d)
<1> HIDE DEF t
<1>2. ASSUME NEW i \in 1 .. Len(d), IsJoined(d[i]) \/ IsRefusal(d[i])
      PROVE  \E j \in 1 .. Len(t) : IsJoined(t[j]) \/ IsRefusal(t[j])
  <2>1. i # 1
    BY <1>1, <1>2
  <2>2. i - 1 \in 1 .. Len(t) /\ t[i - 1] = d[i]
    BY <1>1, <2>1 DEF t
  <2> QED
    BY <1>2, <2>2
<1>3. Excused(d, ms, k) => Excused(t, ms, k)
  BY <1>2 DEF Excused
<1> QED
  BY <1>3 DEF Led, t

\* The server answers e.
LEMMA LedTold ==
  ASSUME NEW u, NEW d \in Answers, NEW e \in Answers, NEW ms, NEW ns, NEW k, NEW dir,
         Led(u, d, ms, k, dir), ms[k].over => ns[k].over, ns[k].asked = ms[k].asked
  PROVE  Led(u, d \o e, ns, k, dir)
<1> DEFINE w == d \o e
<1>1. /\ Len(d) \in Nat /\ Len(e) \in Nat /\ Len(w) = Len(d) + Len(e)
      /\ \A i \in 1 .. Len(d) + Len(e) : w[i] = IF i <= Len(d) THEN d[i] ELSE e[i - Len(d)]
  BY ConcatProperties DEF Answers
<1> HIDE DEF w
<1>2. \A i \in 1 .. Len(d) : i \in 1 .. Len(w) /\ w[i] = d[i]
  BY <1>1
<1>3. Excused(d, ms, k) => Excused(w, ns, k)
  BY <1>2 DEF Excused
<1> QED
  BY <1>3 DEF Led, w

\* A message is read: it does not steer, or it is rejected, or it is followed.
LEMMA LedServed ==
  ASSUME NEW u \in Messages, u # <<>>, NEW d, NEW ms, NEW ns, NEW k, NEW dir,
         Led(u, d, ms, k, dir), ms[k].over => ns[k].over,
         IF Steers(Head(u), k) THEN ns[k].over \/ ns[k].asked = Turn(Head(u))
                               ELSE ns[k].asked = ms[k].asked
  PROVE  Led(Tail(u), d, ns, k, dir)
<1> DEFINE t == Tail(u)
<1>1. /\ Len(t) = Len(u) - 1 /\ Len(u) \in Nat \ {0} /\ Head(u) = u[1]
      /\ \A i \in 1 .. Len(t) : t[i] = u[i + 1]
  BY HeadTailProperties DEF Messages
<1> HIDE DEF t
<1>2. CASE Excused(d, ms, k)
  BY <1>2 DEF Excused, Led
<1>3. CASE Steady(u, k) /\ ms[k].asked = dir
  <2>1. 1 \in 1 .. Len(u) /\ \A i \in 1 .. Len(t) : i + 1 \in 1 .. Len(u)
    BY <1>1
  <2>2. Steady(t, k) /\ ~Steers(Head(u), k)
    BY <1>1, <1>3, <2>1 DEF Steady
  <2> QED
    BY <1>3, <2>2 DEF Led, t
<1>4. CASE Steered(u, k, dir)
  <2>1. PICK i \in 1 .. Len(u) : /\ Steers(u[i], k) /\ Turn(u[i]) = dir
                                 /\ \A j \in i + 1 .. Len(u) : ~Steers(u[j], k)
    BY <1>4 DEF Steered
  <2>2. CASE i = 1
    <3>1. \A j \in 1 .. Len(t) : j + 1 \in 1 + 1 .. Len(u)
      BY <1>1
    <3>2. Steady(t, k)
      BY <1>1, <2>1, <2>2, <3>1 DEF Steady
    <3>3. ns[k].over \/ ns[k].asked = dir
      BY <1>1, <2>1, <2>2
    <3> QED
      BY <3>2, <3>3 DEF Led, Excused, t
  <2>3. CASE i # 1
    <3>1. i - 1 \in 1 .. Len(t) /\ (i - 1) + 1 = i
      BY <1>1, <2>3
    <3>2. t[i - 1] = u[i]
      BY <1>1, <3>1
    <3>3. \A j \in (i - 1) + 1 .. Len(t) : j \in 1 .. Len(t) /\ j + 1 \in i + 1 .. Len(u)
      BY <1>1, <2>3
    <3>4. Steered(t, k, dir)
      BY <1>1, <2>1, <3>1, <3>2, <3>3 DEF Steered
    <3> QED
      BY <3>4 DEF Led, t
  <2> QED
    BY <2>2, <2>3
<1> QED
  BY <1>2, <1>3, <1>4 DEF Led

\* A command that steers is valid in a match.
LEMMA SteeringIsValid ==
  ASSUME NEW m, NEW seq \in Nat, NEW kind, NEW dir \in Direction,
         kind = "stop" \/ (kind = "move" /\ dir # Still)
  PROVE  IsValid(InputCommand(m, seq, kind, dir), "InMatch")
<1> DEFINE message == InputCommand(m, seq, kind, dir)
           id      == Text("id", 1)
           word    == Text(kind, 4)
           x       == Number(dir[1])
           y       == Number(dir[2])
           way     == [x |-> x, y |-> y]
           command == CommandFields(message)
           fields  == [matchId |-> id, command |-> Object(command)]
<1>1. Payload(message) = fields /\ message.type = "InputCommand" /\ message.seq = seq
  BY DEF Payload, InputCommand
<1>2. command = IF kind = "move" THEN [kind |-> word, direction |-> Object(way)]
                                 ELSE [kind |-> word]
  BY DEF CommandFields, InputCommand
<1>3. /\ id.type = "String" /\ id.size = 1
      /\ word.type = "String" /\ word.size = 4 /\ word.text = kind
      /\ x.type = "Integer" /\ x.size = 0 /\ x.int = dir[1]
      /\ y.type = "Integer" /\ y.size = 0 /\ y.int = dir[2]
  BY DEF Text, Number, Value
<1>4. \A f : Object(f).type = "Object" /\ Object(f).size = 0 /\ Object(f).fields = f
  BY DEF Object, Value
<1> HIDE DEF message, id, word, x, y
<1>5. DOMAIN way = {"x", "y"} /\ way["x"] = x /\ way["y"] = y
  OBVIOUS
<1> HIDE DEF way
<1>6. Readable(way) = "None"
  BY <1>3, <1>5 DEF Readable, MaxStringBytes
<1>7. ASSUME dir # Still PROVE ValidDirection(way) = "None"
  <2>1. dir[1] \in -1 .. 1 /\ dir[2] \in -1 .. 1 /\ <<dir[1], dir[2]>> # <<0, 0>>
    BY <1>7 DEF Direction, Still
  <2> QED
    BY <1>3, <1>5, <2>1 DEF ValidDirection
<1>8. /\ DOMAIN command = IF kind = "move" THEN {"kind", "direction"} ELSE {"kind"}
      /\ command["kind"] = word
      /\ kind = "move" => command["direction"] = Object(way)
  BY <1>2
<1> HIDE DEF command
<1>9. Readable(command) = "None"
  BY <1>3, <1>4, <1>8 DEF Readable, MaxStringBytes
<1>10. ClaimsNoAuthority(command) = "None"
  <2>1. {"kind", "direction"} \cap AuthorityFields = {}
    BY DEF AuthorityFields
  <2>2. AuthorityFields \cap DOMAIN command = {}
    BY <1>8, <2>1
  <2> QED
    BY <2>2 DEF ClaimsNoAuthority
<1>11. RequireString(command, "kind", 32) = "None"
  BY <1>3, <1>8 DEF RequireString
<1>12. ASSUME kind = "move" PROVE RequireObject(command, "direction") = "None"
  BY <1>4, <1>6, <1>8, <1>12 DEF RequireObject
<1>13. ValidCommand(command) = "None"
  <2>1. CASE kind = "stop"
    BY <1>3, <1>8, <1>10, <1>11, <2>1 DEF ValidCommand, First
  <2>2. CASE kind = "move" /\ dir # Still
    BY <1>3, <1>4, <1>7, <1>8, <1>10, <1>11, <1>12, <2>2 DEF ValidCommand, First
  <2> QED
    BY <2>1, <2>2
<1>14. /\ DOMAIN fields = {"matchId", "command"} /\ fields["matchId"] = id
       /\ fields["command"] = Object(command)
  OBVIOUS
<1> HIDE DEF fields
<1>15. Readable(fields) = "None"
  BY <1>3, <1>4, <1>14 DEF Readable, MaxStringBytes
<1>16. ValidInput(fields) = "None"
  <2>1. RequireString(fields, "matchId", 64) = "None"
    BY <1>3, <1>14 DEF RequireString
  <2>2. RequireObject(fields, "command") = "None"
    BY <1>4, <1>9, <1>14 DEF RequireObject
  <2> QED
    BY <1>4, <1>13, <1>14, <2>1, <2>2 DEF ValidInput, First
<1>17. ValidPayload("InputCommand", fields) = "None"
  BY <1>16 DEF ValidPayload
<1>18. PhaseAllows("InputCommand", "InMatch") /\ "InputCommand" \notin ServerTypes
  BY AllowedPhases DEF ServerTypes
<1>19. Verdict("InputCommand", seq, fields, "InMatch") = "None"
  <2>1. seq # NoSeq
    BY DEF NoSeq
  <2> QED
    BY <1>15, <1>17, <1>18, <2>1 DEF Verdict, First
<1> QED
  BY <1>1, <1>19 DEF IsValid, message

\* The keys and the direction of a client that leaves a match or stays.
LEMMA NoKeysAreHeld == MoveDirection({}) = Still /\ Reset.desired = Still /\ Reset.last = NotSent
BY DEF MoveDirection, One, Still, Reset

\* Going to a state keeps the controller, or resets it with the keys.
LEMMA HeldInState ==
  ASSUME NEW c \in ClientRecord, NEW state \in States, Held(c)
  PROVE  /\ Held(WithState(c, state))
         /\ (state = "InMatch" \/ c.state # "InMatch")
              => WithState(c, state).ctl = c.ctl /\ WithState(c, state).keys = c.keys
<1> DEFINE none == {}
           over == IF state = "InMatch" THEN c.over ELSE FALSE
           keys == IF c.state = "InMatch" /\ state # "InMatch" THEN none ELSE c.keys
           ctl  == IF c.state = "InMatch" /\ state # "InMatch" THEN Reset ELSE c.ctl
           w    == WithState(c, state)
<1>1. w = [c EXCEPT !.state = state, !.over = over, !.keys = keys, !.ctl = ctl]
  BY DEF WithState
<1>2. \/ keys = c.keys /\ ctl = c.ctl
      \/ keys = none /\ ctl = Reset /\ c.state = "InMatch" /\ state # "InMatch"
  OBVIOUS
<1>3. MoveDirection(none) = Still /\ Reset.desired = Still /\ Reset.last = NotSent
  BY NoKeysAreHeld
<1> HIDE DEF none, over, keys, ctl, w
<1>4. w.keys = keys /\ w.ctl = ctl
  BY <1>1 DEF ClientRecord
<1>5. Held(w)
  BY <1>2, <1>3, <1>4 DEF Held
<1> QED
  BY <1>2, <1>4, <1>5 DEF w

\* A step after which the client follows what it followed, if it does.
LEMMA FollowsStill ==
  ASSUME NumbersInOrder, FollowsKeys, Held(client'),
         client'.state = "InMatch" => /\ client.state = "InMatch" /\ client'.match = client.match
                                      /\ client'.ctl.last \in {client.ctl.last, NotSent},
         socket' = "Connected" => socket = "Connected", UNCHANGED <<down, handler, matches>>,
         \/ up' = up
         \/ \E x \in MessageRecord : ~Steers(x, client.match) /\ up' = Append(up, x)
  PROVE  FollowsKeys'
<1>1. up \in Messages
  BY DEF NumbersInOrder, Good
<1> SUFFICES ASSUME socket' = "Connected", client'.state = "InMatch", handler' = "InMatch",
                    client'.ctl.last # NotSent
             PROVE  Led(up', down', matches', client'.match, client'.ctl.last)
  BY DEF FollowsKeys
<1>2. Led(up, down, matches, client.match, client.ctl.last)
  BY DEF FollowsKeys
<1>3. client'.match = client.match /\ client'.ctl.last = client.ctl.last
  OBVIOUS
<1>4. Led(up', down, matches, client.match, client.ctl.last)
  BY <1>1, <1>2, LedPost
<1> QED
  BY <1>3, <1>4

\* A direction is sent, and counted as sent.
LEMMA FollowsSent ==
  ASSUME NumbersInOrder, InStep, NEW c \in ClientRecord, NEW kind \in {"move", "stop"},
         NEW dir \in Direction, kind = "move" <=> dir # Still,
         SendIntent(c, kind, dir), UNCHANGED <<socket, down, handler, matches>>,
         c.state = client.state, c.match = client.match, c.phase = client.phase,
         Held(c), c.ctl.last = dir
  PROVE  FollowsKeys'
<1> DEFINE x == InputCommand(c.match, c.seq, kind, dir)
<1>1. up \in Messages /\ c.match \in 0 .. MaxMatches /\ c.seq \in Nat
  BY DEF NumbersInOrder, Good, ClientRecord
<1>2. client' = c \/ client' = [c EXCEPT !.seq = @ + 1]
  BY DEF SendIntent
<1>3. /\ client'.state = c.state /\ client'.match = c.match /\ client'.ctl = c.ctl
      /\ client'.keys = c.keys
  BY <1>2 DEF ClientRecord
<1>4. Held(client')
  BY <1>3 DEF Held
<1> SUFFICES ASSUME socket' = "Connected", client'.state = "InMatch"
             PROVE  Led(up', down', matches', client'.match, client'.ctl.last)
  BY <1>4 DEF FollowsKeys
<1>5. c.match # 0 /\ c.phase = "InMatch" /\ c.state = "InMatch" /\ socket = "Connected"
  BY <1>3 DEF InStep
<1>6. x \in MessageRecord /\ Steers(x, c.match) /\ Turn(x) = dir
  <2>1. x \in MessageRecord /\ IsInput(x) /\ x.match = c.match
    BY <1>1, InputCommandSound
  <2>2. x.kind = kind /\ x.dir = dir
    BY DEF InputCommand
  <2> QED
    BY <2>1, <2>2 DEF Steers, Turn
<1>7. IsValid(x, c.phase)
  BY <1>1, <1>5, SteeringIsValid
<1>8. up' = up \o Sent(c, x)
  BY <1>5 DEF SendIntent, CanSendIntent
<1>9. up \o Sent(c, x) = up \o <<x>>
  BY <1>5, <1>7 DEF Sent
<1> HIDE DEF x
<1>10. up' = Append(up, x)
  BY <1>1, <1>8, <1>9, AppendIsConcat DEF Messages
<1>11. Led(Append(up, x), down, matches, c.match, dir)
  BY <1>1, <1>6, LedPost
<1> QED
  BY <1>3, <1>10, <1>11

\* A movement key changes, and the direction with it or not.
LEMMA FollowsKeysChange ==
  ASSUME NumbersInOrder, InStep, FollowsKeys, NEW keys \in SUBSET Keys, KeysChange(keys)
  PROVE  FollowsKeys'
<1> DEFINE dir == MoveDirection(keys)
<1>1. PICK due \in BOOLEAN :
        LET command == DesiredCommand(client.ctl, dir, due)
            changed == [client EXCEPT !.keys = keys, !.ctl = UpdateDesired(@, dir, due)]
        IN  /\ IF command = NoCommand THEN client' = changed /\ up' = up
               ELSE SendIntent(changed, command, dir)
            /\ UNCHANGED <<socket, down, handler, matches>>
  BY DEF KeysChange
<1> DEFINE command == DesiredCommand(client.ctl, dir, due)
           ctl     == UpdateDesired(client.ctl, dir, due)
           changed == [client EXCEPT !.keys = keys, !.ctl = ctl]
<1>2. client \in ClientRecord /\ client.ctl \in ControllerRecord /\ dir \in Direction
  BY DirectionOfKeys DEF NumbersInOrder, Good, ClientRecord
<1>3. /\ IF command = NoCommand THEN client' = changed /\ up' = up
         ELSE SendIntent(changed, command, dir)
      /\ UNCHANGED <<socket, down, handler, matches>>
  BY <1>1
<1>4. client.ctl.last \in {client.ctl.desired, NotSent}
  BY DEF FollowsKeys, Held
<1>5. dir = MoveDirection(keys)
  OBVIOUS
<1> HIDE DEF dir
<1>6. /\ command \in {NoCommand, "move", "stop"} /\ ctl \in ControllerRecord
      /\ ctl.desired = dir /\ ctl.last = IF command = NoCommand THEN client.ctl.last ELSE dir
  BY <1>2, ControllerSound DEF UpdateDesired
<1>7. /\ command = NoCommand => client.ctl.last \in {dir, NotSent}
      /\ command = "move" => dir # Still
      /\ command = "stop" => dir = Still
  BY DEF DesiredCommand, ShouldSendMove, NoCommand
<1>8. NoCommand \notin {"move", "stop"}
  BY DEF NoCommand
<1> HIDE DEF command, ctl
<1>9. /\ changed \in ClientRecord /\ changed.state = client.state /\ changed.match = client.match
      /\ changed.phase = client.phase /\ changed.keys = keys /\ changed.ctl = ctl
  BY <1>2, <1>6 DEF ClientRecord
<1> HIDE DEF changed
<1>10. Held(changed)
  BY <1>5, <1>6, <1>7, <1>9 DEF Held
<1>11. CASE command = NoCommand
  <2>1. client' = changed /\ up' = up /\ UNCHANGED <<socket, down, handler, matches>>
    BY <1>3, <1>11
  <2>2. client'.ctl.last = client.ctl.last
    BY <1>6, <1>9, <1>11, <2>1
  <2> QED
    BY <1>9, <1>10, <2>1, <2>2, FollowsStill
<1>12. CASE command # NoCommand
  <2>1. command \in {"move", "stop"} /\ (command = "move" <=> dir # Still)
    BY <1>6, <1>7, <1>12
  <2>2. changed.ctl.last = dir
    BY <1>6, <1>9, <1>12
  <2> QED
    BY <1>2, <1>3, <1>9, <1>10, <1>12, <2>1, <2>2, FollowsSent
<1> QED
  BY <1>11, <1>12

\* The held direction is sent again.
LEMMA FollowsPoll ==
  ASSUME NumbersInOrder, InStep, FollowsKeys, PollHeldMovement
  PROVE  FollowsKeys'
<1> DEFINE ctl == Polled(client.ctl)
           c   == [client EXCEPT !.ctl = ctl]
           dir == client.ctl.desired
<1>1. client \in ClientRecord /\ client.ctl \in ControllerRecord /\ dir \in Direction
  BY DEF NumbersInOrder, Good, ClientRecord, ControllerRecord
<1>2. /\ SendIntent(c, "move", dir) /\ UNCHANGED <<socket, down, handler, matches>>
      /\ dir # Still
  BY DEF PollHeldMovement, PollSends
<1>3. ctl \in ControllerRecord /\ ctl.desired = dir /\ ctl.last = dir
  BY <1>1 DEF Polled, ControllerRecord
<1>4. dir = MoveDirection(client.keys)
  BY DEF FollowsKeys, Held
<1> HIDE DEF ctl, dir
<1>5. /\ c \in ClientRecord /\ c.state = client.state /\ c.match = client.match
      /\ c.phase = client.phase /\ c.keys = client.keys /\ c.ctl = ctl
  BY <1>1, <1>3 DEF ClientRecord
<1> HIDE DEF c
<1>6. Held(c)
  BY <1>3, <1>4, <1>5 DEF Held
<1> QED
  BY <1>1, <1>2, <1>3, <1>5, <1>6, FollowsSent

\* What the client does besides.
LEMMA FollowsActs ==
  ASSUME NumbersInOrder, InStep, FollowsKeys,
         \/ DisconnectFromServer \/ CreateMatch \/ StartNextMatch \/ SendPing \/ SendAction
         \/ \E code \in Codes : JoinMatch(code)
  PROVE  FollowsKeys'
<1>1. /\ client \in ClientRecord /\ up \in Messages /\ 0 \in 0 .. MaxMatches /\ 0 \in Nat
      /\ client.match \in 0 .. MaxMatches /\ client.seq \in Nat /\ Held(client)
  BY QtClientAssumption DEF NumbersInOrder, Good, ClientRecord, FollowsKeys
<1>2. CASE DisconnectFromServer
  <2>1. PICK state \in {"Disconnected", "Disconnecting"} :
          client' = WithState(client, state)
    BY <1>2 DEF DisconnectFromServer
  <2>2. /\ up' = up /\ UNCHANGED <<down, handler, matches>>
        /\ socket' = IF socket = "Connected" THEN "Closing" ELSE socket
    BY <1>2 DEF DisconnectFromServer
  <2>3. state \in States
    BY DEF States
  <2>4. Held(client') /\ client'.state = state
    BY <1>1, <2>1, <2>3, HeldInState, WithStateSound
  <2> QED
    BY <2>2, <2>4, FollowsStill
<1>3. ASSUME NEW x \in MessageRecord, ~Steers(x, client.match), Request(x)
      PROVE  FollowsKeys'
  <2>1. client' = client /\ UNCHANGED <<socket, down, handler, matches>> /\ up' = up \o Sent(client, x)
    BY <1>3 DEF Request
  <2>2. up' = up \/ up' = Append(up, x)
    BY <1>1, <2>1, PostedBySent
  <2> QED
    BY <1>1, <1>3, <2>1, <2>2, FollowsStill
<1>4. ASSUME NEW type \in ClientTypes, NEW bytes \in Nat, NEW m \in 0 .. MaxMatches,
             type # "InputCommand", Request(Sends(type, bytes, m))
      PROVE  FollowsKeys'
  BY <1>3, <1>4, SendsSound DEF Steers
<1>5. CASE CreateMatch \/ StartNextMatch \/ SendPing \/ \E code \in Codes : JoinMatch(code)
  <2>1. {"CreateMatch", "JoinMatch", "StartNextMatch", "Ping"} \subseteq ClientTypes
    BY DEF ClientTypes
  <2>2. CASE CreateMatch
    BY <1>1, <1>4, <2>1, <2>2 DEF CreateMatch
  <2>3. CASE StartNextMatch
    BY <1>1, <1>4, <2>1, <2>3 DEF StartNextMatch
  <2>4. CASE SendPing
    BY <1>1, <1>4, <2>1, <2>4 DEF SendPing
  <2>5. ASSUME NEW code \in Codes, JoinMatch(code) PROVE FollowsKeys'
    BY <1>1, <1>4, <2>1, <2>5, QtClientAssumption DEF JoinMatch
  <2> QED
    BY <1>5, <2>2, <2>3, <2>4, <2>5
<1>6. CASE SendAction
  <2> DEFINE way == <<0, -1>>
             x   == InputCommand(client.match, client.seq, "attack", way)
  <2>1. /\ SendIntent(client, "attack", way) /\ way \in Direction
        /\ UNCHANGED <<socket, down, handler, matches>>
    BY <1>6 DEF SendAction, Direction
  <2> HIDE DEF way
  <2>2. x \in MessageRecord
    BY <1>1, <2>1, InputCommandSound
  <2>3. ~Steers(x, client.match)
    BY DEF InputCommand, Steers
  <2>4. \/ client' = client /\ up' = up
        \/ client' = [client EXCEPT !.seq = @ + 1] /\ up' = up \o Sent(client, x)
    BY <2>1 DEF SendIntent
  <2>5. /\ client'.state = client.state /\ client'.match = client.match
        /\ client'.ctl = client.ctl /\ client'.keys = client.keys
    BY <1>1, <2>4 DEF ClientRecord
  <2> HIDE DEF x
  <2>6. up' = up \/ up' = Append(up, x)
    BY <1>1, <2>2, <2>4, PostedBySent
  <2>7. Held(client')
    BY <1>1, <2>5 DEF Held
  <2> QED
    BY <2>1, <2>2, <2>3, <2>5, <2>6, <2>7, FollowsStill
<1> QED
  BY <1>2, <1>5, <1>6

\* The client reads.
LEMMA FollowsRead ==
  ASSUME NumbersInOrder, InStep, FollowsKeys, ClientReads, ~ReadError
  PROVE  FollowsKeys'
<1> DEFINE e == Head(down)
<1>1. client \in ClientRecord /\ up \in Messages /\ down \in Answers /\ Held(client)
  BY DEF NumbersInOrder, Good, FollowsKeys
<1>2. /\ down # <<>> /\ down' = Tail(down) /\ socket \in {"Connected", "Closing"}
      /\ UNCHANGED <<socket, handler, matches>> /\ Heard(e)
      /\ \/ up' = up
         \/ /\ socket = "Connected" /\ up' = Append(up, Sends("Pong", 0, 0))
            /\ IsValid(Sends("Pong", 0, 0), client.phase)
  BY HeardEffect
<1>3. ASSUME client'.state = client.state, client'.match = client.match,
             client'.ctl = client.ctl, client'.keys = client.keys, ~IsJoined(e), ~IsRefusal(e)
      PROVE  FollowsKeys'
  <2>1. Held(client')
    BY <1>1, <1>3 DEF Held
  <2> SUFFICES ASSUME socket' = "Connected", client'.state = "InMatch", handler' = "InMatch",
                      client'.ctl.last # NotSent
               PROVE  Led(up', down', matches', client'.match, client'.ctl.last)
    BY <2>1 DEF FollowsKeys
  <2>2. Led(up, down, matches, client.match, client.ctl.last)
    BY <1>2, <1>3 DEF FollowsKeys
  <2>3. Led(up', down, matches, client.match, client.ctl.last)
    <3> DEFINE x == Sends("Pong", 0, 0)
    <3>1. x \in MessageRecord /\ ~Steers(x, client.match)
      <4>1. 0 \in 0 .. MaxMatches
        BY QtClientAssumption
      <4> QED
        BY <4>1, SendsSound DEF ClientTypes, Steers
    <3>2. up' = up \/ up' = Append(up, x)
      BY <1>2
    <3> HIDE DEF x
    <3> QED
      BY <1>1, <2>2, <3>1, <3>2, LedPost
  <2>4. Led(up', Tail(down), matches, client.match, client.ctl.last)
    BY <1>1, <1>2, <1>3, <2>3, LedRead
  <2> QED
    BY <1>2, <1>3, <2>4
<1>4. CASE ReadAuthResult
  <2> DEFINE phase == "Authenticated"
             c     == [client EXCEPT !.phase = phase]
  <2>1. client' = WithState(c, "Authenticated")
    BY <1>4 DEF ReadAuthResult
  <2>2. phase \in Phases /\ "Authenticated" \in States
    BY DEF Phases, States
  <2> HIDE DEF phase
  <2>3. c \in ClientRecord /\ c.ctl = client.ctl /\ c.keys = client.keys
    BY <1>1, <2>2 DEF ClientRecord
  <2> HIDE DEF c
  <2>4. Held(c)
    BY <1>1, <2>3 DEF Held
  <2>5. Held(client') /\ client'.state = "Authenticated"
    BY <2>1, <2>2, <2>3, <2>4, HeldInState, WithStateSound
  <2> QED
    BY <2>5 DEF FollowsKeys
<1>5. CASE ReadMatchJoined
  <2> DEFINE w     == WithState(client, "InMatch")
             k     == e.match
             none  == {}
             phase == "InMatch"
             one   == 1
             over  == FALSE
             ctl   == Reset
  <2>1. client' = [w EXCEPT !.phase = phase, !.match = k, !.seq = one, !.over = over,
                            !.keys = none, !.ctl = ctl]
    BY <1>5 DEF ReadMatchJoined, InJoined
  <2>2. w \in ClientRecord
    BY <1>1, WithStateSound DEF States
  <2>3. DOMAIN w = {"state", "phase", "match", "seq", "over", "keys", "ctl", "name"}
    BY <2>2 DEF ClientRecord
  <2>4. MoveDirection(none) = Still /\ ctl.desired = Still /\ ctl.last = NotSent
    BY NoKeysAreHeld
  <2> HIDE DEF w, k, none, phase, one, over, ctl
  <2>5. client'.keys = none /\ client'.ctl = ctl
    BY <2>1, <2>3
  <2> QED
    BY <2>4, <2>5 DEF FollowsKeys, Held
<1>6. CASE ReadSnapshot
  <2>1. client' = [client EXCEPT !.over = e.yes] /\ e.type = "Snapshot"
    BY <1>6 DEF ReadSnapshot, Hears, Reads
  <2> HIDE DEF e
  <2>2. /\ client'.state = client.state /\ client'.match = client.match
        /\ client'.ctl = client.ctl /\ client'.keys = client.keys
    BY <1>1, <2>1 DEF ClientRecord
  <2> QED
    BY <1>3, <2>1, <2>2 DEF IsJoined, IsRefusal
<1>7. CASE ReadInputAck
  <2>1. /\ client' = IF e.yes THEN client ELSE [client EXCEPT !.ctl = MarkRejected(@)]
        /\ e.type = "InputAck"
    BY <1>7 DEF ReadInputAck, Hears, Reads
  <2> HIDE DEF e
  <2>2. CASE e.yes
    BY <1>3, <2>1, <2>2 DEF IsJoined, IsRefusal
  <2>3. CASE ~e.yes
    <3> DEFINE ctl == MarkRejected(client.ctl)
    <3>1. client' = [client EXCEPT !.ctl = ctl]
      BY <2>1, <2>3
    <3>2. ctl.desired = client.ctl.desired /\ ctl.last = NotSent
      BY <1>1 DEF MarkRejected, ClientRecord, ControllerRecord
    <3> HIDE DEF ctl
    <3>3. client'.ctl = ctl /\ client'.keys = client.keys
      BY <1>1, <3>1 DEF ClientRecord
    <3>4. Held(client') /\ client'.ctl.last = NotSent
      BY <1>1, <3>2, <3>3 DEF Held
    <3> QED
      BY <3>4 DEF FollowsKeys
  <2> QED
    BY <2>2, <2>3
<1>8. CASE ReadPing \/ ReadPong
  <2>1. client' = client /\ e.type \in {"Ping", "Pong"}
    BY <1>8 DEF ReadPing, ReadPong, Hears, Reads
  <2> QED
    BY <1>3, <2>1 DEF IsJoined, IsRefusal
<1> QED
  BY <1>4, <1>5, <1>6, <1>7, <1>8 DEF ClientReads

\* The client's connection begins or ends.
LEMMA FollowsConnection ==
  ASSUME NumbersInOrder, FollowsKeys,
         \/ \E name \in Names : Connect(name)
         \/ Established \/ ConnectFails \/ ConnectionEnds \/ SocketCloses \/ ReadError
  PROVE  FollowsKeys'
<1>1. client \in ClientRecord /\ Held(client)
  BY DEF NumbersInOrder, Good, FollowsKeys
<1>2. {"Error", "Disconnected", "Connecting", "Connected"} \subseteq States
  BY DEF States
<1>3. ASSUME NEW c \in ClientRecord, Held(c),
             NEW state \in {"Error", "Disconnected", "Connecting", "Connected"},
             client' = WithState(c, state)
      PROVE  FollowsKeys'
  <2>1. Held(client') /\ client'.state = state
    BY <1>2, <1>3, HeldInState, WithStateSound
  <2> QED
    BY <2>1 DEF FollowsKeys
<1>4. ASSUME NEW name \in Names, Connect(name) PROVE FollowsKeys'
  <2> DEFINE phase == "Connected"
             zero  == 0
             one   == 1
             ids     == 0 .. MaxMatches
             numbers == Nat \ {0}
             c     == [client EXCEPT !.match = zero, !.seq = one, !.phase = phase, !.name = name]
  <2>1. client' = WithState(c, "Connecting") /\ name \in Nat
    BY <1>4, QtClientAssumption DEF Connect
  <2>2. phase \in Phases /\ zero \in ids /\ one \in numbers
    BY QtClientAssumption DEF Phases
  <2>3. ClientRecord = [state : States, phase : Phases, match : ids, seq : numbers,
                        over : BOOLEAN, keys : SUBSET Keys, ctl : ControllerRecord, name : Nat]
    BY DEF ClientRecord
  <2> HIDE DEF phase, zero, one, ids, numbers
  <2>4. c \in ClientRecord /\ c.ctl = client.ctl /\ c.keys = client.keys
    BY <1>1, <2>1, <2>2, <2>3
  <2> HIDE DEF c
  <2>5. Held(c)
    BY <1>1, <2>4 DEF Held
  <2> QED
    BY <1>3, <2>1, <2>4, <2>5
<1>5. CASE Established
  <2>1. client' = WithState(client, "Connected")
    BY <1>5 DEF Established
  <2> QED
    BY <1>1, <1>3, <2>1
<1>6. CASE ConnectFails \/ ConnectionEnds \/ SocketCloses \/ ReadError
  <2>1. /\ socket' = "Unconnected"
        /\ \/ client' = client
           \/ client' = WithState(client, "Error")
           \/ client' = WithState(client, "Disconnected")
    BY <1>6, GoneEffect DEF Unconnected
  <2>2. CASE client' = client
    BY <1>1, <2>1, <2>2 DEF FollowsKeys
  <2> QED
    BY <1>1, <1>3, <2>1, <2>2
<1> QED
  BY <1>4, <1>5, <1>6

\* A command is one of those there are.
LEMMA CommandsHaveKinds ==
  ASSUME NEW message \in MessageRecord, IsInput(message), NEW p, IsValid(message, p)
  PROVE  message.kind \in {"move", "stop", "attack"}
<1> SUFFICES ASSUME message.kind = NoCommand PROVE FALSE
  BY DEF MessageRecord
<1> DEFINE id      == Text("id", 1)
           word    == Text(message.kind, 4)
           command == CommandFields(message)
           object  == Object(command)
           fields  == [matchId |-> id, command |-> object]
<1>1. Payload(message) = fields
  BY DEF Payload, IsInput
<1>2. command = [kind |-> word]
  BY DEF CommandFields, NoCommand
<1>3. word.text = "none"
  BY DEF Text, Value, NoCommand
<1>4. object.fields = command
  BY DEF Object, Value
<1> HIDE DEF word, object, id
<1>5. command["kind"] = word
  BY <1>2
<1> HIDE DEF command
<1>6. ValidCommand(command) # "None"
  <2> DEFINE rest == CASE command["kind"].text \in {"move", "aim", "attack", "dash"} ->
                            First(RequireObject(command, "direction"),
                                  ValidDirection(command["direction"].fields))
                       [] command["kind"].text \in {"interact", "stop"} -> "None"
                       [] OTHER -> "InvalidField"
  <2>1. rest = "InvalidField"
    BY <1>3, <1>5
  <2>2. ValidCommand(command) =
          First(ClaimsNoAuthority(command), First(RequireString(command, "kind", 32), rest))
    BY DEF ValidCommand
  <2> HIDE DEF rest
  <2> QED
    BY <2>1, <2>2 DEF First
<1>7. fields["command"] = object
  OBVIOUS
<1> HIDE DEF fields
<1>8. ValidInput(fields) # "None"
  BY <1>4, <1>6, <1>7 DEF ValidInput, First
<1>9. ValidPayload("InputCommand", fields) # "None"
  BY <1>8 DEF ValidPayload
<1>10. Verdict("InputCommand", message.seq, fields, p) # "None"
  BY <1>9 DEF Verdict, First
<1> QED
  BY <1>1, <1>10 DEF IsValid, IsInput

\* A rematch leaves alone what the match before it was asked.
LEMMA RematchKeeps ==
  ASSUME NumbersInOrder, NEW m, Rematch(m), NEW k \in 1 .. Len(matches)
  PROVE  matches'[k].over = matches[k].over /\ matches'[k].asked = matches[k].asked
<1> DEFINE still == FALSE
           r  == [matches[m] EXCEPT !.ticking = still]
           ms == [matches EXCEPT ![m] = r]
           nm == NewMatch(TRUE)
<1>1. matches \in MatchList /\ Len(matches) \in Nat /\ matches[k] \in MatchRecord
  BY DEF NumbersInOrder, Good, MatchList
<1>2. /\ m \in 1 .. Len(matches) /\ matches[m] \in MatchRecord /\ matches' = Append(ms, nm)
  BY <1>1 DEF Rematch, MatchList
<1>3. still \in BOOLEAN /\ nm \in MatchRecord
  BY NewMatchSound
<1> HIDE DEF still, nm
<1>4. r \in MatchRecord /\ r.over = matches[m].over /\ r.asked = matches[m].asked
  BY <1>2, <1>3 DEF MatchRecord
<1> HIDE DEF r
<1>5. /\ ms \in Seq(MatchRecord) /\ Len(ms) = Len(matches)
      /\ ms[k] = IF k = m THEN r ELSE matches[k]
  BY <1>1, <1>2, <1>4 DEF MatchList
<1> HIDE DEF ms
<1>6. Append(ms, nm)[k] = ms[k]
  BY <1>3, <1>5, AppendProperties
<1> QED
  BY <1>2, <1>4, <1>5, <1>6

\* The server does something.
LEMMA FollowsServer ==
  ASSUME NumbersInOrder, InStep, FollowsKeys, Server
  PROVE  FollowsKeys'
<1>1. PICK reply : Replies(reply)
  BY ServerReplies
<1>2. handler \in Phases /\ UNCHANGED <<client, socket>>
  BY <1>1 DEF Replies
<1> SUFFICES ASSUME socket = "Connected", client.state = "InMatch", handler' = "InMatch",
                    client.ctl.last # NotSent
             PROVE  Led(up', down', matches', client.match, client.ctl.last)
  BY <1>2 DEF FollowsKeys, Held
<1> DEFINE k   == client.match
           dir == client.ctl.last
           Goal == Led(up', down', matches', k, dir)
<1>3. handler = "InMatch"
  BY <1>2 DEF InStep, Behind
<1>4. /\ up \in Messages /\ down \in Answers /\ matches \in MatchList /\ Len(matches) \in Nat
      /\ Len(matches) <= MaxMatches /\ client \in ClientRecord
  BY DEF NumbersInOrder, Good, MatchList
<1>5. k \in 1 .. Len(matches) /\ matches[k] \in MatchRecord
  <2>1. Core(client, up, down, matches) /\ k # 0
    BY DEF NumbersInOrder, Good, InStep
  <2>2. k \in 1 .. Len(matches)
    BY <1>4, <2>1 DEF ClientRecord, Core, Numbered
  <2> QED
    BY <1>4, <2>2 DEF MatchList
<1>6. Led(up, down, matches, k, dir)
  BY <1>3 DEF FollowsKeys
<1> HIDE DEF k, dir
<1>7. ASSUME NEW e \in Answers, down' = down \o e, matches[k].over => matches'[k].over,
             matches'[k].asked = matches[k].asked,
             up' = up \/ (up # <<>> /\ up' = Tail(up) /\ ~Steers(Head(up), k))
      PROVE  Goal
  <2>1. Led(up', down, matches, k, dir)
    BY <1>4, <1>6, <1>7, LedServed
  <2> QED
    BY <1>4, <1>7, <2>1, LedTold DEF Goal
<1> HIDE DEF Goal
<1> SUFFICES Goal
  BY DEF Goal, k, dir
<1>8. ASSUME NEW e, Untrue(e), down' = down \o e, matches' = matches,
             up' = up \/ (up # <<>> /\ up' = Tail(up) /\ ~Steers(Head(up), k))
      PROVE  Goal
  BY <1>7, <1>8 DEF Untrue
<1>9. ASSUME NEW type, Serves(type), type # "InputCommand"
      PROVE  up # <<>> /\ up' = Tail(up) /\ ~Steers(Head(up), k)
  BY <1>9, ServedPhase DEF Steers, IsInput
<1>10. 0 \in 0 .. MaxMatches /\ TRUE \in BOOLEAN /\ k \in 0 .. MaxMatches
  BY <1>4, <1>5, QtClientAssumption
<1>16. /\ Untrue(<<>>) /\ Untrue(<<ServerError>>)
       /\ Untrue(<<Says("Ping", 0, TRUE)>>) /\ Untrue(<<Says("Pong", 0, TRUE)>>)
  BY <1>10, UntrueAnswers
<1>11. CASE HandlerReads
  <2>1. CASE ServeAuth \/ ServeCreate \/ ServeJoin
    <3>1. \E type \in {"AuthRequest", "CreateMatch", "JoinMatch"} : Serves(type)
      BY <2>1 DEF ServeAuth, ServeCreate, ServeJoin
    <3> QED
      BY <1>3, <3>1, ServedPhase
  <2>2. CASE ServeStartNext
    <3>1. Serves("StartNextMatch") /\ (Rejects \/ Rematch(Head(up).match))
      BY <2>2 DEF ServeStartNext
    <3>2. CASE Rejects
      <4>1. down' = down \o <<ServerError>> /\ matches' = matches
        BY <3>2 DEF Rejects, Tells
      <4>2. up # <<>> /\ up' = Tail(up) /\ ~Steers(Head(up), k)
        BY <1>9, <3>1
      <4> QED
        BY <1>8, <1>16, <4>1, <4>2
    <3>3. CASE Rematch(Head(up).match)
      <4>1. matches'[k].over = matches[k].over /\ matches'[k].asked = matches[k].asked
        BY <1>5, <3>3, RematchKeeps
      <4>2. down' = down \o Begins(NextMatch) /\ NextMatch \in 0 .. MaxMatches
        BY <1>4, <3>3, QtClientAssumption DEF Rematch, Tells, NextMatch
      <4>3. Begins(NextMatch) \in Answers
        BY <1>10, <4>2, UntrueAnswers DEF Untrue
      <4>4. up # <<>> /\ up' = Tail(up) /\ ~Steers(Head(up), k)
        BY <1>9, <3>1
      <4> QED
        BY <1>7, <4>1, <4>2, <4>3, <4>4
    <3> QED
      BY <3>1, <3>2, <3>3
  <2>3. CASE ServeInput
    <3> DEFINE command == Head(up)
               m       == command.match
               taken   == matches[m].taken + 1
               asked   == Asked(matches[m], command)
               r       == [matches[m] EXCEPT !.lastSeq = command.seq, !.taken = taken, !.asked = asked]
               x       == Says("InputAck", m, Accepts(command))
    <3>1. /\ Serves("InputCommand") /\ down' = down \o <<x>>
          /\ matches' = IF Accepts(command) THEN [matches EXCEPT ![m] = r] ELSE matches
      BY <2>3 DEF ServeInput, Tells
    <3>2. /\ up # <<>> /\ up' = Tail(up) /\ command \in MessageRecord /\ IsInput(command)
          /\ IsValid(command, handler)
      BY <3>1, ServedPhase DEF IsInput
    <3>3. command.kind \in {"move", "stop", "attack"}
      BY <3>2, CommandsHaveKinds
    <3>4. x \in ServerRecord /\ x.type = "InputAck" /\ x.yes = Accepts(command)
      <4>1. m \in 0 .. MaxMatches /\ Accepts(command) \in BOOLEAN /\ "InputAck" \in ServerTypes
        BY <3>2 DEF MessageRecord, Accepts, ServerTypes
      <4>2. x \in ServerRecord /\ x.type = "InputAck"
        BY <4>1, SaysSound
      <4> QED
        BY <4>2 DEF Says
    <3>5. <<x>> \in Answers /\ Len(<<x>>) = 1 /\ <<x>>[1] = x
      BY <3>4, AnswerLists
    <3>6. CASE ~Accepts(command)
      <4> HIDE DEF x
      <4>1. IsRefusal(x)
        BY <3>4, <3>6 DEF IsRefusal
      <4> DEFINE e == <<x>>
      <4>2. e \in Answers /\ Len(e) = 1 /\ e[1] = x
        BY <3>5
      <4> HIDE DEF e
      <4>3. Len(down) + 1 \in 1 .. Len(down \o e) /\ (down \o e)[Len(down) + 1] = x
        <5>3. e \in Seq(ServerRecord) /\ down \in Seq(ServerRecord)
          BY <1>4, <4>2 DEF Answers
        <5>1. /\ Len(down) \in Nat /\ Len(down \o e) = Len(down) + Len(e)
              /\ \A i \in 1 .. Len(down) + Len(e) :
                   (down \o e)[i] = IF i <= Len(down) THEN down[i] ELSE e[i - Len(down)]
          BY <5>3, ConcatProperties
        <5>2. /\ Len(down) + 1 \in 1 .. Len(down) + Len(e) /\ ~(Len(down) + 1 <= Len(down))
              /\ (Len(down) + 1) - Len(down) = 1
          BY <4>2, <5>1
        <5> QED
          BY <4>2, <5>1, <5>2
      <4>4. down' = down \o e
        BY <3>1 DEF e
      <4>5. Excused(down', matches', k)
        BY <4>1, <4>3, <4>4 DEF Excused
      <4> QED
        BY <4>5 DEF Led, Goal
    <3>7. CASE Accepts(command)
      <4>1. matches' = [matches EXCEPT ![m] = r]
        BY <3>1, <3>7
      <4>2. m = k => r.over = matches[k].over /\ r.asked = asked
        BY <1>5 DEF MatchRecord
      <4> HIDE DEF r
      <4>3. matches'[k] = IF k = m THEN r ELSE matches[k]
        BY <1>4, <1>5, <4>1 DEF MatchList
      <4>4. /\ Steers(command, k) => matches[k].over \/ (m = k /\ asked = Turn(command))
            /\ m = k /\ ~Steers(command, k) => asked = matches[k].asked
        BY <3>2, <3>3 DEF Steers, Asked, Turn
      <4>5. matches[k].over => matches'[k].over
        BY <4>2, <4>3
      <4>6. IF Steers(command, k) THEN matches'[k].over \/ matches'[k].asked = Turn(command)
                                  ELSE matches'[k].asked = matches[k].asked
        BY <4>2, <4>3, <4>4, <4>5
      <4>7. Led(Tail(up), down, matches', k, dir)
        BY <1>4, <1>6, <3>2, <4>5, <4>6, LedServed
      <4>8. Led(up', down \o <<x>>, matches', k, dir)
        BY <1>4, <3>2, <3>5, <4>7, LedTold
      <4> QED
        BY <3>1, <4>8 DEF Goal
    <3> QED
      BY <3>6, <3>7
  <2>4. CASE ServePing
    <3>1. Serves("Ping") /\ down' = down \o <<Says("Pong", 0, TRUE)>> /\ matches' = matches
      BY <2>4 DEF ServePing, Tells
    <3>2. up # <<>> /\ up' = Tail(up) /\ ~Steers(Head(up), k)
      BY <1>9, <3>1
    <3> QED
      BY <1>8, <1>16, <3>1, <3>2
  <2>5. CASE ServePong
    <3>1. Serves("Pong") /\ down' = down \o <<>> /\ matches' = matches
      BY <1>4, <2>5, ConcatEmptySeq DEF ServePong, Answers
    <3>2. up # <<>> /\ up' = Tail(up) /\ ~Steers(Head(up), k)
      BY <1>9, <3>1
    <3> QED
      BY <1>8, <1>16, <3>1, <3>2
  <2>6. CASE Refuse
    BY <2>6 DEF Refuse, Ends
  <2> QED
    BY <1>11, <2>1, <2>2, <2>3, <2>4, <2>5, <2>6 DEF HandlerReads
<1>12. CASE HandshakeTimeout \/ CloseSession
  BY <1>12 DEF HandshakeTimeout, CloseSession, Ends
<1>13. CASE PingIdle
  <2>1. down' = down \o <<Says("Ping", 0, TRUE)>> /\ matches' = matches /\ up' = up
    BY <1>13 DEF PingIdle, Tells
  <2> QED
    BY <1>8, <1>16, <2>1
<1>14. ASSUME NEW m \in DOMAIN matches, TickMatch(m) \/ OpponentJoins(m)
       PROVE  Goal
  <2>1. m \in 1 .. Len(matches) /\ m \in 0 .. MaxMatches /\ matches[m] \in MatchRecord
    BY <1>4, QtClientAssumption DEF MatchList
  <2>2. PICK r, e : /\ matches' = [matches EXCEPT ![m] = r] /\ down' = down \o e /\ e \in Answers
                    /\ matches[m].over => r.over
                    /\ r.asked = matches[m].asked /\ up' = up
    <3>1. CASE TickMatch(m)
      <4>1. PICK over \in BOOLEAN, snapshot \in BOOLEAN :
              LET now == matches[m].over \/ over
              IN  /\ matches' = [matches EXCEPT ![m].over = now, ![m].taken = 0]
                  /\ Tells(IF snapshot THEN <<Says("Snapshot", m, now)>> ELSE <<>>)
        BY <3>1 DEF TickMatch
      <4> DEFINE now  == matches[m].over \/ over
                 zero == 0
                 r    == [matches[m] EXCEPT !.over = now, !.taken = zero]
                 x    == Says("Snapshot", m, now)
                 e    == IF snapshot THEN <<x>> ELSE <<>>
      <4>2. matches' = [matches EXCEPT ![m] = r] /\ down' = down \o e /\ up' = up
        BY <3>1, <4>1 DEF Tells, TickMatch
      <4>3. now \in BOOLEAN /\ (matches[m].over => now)
        OBVIOUS
      <4> HIDE DEF now, zero
      <4>4. r.over = now /\ r.asked = matches[m].asked
        BY <2>1 DEF MatchRecord
      <4>5. x \in ServerRecord
        <5>1. "Snapshot" \in ServerTypes
          BY DEF ServerTypes
        <5> QED
          BY <2>1, <4>3, <5>1, SaysSound
      <4> HIDE DEF x
      <4>6. e \in Answers
        BY <4>5, AnswerLists
      <4> HIDE DEF r, e
      <4> QED
        BY <4>2, <4>3, <4>4, <4>6
    <3>2. CASE OpponentJoins(m)
      <4> DEFINE yes == TRUE
                 r   == [matches[m] EXCEPT !.started = yes, !.ticking = yes]
                 e   == <<Says("Snapshot", m, FALSE)>>
      <4>1. matches' = [matches EXCEPT ![m] = r] /\ down' = down \o e /\ up' = up
        BY <3>2 DEF OpponentJoins, Tells
      <4>2. r.over = matches[m].over /\ r.asked = matches[m].asked
        BY <2>1 DEF MatchRecord
      <4>3. e \in Answers
        BY <2>1, UntrueAnswers DEF Untrue
      <4> HIDE DEF r, e
      <4> QED
        BY <4>1, <4>2, <4>3
    <3> QED
      BY <1>14, <3>1, <3>2
  <2>3. matches'[k] = IF k = m THEN r ELSE matches[k]
    BY <1>4, <1>5, <2>2 DEF MatchList
  <2> QED
    BY <1>7, <2>2, <2>3
<1>15. ASSUME NEW m \in DOMAIN matches, OpponentStartsNext(m)
       PROVE  Goal
  <2>1. Rematch(m) /\ up' = up
    BY <1>15 DEF OpponentStartsNext
  <2>2. matches'[k].over = matches[k].over /\ matches'[k].asked = matches[k].asked
    BY <1>5, <2>1, RematchKeeps
  <2>3. down' = down \o Begins(NextMatch) /\ NextMatch \in 0 .. MaxMatches
    BY <1>4, <2>1, QtClientAssumption DEF Rematch, Tells, NextMatch
  <2>4. Begins(NextMatch) \in Answers
    BY <1>10, <2>3, UntrueAnswers DEF Untrue
  <2> QED
    BY <1>7, <2>1, <2>2, <2>3, <2>4
<1> QED
  BY <1>11, <1>12, <1>13, <1>14, <1>15 DEF Server

\* Every step keeps the hero following the keys.
LEMMA NextFollows == NumbersInOrder /\ InStep /\ FollowsKeys /\ [Next]_vars => FollowsKeys'
<1> SUFFICES ASSUME NumbersInOrder, InStep, FollowsKeys, [Next]_vars PROVE FollowsKeys'
  OBVIOUS
<1>1. CASE Player
  <2>1. ASSUME NEW key \in Keys, PressKey(key) \/ ReleaseKey(key)
        PROVE  FollowsKeys'
    <3>1. client.keys \in SUBSET Keys
      BY DEF NumbersInOrder, Good, ClientRecord
    <3>2. client.keys \cup {key} \in SUBSET Keys /\ client.keys \ {key} \in SUBSET Keys
      BY <3>1
    <3> QED
      BY <2>1, <3>2, FollowsKeysChange DEF PressKey, ReleaseKey
  <2> QED
    BY <1>1, <2>1, FollowsConnection, FollowsActs DEF Player
<1>2. CASE Timers
  BY <1>2, FollowsPoll, FollowsActs DEF Timers
<1>3. CASE Network
  BY <1>3, FollowsConnection DEF Network
<1>4. CASE ClientReads
  BY <1>4, FollowsRead, FollowsConnection
<1>5. CASE Server
  BY <1>5, FollowsServer
<1>6. CASE UNCHANGED vars
  BY <1>6 DEF vars, FollowsKeys, Held
<1> QED
  BY <1>1, <1>2, <1>3, <1>4, <1>5, <1>6 DEF Next

\* The hero follows the keys in every state that is reached.
LEMMA FollowsHolds == Spec => []FollowsKeys
<1>1. Init => FollowsKeys
  BY NoKeysAreHeld DEF Init, FollowsKeys, Held
<1> QED
  BY <1>1, NextFollows, InStepHolds, InOrderHolds, PTL DEF Spec

\* When nothing is on its way, the match has the direction that is counted as sent.
LEMMA FollowersSettle == NumbersInOrder /\ FollowsKeys => HeroFollowsUnlessRejected
<1> SUFFICES ASSUME NumbersInOrder, FollowsKeys, Settled, client.ctl.last # NotSent
             PROVE  matches[client.match].asked = MoveDirection(client.keys)
  BY DEF HeroFollowsUnlessRejected
<1>1. up \in Messages /\ down \in Answers
  BY DEF NumbersInOrder, Good
<1>2. /\ socket = "Connected" /\ client.state = "InMatch" /\ handler = "InMatch"
      /\ \A i \in 1 .. Len(up) : up[i].type # "InputCommand"
      /\ \A i \in 1 .. Len(down) : down[i].type \notin {"InputAck", "MatchJoined"}
      /\ ~matches[client.match].over
  BY <1>1 DEF Settled, Messages, Answers
<1>3. Led(up, down, matches, client.match, client.ctl.last)
  BY <1>2 DEF FollowsKeys
<1>4. matches[client.match].asked = client.ctl.last
  BY <1>2, <1>3 DEF Led, Excused, Steered, Steers, IsInput, IsJoined, IsRefusal
<1> QED
  BY <1>4 DEF FollowsKeys, Held

(***************************************************************************)
(* The hero of a settled client goes where the keys say, unless a command  *)
(* was rejected since, whatever keys, ticks, rematches and answers follow  *)
(* each other.                                                             *)
(***************************************************************************)
THEOREM HeroAlwaysFollows == Spec => []HeroFollowsUnlessRejected
<1> QED
  BY FollowersSettle, FollowsHolds, InOrderHolds, PTL
=============================================================================
