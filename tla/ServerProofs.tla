---------------------------- MODULE ServerProofs ----------------------------
(***************************************************************************)
(* What TLAPS proves of the running server, for any number of connections  *)
(* and matches, however late the handlers are and whatever the limits: the *)
(* backend stays sound although the handlers make several calls at once,   *)
(* every match is announced to its players first, handlers and backend     *)
(* agree, and the matches keep to the clock.                               *)
(***************************************************************************)
EXTENDS Server, BackendProofs

(***************************************************************************)
(* What a session is told, and in which order.                             *)
(***************************************************************************)
Announcement(m) == Message("joined", m, 0)

Includes(told, message) == \E i \in 1 .. Len(told) : told[i] = message

\* Nothing of a match is told before it is announced, but for some matches.
InOrder(u, told) ==
  \A i \in 1 .. Len(told) :
    told[i].kind # "joined"
      => \/ told[i].match \in u
         \/ \E j \in 1 .. i - 1 : told[j] = Announcement(told[i].match)

\* The matches that a session was not told of.
Unheard(un, s) == {m \in MatchId : <<s, m>> \in un}

\* All that a session was sent and that waits for it.
AllOf(session) == session.wire \o session.queue

\* Every session is told in order, and every open player of a match knows of it, but for those
\* whose transport gave up.
Announced(un, c) ==
  \A s \in DOMAIN c.sessions :
    /\ InOrder(Unheard(un, s), AllOf(c.sessions[s]))
    /\ \A m \in DOMAIN c.matches :
         (s \in Players(c.matches[m]) /\ Open(c, s))
           => m \in Unheard(un, s) \/ Includes(AllOf(c.sessions[s]), Announcement(m))

\* A message is told last.
LEMMA AppendInOrder ==
  ASSUME NEW u, NEW told \in Seq(MessageRecord), NEW x \in MessageRecord
  PROVE  /\ InOrder(u, Append(told, x))
              <=> /\ InOrder(u, told)
                  /\ x.kind # "joined" => x.match \in u \/ Includes(told, Announcement(x.match))
         /\ \A y : Includes(Append(told, x), y) <=> (Includes(told, y) \/ y = x)
<1> DEFINE new == Append(told, x)
           n == Len(told)
<1>1. /\ n \in Nat /\ Len(new) = n + 1 /\ new[n + 1] = x
      /\ \A i \in 1 .. n : new[i] = told[i]
  BY AppendProperties, LenProperties
<1> HIDE DEF new, n
<1>2. \A i : i \in 1 .. n + 1 <=> (i \in 1 .. n \/ i = n + 1)
  BY <1>1
<1>3. ASSUME NEW y PROVE Includes(new, y) <=> (Includes(told, y) \/ y = x)
  <2>1. Includes(new, y) <=> \E i \in 1 .. n + 1 : new[i] = y
    BY <1>1 DEF Includes
  <2>2. Includes(told, y) <=> \E i \in 1 .. n : told[i] = y
    BY DEF Includes, n
  <2> QED
    BY <1>1, <1>2, <2>1, <2>2
<1>4. \A i \in 1 .. n + 1 : \A j \in 1 .. i - 1 : j \in 1 .. n /\ new[j] = told[j]
  BY <1>1
<1>5. ASSUME NEW i \in 1 .. n + 1, NEW y
      PROVE  (\E j \in 1 .. i - 1 : new[j] = y) <=> (\E j \in 1 .. i - 1 : told[j] = y)
  BY <1>4
<1>6. InOrder(u, new)
        <=> \A i \in 1 .. n + 1 :
              new[i].kind # "joined"
                => \/ new[i].match \in u
                   \/ \E j \in 1 .. i - 1 : told[j] = Announcement(new[i].match)
  BY <1>1, <1>5, SMTT(40) DEF InOrder
<1>7. (n + 1) - 1 = n
  BY <1>1
<1>8. InOrder(u, told)
        <=> \A i \in 1 .. n :
              new[i].kind # "joined"
                => \/ new[i].match \in u
                   \/ \E j \in 1 .. i - 1 : told[j] = Announcement(new[i].match)
  BY <1>1 DEF InOrder, n
<1>9. InOrder(u, new)
        <=> InOrder(u, told) /\ (x.kind # "joined"
                                => \/ x.match \in u
                                   \/ \E j \in 1 .. n : told[j] = Announcement(x.match))
  BY <1>1, <1>2, <1>6, <1>7, <1>8
<1> QED
  BY <1>3, <1>9 DEF new, n, Includes

\* A message that is told last is told, whatever the order.
LEMMA AppendIncludes ==
  ASSUME NEW told \in Seq(MessageRecord), NEW x \in MessageRecord
  PROVE  \A y : Includes(Append(told, x), y) <=> (Includes(told, y) \/ y = x)
<1> DEFINE u == {}
<1> HIDE DEF u
<1> QED
  BY AppendInOrder, Zenon

\* With more exceptions, what is in order stays so.
LEMMA MoreInOrder ==
  ASSUME NEW u, NEW v, u \subseteq v, NEW told, InOrder(u, told)
  PROVE  InOrder(v, told)
BY DEF InOrder

\* The beginning of what is told in order.
LEMMA BeginningInOrder ==
  ASSUME NEW u, NEW q \in Seq(MessageRecord), NEW r \in Seq(MessageRecord), Begins(q, r)
  PROVE  InOrder(u, r) => InOrder(u, q)
<1>1. /\ Len(q) \in Nat /\ Len(r) \in Nat /\ Len(q) <= Len(r)
      /\ \A i \in 1 .. Len(q) : i \in 1 .. Len(r) /\ q[i] = r[i]
  BY LenProperties DEF Begins
<1>2. \A i \in 1 .. Len(q) : \A j \in 1 .. i - 1 : j \in 1 .. Len(q)
  BY <1>1
<1> QED
  BY <1>1, <1>2 DEF InOrder

\* What is told in two parts.
LEMMA ConcatIncludes ==
  ASSUME NEW q \in Seq(MessageRecord), NEW r \in Seq(MessageRecord)
  PROVE  \A y : Includes(q \o r, y) <=> Includes(q, y) \/ Includes(r, y)
<1> DEFINE P == {t \in Seq(MessageRecord) :
                   \A y : Includes(q \o t, y) <=> Includes(q, y) \/ Includes(t, y)}
<1>1. <<>> \in P
  <2>1. q \o <<>> = q /\ \A y : ~Includes(<<>>, y)
    BY ConcatEmptySeq, EmptySeq DEF Includes
  <2> QED
    BY <2>1
<1>2. ASSUME NEW t \in Seq(MessageRecord), t \in P, NEW e \in MessageRecord
      PROVE  Append(t, e) \in P
  <2>1. q \o Append(t, e) = Append(q \o t, e) /\ Append(t, e) \in Seq(MessageRecord)
    BY ConcatAppend, AppendProperties
  <2>2. q \o t \in Seq(MessageRecord)
    BY ConcatProperties
  <2>3. \A y : Includes(Append(q \o t, e), y) <=> (Includes(q \o t, y) \/ y = e)
    BY <2>2, AppendIncludes
  <2>4. \A y : Includes(Append(t, e), y) <=> (Includes(t, y) \/ y = e)
    BY AppendIncludes
  <2>5. \A y : Includes(q \o t, y) <=> Includes(q, y) \/ Includes(t, y)
    BY <1>2
  <2> QED
    BY <2>1, <2>3, <2>4, <2>5, Zenon
<1> HIDE DEF P
<1>3. Seq(MessageRecord) \subseteq P
  BY <1>1, <1>2, SeqInduction
<1> QED
  BY <1>3 DEF P

\* What is sent past the queue comes before what waits in it: an announcement may.
LEMMA AheadInOrder ==
  ASSUME NEW u, NEW wire \in Seq(MessageRecord), NEW queue \in Seq(MessageRecord),
         NEW x \in MessageRecord, x.kind = "joined", InOrder(u, wire \o queue)
  PROVE  InOrder(u, Append(wire, x) \o queue)
<1> DEFINE more == Append(wire, x)
           P == {t \in Seq(MessageRecord) : InOrder(u, wire \o t) => InOrder(u, more \o t)}
<1>1. /\ more \in Seq(MessageRecord)
      /\ \A y : Includes(more, y) <=> (Includes(wire, y) \/ y = x)
      /\ InOrder(u, more) <=> InOrder(u, wire)
  BY AppendProperties, AppendInOrder
<1> HIDE DEF more
<1>2. <<>> \in P
  BY <1>1, ConcatEmptySeq, EmptySeq
<1>3. ASSUME NEW t \in Seq(MessageRecord), t \in P, NEW e \in MessageRecord
      PROVE  Append(t, e) \in P
  <2>1. /\ wire \o Append(t, e) = Append(wire \o t, e)
        /\ more \o Append(t, e) = Append(more \o t, e)
        /\ Append(t, e) \in Seq(MessageRecord)
    BY <1>1, ConcatAppend, AppendProperties, SMTT(40)
  <2> DEFINE q == wire \o t
             r == more \o t
  <2>2. q \in Seq(MessageRecord) /\ r \in Seq(MessageRecord)
    BY <1>1, ConcatProperties
  <2>3. \A y : Includes(q, y) <=> Includes(wire, y) \/ Includes(t, y)
    BY ConcatIncludes
  <2>4. \A y : Includes(r, y) <=> Includes(more, y) \/ Includes(t, y)
    BY <1>1, ConcatIncludes
  <2>5. InOrder(u, q) => InOrder(u, r)
    BY <1>3
  <2> HIDE DEF q, r
  <2>6. InOrder(u, Append(q, e))
          <=> InOrder(u, q) /\ (e.kind # "joined" => e.match \in u \/ Includes(q, Announcement(e.match)))
    BY <2>2, AppendInOrder
  <2>7. InOrder(u, Append(r, e))
          <=> InOrder(u, r) /\ (e.kind # "joined" => e.match \in u \/ Includes(r, Announcement(e.match)))
    BY <2>2, AppendInOrder
  <2>8. InOrder(u, Append(q, e)) => InOrder(u, Append(r, e))
    BY <1>1, <2>3, <2>4, <2>5, <2>6, <2>7
  <2> QED
    BY <2>1, <2>8 DEF q, r
<1> HIDE DEF P
<1>4. Seq(MessageRecord) \subseteq P
  BY <1>2, <1>3, SeqInduction
<1> QED
  BY <1>4 DEF P, more

\* What is remembered of what was told in order: no announcement is forgotten.
LEMMA RememberedInOrder ==
  ASSUME NEW u, NEW wire \in Seq(MessageRecord), NEW queue \in Seq(MessageRecord)
  PROVE  /\ InOrder(u, wire \o queue) => InOrder(u, wire \o Among(queue, Remembered))
         /\ \A m : Includes(wire \o queue, Announcement(m))
                     => Includes(wire \o Among(queue, Remembered), Announcement(m))
<1> DEFINE K(t) == wire \o Among(t, Remembered)
           P == {t \in Seq(MessageRecord) :
                   /\ InOrder(u, wire \o t) => InOrder(u, K(t))
                   /\ \A m : Includes(wire \o t, Announcement(m))
                               => Includes(K(t), Announcement(m))}
<1>1. <<>> \in P
  BY AmongEmpty, EmptySeq
<1>2. ASSUME NEW t \in Seq(MessageRecord), t \in P, NEW e \in MessageRecord
      PROVE  Append(t, e) \in P
  <2> DEFINE q == wire \o t
             r == K(t)
             kept == Among(t, Remembered)
  <2>1. kept \in Seq(MessageRecord)
    BY AmongProperties
  <2>2. q \in Seq(MessageRecord) /\ r \in Seq(MessageRecord)
    BY <2>1, ConcatProperties
  <2>3. wire \o Append(t, e) = Append(q, e) /\ Append(t, e) \in Seq(MessageRecord)
    BY ConcatAppend, AppendProperties
  <2>4. Among(Append(t, e), Remembered) = IF e \in Remembered THEN Append(kept, e) ELSE kept
    BY AmongAppend
  <2>5. /\ InOrder(u, q) => InOrder(u, r)
        /\ \A m : Includes(q, Announcement(m)) => Includes(r, Announcement(m))
    BY <1>2
  <2> HIDE DEF kept
  <2>6. wire \o Append(kept, e) = Append(wire \o kept, e)
    BY <2>1, ConcatAppend
  <2>7. K(Append(t, e)) = IF e \in Remembered THEN Append(r, e) ELSE r
    BY <2>4, <2>6 DEF kept
  <2> HIDE DEF q, r, K
  <2>8. /\ InOrder(u, Append(q, e))
             <=> InOrder(u, q) /\ (e.kind # "joined" => e.match \in u \/ Includes(q, Announcement(e.match)))
        /\ \A y : Includes(Append(q, e), y) <=> (Includes(q, y) \/ y = e)
    BY <2>2, AppendInOrder
  <2>9. /\ InOrder(u, Append(r, e))
             <=> InOrder(u, r) /\ (e.kind # "joined" => e.match \in u \/ Includes(r, Announcement(e.match)))
        /\ \A y : Includes(Append(r, e), y) <=> (Includes(r, y) \/ y = e)
    BY <2>2, AppendInOrder
  <2>10. e \notin Remembered => \A m : e # Announcement(m)
    BY DEF Remembered, Announcement, Message
  <2>11. InOrder(u, Append(q, e)) => InOrder(u, K(Append(t, e)))
    BY <2>5, <2>7, <2>8, <2>9
  <2>12. \A m : Includes(Append(q, e), Announcement(m))
                  => Includes(K(Append(t, e)), Announcement(m))
    BY <2>5, <2>7, <2>8, <2>9, <2>10
  <2> QED
    BY <2>3, <2>11, <2>12
<1> HIDE DEF P
<1>3. Seq(MessageRecord) \subseteq P
  BY <1>1, <1>2, SeqInduction
<1> QED
  BY <1>3 DEF P

(***************************************************************************)
(* A session that keeps the order, and, as long as it is open, what was    *)
(* announced to it.                                                        *)
(***************************************************************************)
Informed(u, old, new) ==
  /\ new.auth \in {old.auth, "Closed"}
  /\ InOrder(u, AllOf(old)) => InOrder(u, AllOf(new))
  /\ new.auth # "Closed"
       => \A m : Includes(AllOf(old), Announcement(m)) => Includes(AllOf(new), Announcement(m))

\* What a session is told is a sequence of messages.
LEMMA AllOfType ==
  ASSUME NEW session \in SessionRecord
  PROVE  /\ session.wire \in Seq(MessageRecord) /\ session.queue \in Seq(MessageRecord)
         /\ AllOf(session) \in Seq(MessageRecord)
BY ToldType DEF AllOf

\* A session that closes was told in order.
LEMMA ClosedInformed ==
  ASSUME NEW u, NEW session \in SessionRecord
  PROVE  Informed(u, session, ClosedSession(session))
<1> DEFINE new == ClosedSession(session)
<1>1. new.auth = "Closed" /\ new.queue = <<>> /\ new.wire = session.wire
  BY DEF ClosedSession, SessionRecord
<1>2. session.wire \in Seq(MessageRecord) /\ session.queue \in Seq(MessageRecord)
      /\ AllOf(session) \in Seq(MessageRecord)
  BY AllOfType
<1> HIDE DEF new
<1>3. AllOf(new) = session.wire
  BY <1>1, <1>2, ConcatEmptySeq DEF AllOf
<1>4. Begins(session.wire, AllOf(session))
  BY <1>2, BeginsProperties DEF AllOf
<1> QED
  BY <1>1, <1>2, <1>3, <1>4, BeginningInOrder DEF Informed, new

\* A message that waits for a session is told last, of a match that was announced (broadcast).
LEMMA EnqueueInformed ==
  ASSUME NEW u, NEW session \in SessionRecord, NEW message \in MessageRecord,
         \/ message.kind = "joined"
         \/ session.auth # "Closed"
              => message.match \in u \/ Includes(AllOf(session), Announcement(message.match))
  PROVE  LET new == EnqueueOutbound(session, message)
         IN  /\ Informed(u, session, new)
             /\ new.auth # "Closed" => Includes(AllOf(new), message)
<1> DEFINE new == EnqueueOutbound(session, message)
<1>1. CASE session.auth = "Closed"
  <2>1. new = session
    BY <1>1 DEF EnqueueOutbound
  <2> QED
    BY <1>1, <2>1 DEF Informed
<1>2. CASE session.auth # "Closed" /\ Overflows(session)
  <2>1. new = ClosedSession(session) /\ new.auth = "Closed"
    BY <1>2, ClosedSessionType DEF EnqueueOutbound
  <2> QED
    BY <2>1, ClosedInformed
<1>3. CASE session.auth # "Closed" /\ ~Overflows(session)
  <2> DEFINE queue == Append(session.queue, message)
  <2>1. new = [session EXCEPT !.queue = queue]
    BY <1>3 DEF EnqueueOutbound
  <2> HIDE DEF queue, new
  <2>2. new.auth = session.auth /\ new.queue = queue /\ new.wire = session.wire
    BY <2>1 DEF SessionRecord
  <2>3. session.wire \in Seq(MessageRecord) /\ session.queue \in Seq(MessageRecord)
        /\ AllOf(session) \in Seq(MessageRecord)
    BY AllOfType
  <2>4. AllOf(new) = Append(AllOf(session), message)
    <3> DEFINE w == session.wire
               q == session.queue
    <3>1. w \in Seq(MessageRecord) /\ q \in Seq(MessageRecord)
      BY <2>3
    <3> HIDE DEF w, q
    <3>2. w \o Append(q, message) = Append(w \o q, message)
      BY <3>1, ConcatAppend
    <3>3. AllOf(new) = w \o Append(q, message) /\ AllOf(session) = w \o q
      BY <2>2 DEF AllOf, queue, w, q
    <3> QED
      BY <3>2, <3>3
  <2>5. /\ InOrder(u, AllOf(new))
             <=> /\ InOrder(u, AllOf(session))
                 /\ message.kind # "joined"
                      => message.match \in u \/ Includes(AllOf(session), Announcement(message.match))
        /\ \A y : Includes(AllOf(new), y) <=> (Includes(AllOf(session), y) \/ y = message)
    BY <2>3, <2>4, AppendInOrder
  <2> QED
    BY <1>3, <2>2, <2>5 DEF Informed, new
<1> QED
  BY <1>1, <1>2, <1>3

\* A flush sends what waits, or the first part of it, and forgets the snapshots (flushOutbound).
LEMMA FlushInformed ==
  ASSUME NEW u, NEW session \in SessionRecord, NEW sent \in 0 .. Len(session.queue)
  PROVE  Informed(u, session, FlushOutbound(session, sent))
<1> DEFINE part == SubSeq(session.queue, 1, sent)
           told == Among(part, Remembered)
           wire == session.wire \o told
           handed == [session EXCEPT !.wire = wire]
           new == FlushOutbound(session, sent)
<1>1. CASE session.auth = "Closed"
  <2>1. new = session
    BY <1>1 DEF FlushOutbound
  <2> QED
    BY <1>1, <2>1 DEF Informed
<1>2. CASE session.auth # "Closed"
  <2>1. session.wire \in Seq(MessageRecord) /\ session.queue \in Seq(MessageRecord)
        /\ Len(session.queue) \in Nat
    BY AllOfType, LenProperties
  <2>2. /\ part \in Seq(MessageRecord) /\ Begins(part, session.queue)
        /\ sent = Len(session.queue) => part = session.queue
    BY <2>1 DEF Begins
  <2> HIDE DEF part
  <2>3. told \in Seq(MessageRecord)
    BY <2>2, AmongProperties
  <2>4. wire \in Seq(MessageRecord)
    BY <2>1, <2>3, ConcatProperties
  <2>5. /\ InOrder(u, session.wire \o part) => InOrder(u, wire)
        /\ \A m : Includes(session.wire \o part, Announcement(m))
                    => Includes(wire, Announcement(m))
    BY <2>1, <2>2, RememberedInOrder
  <2>6. new = IF sent < Len(session.queue) THEN ClosedSession(handed)
              ELSE [handed EXCEPT !.queue = <<>>]
    BY <1>2 DEF FlushOutbound, part
  <2> HIDE DEF told, wire, new
  <2>7. /\ new.auth = IF sent < Len(session.queue) THEN "Closed" ELSE session.auth
        /\ new.wire = wire /\ new.queue = <<>>
    BY <2>6 DEF ClosedSession, SessionRecord
  <2>8. AllOf(new) = wire
    BY <2>4, <2>7, ConcatEmptySeq DEF AllOf
  <2>9. InOrder(u, AllOf(session)) => InOrder(u, session.wire \o part)
    <3> DEFINE q == session.wire \o part
               r == session.wire \o session.queue
    <3>1. q \in Seq(MessageRecord) /\ r \in Seq(MessageRecord)
      BY <2>1, <2>2, ConcatProperties
    <3>2. Begins(q, r)
      BY <2>1, <2>2, BeginsConcat
    <3> HIDE DEF q, r
    <3>3. InOrder(u, r) => InOrder(u, q)
      BY <3>1, <3>2, BeginningInOrder
    <3> QED
      BY <3>3 DEF q, r, AllOf
  <2>10. new.auth # "Closed" => part = session.queue
    BY <2>1, <2>2, <2>7
  <2> QED
    BY <2>5, <2>7, <2>8, <2>9, <2>10 DEF Informed, AllOf, new
<1> QED
  BY <1>1, <1>2

\* An announcement is sent past the queue (sendTcp).
LEMMA SentAheadInformed ==
  ASSUME NEW u, NEW session \in SessionRecord, NEW message \in MessageRecord,
         message.kind = "joined"
  PROVE  LET new == [session EXCEPT !.wire = Append(@, message)]
         IN  Informed(u, session, new) /\ Includes(AllOf(new), message)
<1> DEFINE wire == Append(session.wire, message)
           new == [session EXCEPT !.wire = wire]
<1>1. session.wire \in Seq(MessageRecord) /\ session.queue \in Seq(MessageRecord)
  BY AllOfType
<1>2. /\ wire \in Seq(MessageRecord)
      /\ \A y : Includes(wire, y) <=> (Includes(session.wire, y) \/ y = message)
      /\ InOrder(u, session.wire \o session.queue) => InOrder(u, wire \o session.queue)
  BY <1>1, AppendProperties, AppendInOrder, AheadInOrder
<1> HIDE DEF wire
<1>3. new.auth = session.auth /\ new.wire = wire /\ new.queue = session.queue
  BY DEF SessionRecord
<1> HIDE DEF new
<1>4. AllOf(new) = wire \o session.queue
  BY <1>3 DEF AllOf
<1>5. /\ \A y : Includes(AllOf(new), y) <=> (Includes(wire, y) \/ Includes(session.queue, y))
      /\ \A y : Includes(AllOf(session), y)
                  <=> (Includes(session.wire, y) \/ Includes(session.queue, y))
  BY <1>1, <1>2, <1>4, ConcatIncludes DEF AllOf
<1>6. InOrder(u, AllOf(session)) => InOrder(u, AllOf(new))
  BY <1>2, <1>4 DEF AllOf
<1> QED
  BY <1>2, <1>3, <1>5, <1>6 DEF Informed, new, wire

\* Sessions that keep what they know, and matches that keep their players.
LEMMA InformedStays ==
  ASSUME NEW un, NEW c, NEW d, Announced(un, c),
         DOMAIN d.sessions = DOMAIN c.sessions, DOMAIN d.matches = DOMAIN c.matches,
         \A s \in DOMAIN c.sessions : Informed(Unheard(un, s), c.sessions[s], d.sessions[s]),
         \A m \in DOMAIN c.matches : Players(d.matches[m]) = Players(c.matches[m])
  PROVE  Announced(un, d)
<1>1. ASSUME NEW s \in DOMAIN c.sessions
      PROVE  /\ InOrder(Unheard(un, s), AllOf(d.sessions[s]))
             /\ Open(d, s) => Open(c, s)
             /\ Open(d, s) => \A m : Includes(AllOf(c.sessions[s]), Announcement(m))
                                       => Includes(AllOf(d.sessions[s]), Announcement(m))
  BY <1>1 DEF Announced, Informed, Open
<1> QED
  BY <1>1 DEF Announced

(***************************************************************************)
(* What all but a few calls do to a backend: sessions close and do not     *)
(* change otherwise, matches keep their players and stay announced.        *)
(***************************************************************************)
Follows(c, d) ==
  /\ Sound(d)
  /\ Len(d.sessions) = Len(c.sessions) /\ Len(d.matches) = Len(c.matches)
  /\ \A s \in DOMAIN c.sessions : d.sessions[s].auth \in {c.sessions[s].auth, "Closed"}
  /\ \A m \in DOMAIN c.matches : SamePlayers(c.matches[m], d.matches[m])
  /\ \A un : Announced(un, c) => Announced(un, d)

\* As many sessions and matches have the same ids.
LEMMA SameIds ==
  ASSUME NEW c, NEW d, Typed(c), Typed(d), Len(d.sessions) = Len(c.sessions),
         Len(d.matches) = Len(c.matches)
  PROVE  DOMAIN d.sessions = DOMAIN c.sessions /\ DOMAIN d.matches = DOMAIN c.matches
BY TypedParts

\* A backend follows itself.
LEMMA FollowsReflexive ==
  ASSUME NEW c, Sound(c)
  PROVE  Follows(c, c)
BY DEF Follows, SamePlayers

\* What follows a follower follows.
LEMMA FollowsTransitive ==
  ASSUME NEW c, NEW d, NEW e, Sound(c), Follows(c, d), Follows(d, e)
  PROVE  Follows(c, e)
<1>1. DOMAIN d.sessions = DOMAIN c.sessions /\ DOMAIN d.matches = DOMAIN c.matches
  BY SameIds DEF Follows, Sound
<1>2. \A m \in DOMAIN c.matches : SamePlayers(c.matches[m], e.matches[m])
  BY <1>1 DEF Follows, SamePlayers
<1>3. \A s \in DOMAIN c.sessions : e.sessions[s].auth \in {c.sessions[s].auth, "Closed"}
  BY <1>1 DEF Follows
<1> QED
  BY <1>2, <1>3 DEF Follows

\* A call that leaves the matches alone.
LEMMA SameMatchesFollow ==
  ASSUME NEW c, NEW d, Sound(c), Sound(d), d.matches = c.matches,
         Len(d.sessions) = Len(c.sessions), \A un : Announced(un, c) => Announced(un, d),
         \A s \in DOMAIN c.sessions : d.sessions[s].auth \in {c.sessions[s].auth, "Closed"}
  PROVE  Follows(c, d)
BY DEF Follows, SamePlayers

\* A call that changes sessions only, and none but to close it, uncounted.
LEMMA FadingSound ==
  ASSUME NEW c, NEW ss \in Seq(SessionRecord), Sound(c), Len(ss) = Len(c.sessions),
         \A u : \A s \in DOMAIN c.sessions : Informed(u, c.sessions[s], ss[s])
  PROVE  LET d == [c EXCEPT !.sessions = ss]
         IN  Follows(c, d) /\ d.matches = c.matches /\ d.sessions = ss
<1> DEFINE d == [c EXCEPT !.sessions = ss]
<1>0. \A s \in DOMAIN c.sessions : ss[s].auth \in {c.sessions[s].auth, "Closed"}
  BY DEF Informed
<1>1. /\ d \in BackendRecord /\ d.sessions = ss /\ d.matches = c.matches /\ d.gone = c.gone
      /\ d.activeSessions = c.activeSessions /\ d.totalClosed = c.totalClosed
      /\ d.disconnects = c.disconnects
  BY DEF Sound, Typed, BackendRecord
<1> HIDE DEF d
<1>2. Typed(d) /\ Typed(c)
  BY <1>1 DEF Sound, Typed
<1>3. DOMAIN d.sessions = DOMAIN c.sessions
  BY <1>1, <1>2, SameIds
<1>4. OpenSessions(d) \subseteq OpenSessions(c)
  BY <1>0, <1>1, <1>3 DEF OpenSessions, Open
<1>5. Cardinality(OpenSessions(c) \ OpenSessions(d)) \in Nat
  <2>1. OpenSessions(c) \ OpenSessions(d) \in SUBSET OpenSessions(c)
    OBVIOUS
  <2> QED
    BY <1>2, <2>1, OpenAndClosed, FS_Subset, FS_CardinalityType
<1>6. Counted(d)
  <2>1. c.activeSessions \in Int /\ c.totalClosed \in Nat /\ c.disconnects \in Nat
    BY <1>2, TypedParts
  <2>2. /\ d.activeSessions + d.totalClosed = c.activeSessions + c.totalClosed
        /\ c.activeSessions - d.activeSessions <= Cardinality(OpenSessions(c) \ OpenSessions(d))
        /\ d.disconnects - c.disconnects <= Cardinality(OpenSessions(c) \ OpenSessions(d))
    BY <1>1, <1>5, <2>1
  <2> QED
    BY <1>1, <1>2, <1>4, <2>2, ClosingKeepsCounted DEF Sound
<1>7. Sound(d)
  BY <1>1, <1>2, <1>4, <1>6, SessionsOnlySound
<1>8. ASSUME NEW un, Announced(un, c) PROVE Announced(un, d)
  BY <1>1, <1>3, <1>8, InformedStays
<1> QED
  BY <1>0, <1>1, <1>7, <1>8, SameMatchesFollow DEF d

\* A message is queued, or closes its session.
LEMMA EnqueueFades ==
  ASSUME NEW session \in SessionRecord, NEW message
  PROVE  EnqueueOutbound(session, message).auth \in {session.auth, "Closed"}
BY DEF EnqueueOutbound, ClosedSession, SessionRecord

\* Sending closes sessions, and does nothing else to their authentication.
LEMMA SentToFades ==
  ASSUME NEW c, Typed(c), NEW players, NEW message
  PROVE  \A s \in DOMAIN c.sessions :
           SentTo(c, players, message)[s].auth \in {c.sessions[s].auth, "Closed"}
<1>1. ASSUME NEW s \in DOMAIN c.sessions
      PROVE  SentTo(c, players, message)[s].auth \in {c.sessions[s].auth, "Closed"}
  <2>1. SentTo(c, players, message)[s]
          = IF s \in players THEN EnqueueOutbound(c.sessions[s], message) ELSE c.sessions[s]
    BY DEF SentTo
  <2>2. c.sessions[s] \in SessionRecord
    BY TypedParts
  <2> QED
    BY <2>1, <2>2, EnqueueFades
<1> QED
  BY <1>1

\* What is sent to players who know of its match is told in order.
LEMMA SentToInformed ==
  ASSUME NEW un, NEW c, Typed(c), NEW players, NEW message \in MessageRecord,
         \/ message.kind = "joined"
         \/ \A s \in DOMAIN c.sessions :
              (s \in players /\ Open(c, s))
                => \/ message.match \in Unheard(un, s)
                   \/ Includes(AllOf(c.sessions[s]), Announcement(message.match))
  PROVE  \A s \in DOMAIN c.sessions :
           LET new == SentTo(c, players, message)[s]
           IN  /\ Informed(Unheard(un, s), c.sessions[s], new)
               /\ (s \in players /\ new.auth # "Closed") => Includes(AllOf(new), message)
<1> SUFFICES ASSUME NEW s \in DOMAIN c.sessions
             PROVE  LET new == SentTo(c, players, message)[s]
                    IN  /\ Informed(Unheard(un, s), c.sessions[s], new)
                        /\ (s \in players /\ new.auth # "Closed") => Includes(AllOf(new), message)
  OBVIOUS
<1> DEFINE old == c.sessions[s]
           new == SentTo(c, players, message)[s]
<1>1. old \in SessionRecord
  BY TypedParts
<1>2. new = IF s \in players THEN EnqueueOutbound(old, message) ELSE old
  BY DEF SentTo
<1> HIDE DEF new
<1>3. CASE s \in players
  <2>1. \/ message.kind = "joined"
        \/ old.auth # "Closed"
             => message.match \in Unheard(un, s) \/ Includes(AllOf(old), Announcement(message.match))
    BY <1>3 DEF Open
  <2> QED
    BY <1>1, <1>2, <1>3, <2>1, EnqueueInformed DEF new
<1>4. CASE s \notin players
  BY <1>2, <1>4 DEF Informed, new
<1> QED
  BY <1>3, <1>4

\* What is broadcast closes sessions, and no more (broadcast).
LEMMA BroadcastFollows ==
  ASSUME NEW c, Sound(c), NEW m \in DOMAIN c.matches,
         NEW message \in MessageRecord, message.match = m
  PROVE  Follows(c, Broadcast(c, m, message))
<1> DEFINE players == Players(c.matches[m])
           d == Broadcast(c, m, message)
<1>1. Sound(d) /\ d.matches = c.matches
  BY BroadcastSound
<1>2. d.sessions = SentTo(c, players, message)
  BY DEF Broadcast, Sound, Typed, BackendRecord
<1> HIDE DEF players, d
<1>3. Len(d.sessions) = Len(c.sessions)
  BY <1>2, SentToType DEF Sound
<1>4. \A s \in DOMAIN c.sessions : d.sessions[s].auth \in {c.sessions[s].auth, "Closed"}
  BY <1>2, SentToFades DEF Sound
<1>5. ASSUME NEW un, Announced(un, c) PROVE Announced(un, d)
  <2>1. \A s \in DOMAIN c.sessions :
          (s \in players /\ Open(c, s))
            => \/ message.match \in Unheard(un, s)
               \/ Includes(AllOf(c.sessions[s]), Announcement(message.match))
    BY <1>5 DEF Announced, players
  <2>2. \A s \in DOMAIN c.sessions : Informed(Unheard(un, s), c.sessions[s], d.sessions[s])
    BY <1>2, <2>1, SentToInformed DEF Sound
  <2>3. DOMAIN d.sessions = DOMAIN c.sessions
    BY <1>2 DEF SentTo
  <2> QED
    BY <1>1, <1>5, <2>2, <2>3, InformedStays
<1> QED
  BY <1>1, <1>3, <1>4, <1>5, SameMatchesFollow DEF d

\* One match is changed for another of the same players.
LEMMA OneMatchFollows ==
  ASSUME NEW c, Sound(c), NEW m \in DOMAIN c.matches, NEW match,
         SamePlayers(c.matches[m], match), Sound([c EXCEPT !.matches[m] = match])
  PROVE  LET d == [c EXCEPT !.matches[m] = match]
         IN  Follows(c, d) /\ d.matches = [c.matches EXCEPT ![m] = match]
<1> DEFINE ms == [c.matches EXCEPT ![m] = match]
           d == [c EXCEPT !.matches = ms]
<1>1. [c EXCEPT !.matches[m] = match] = d
  OBVIOUS
<1>2. /\ c.matches \in Seq(MatchRecord) /\ m \in 1 .. Len(c.matches)
      /\ c.matches[m] \in MatchRecord
  BY TypedParts DEF Sound
<1>3. Len(ms) = Len(c.matches)
  BY <1>2
<1>4. \A n \in DOMAIN c.matches : SamePlayers(c.matches[n], ms[n])
  BY <1>2 DEF SamePlayers
<1> HIDE DEF ms
<1>5. d.matches = ms /\ d.sessions = c.sessions
  BY DEF Sound, Typed, BackendRecord
<1>6. Sound(d)
  BY <1>1
<1> HIDE DEF d
<1>7. ASSUME NEW un, Announced(un, c) PROVE Announced(un, d)
  <2>1. DOMAIN ms = DOMAIN c.matches
    BY DEF ms
  <2>2. \A n \in DOMAIN c.matches : Players(ms[n]) = Players(c.matches[n])
    BY <1>4 DEF SamePlayers, Players
  <2>3. \A s \in DOMAIN c.sessions : Informed(Unheard(un, s), c.sessions[s], c.sessions[s])
    BY DEF Informed
  <2> QED
    BY <1>5, <1>7, <2>1, <2>2, <2>3, InformedStays
<1>8. Follows(c, d)
  BY <1>3, <1>4, <1>5, <1>6, <1>7 DEF Follows
<1> QED
  BY <1>1, <1>5, <1>8 DEF ms

\* A tick closes sessions whose queues are full, and keeps the players (tick).
LEMMA TickFollows ==
  ASSUME NEW c, Sound(c), NEW m \in DOMAIN c.matches, MayTick(c, m),
         NEW over \in BOOLEAN, NEW snapshot \in BOOLEAN
  PROVE  LET d == TickMatch(c, m, over, snapshot)
         IN  /\ Follows(c, d)
             /\ \A n \in DOMAIN c.matches : n # m => d.matches[n] = c.matches[n]
             /\ d.matches[m].tick \in {c.matches[m].tick, c.matches[m].tick + 1}
<1> DEFINE old == c.matches[m]
           match == Advanced(old, over)
           ticked == [c EXCEPT !.matches[m] = match]
           now == ticked.matches[m].tick
           reported == IF old.finished THEN ticked
                       ELSE Broadcast(ticked, m, Message("events", m, now))
           d == TickMatch(c, m, over, snapshot)
<1>1. d = IF snapshot THEN Broadcast(reported, m, Message("snapshot", m, now)) ELSE reported
  BY DEF TickMatch
<1>2. Sound(d) /\ d.matches = [c.matches EXCEPT ![m] = match]
  BY TickMatchSound
<1> HIDE DEF d
<1>3. old \in MatchRecord /\ m \in MatchId /\ (~old.finished => old.tick < MaxTicks)
  BY TypedParts DEF Sound, Settled
<1>4. /\ match \in MatchRecord /\ SamePlayers(old, match)
      /\ ~match.finished => match.tick < MaxTicks
      /\ match.tick \in {old.tick, old.tick + 1}
      /\ \A i \in DOMAIN match.queue :
           \E j \in DOMAIN old.queue : match.queue[i] = old.queue[j]
  BY <1>3, AdvancedType
<1> HIDE DEF match
<1>5. match.finished => match.started
  BY <1>4 DEF MayTick, SamePlayers
<1>6. Sound(ticked)
  BY <1>4, <1>5, OneMatchSound
<1>7. Follows(c, ticked) /\ ticked.matches = [c.matches EXCEPT ![m] = match]
  BY <1>4, <1>6, OneMatchFollows
<1>8. DOMAIN ticked.matches = DOMAIN c.matches /\ ticked.matches[m] = match
  BY <1>7
<1> HIDE DEF ticked
<1>9. now \in 0 .. MaxTicks
  BY <1>4, <1>8 DEF MatchRecord
<1> HIDE DEF now
<1>10. /\ Message("events", m, now) \in MessageRecord
       /\ Message("snapshot", m, now) \in MessageRecord
       /\ Message("events", m, now).match = m /\ Message("snapshot", m, now).match = m
  BY <1>3, <1>9 DEF Message, MessageRecord
<1>11. Follows(c, reported) /\ Sound(reported) /\ reported.matches = ticked.matches
  <2>1. CASE old.finished
    BY <1>6, <1>7, <2>1
  <2>2. CASE ~old.finished
    BY <1>6, <1>7, <1>8, <1>10, <2>2, BroadcastFollows, BroadcastSound, FollowsTransitive
  <2> QED
    BY <2>1, <2>2
<1> HIDE DEF reported
<1>12. Follows(c, d)
  <2>1. CASE snapshot
    <3> DEFINE e == Broadcast(reported, m, Message("snapshot", m, now))
    <3>1. Follows(reported, e)
      BY <1>8, <1>10, <1>11, BroadcastFollows
    <3>2. d = e
      BY <1>1, <2>1
    <3> HIDE DEF e
    <3> QED
      BY <1>11, <3>1, <3>2, FollowsTransitive
  <2>2. CASE ~snapshot
    BY <1>1, <1>11, <2>2
  <2> QED
    BY <2>1, <2>2
<1>13. \A n \in DOMAIN c.matches : n # m => d.matches[n] = c.matches[n]
  BY <1>2
<1>14. d.matches[m] = match
  BY <1>2
<1> QED
  BY <1>4, <1>12, <1>13, <1>14 DEF d

\* A flush of all sessions closes those whose transport fails (flushTcpOutbound).
LEMMA FlushAllFollows ==
  ASSUME NEW c, Sound(c), NEW sent \in Flushes(c)
  PROVE  Follows(c, FlushAll(c, sent)) /\ FlushAll(c, sent).matches = c.matches
<1> DEFINE ss == [s \in DOMAIN c.sessions |-> FlushOutbound(c.sessions[s], sent[s])]
<1>1. ASSUME NEW s \in DOMAIN c.sessions
      PROVE  /\ FlushOutbound(c.sessions[s], sent[s]) \in SessionRecord
             /\ \A u : Informed(u, c.sessions[s], FlushOutbound(c.sessions[s], sent[s]))
  <2>1. c.sessions[s] \in SessionRecord
    BY TypedParts DEF Sound
  <2>2. sent[s] \in 0 .. Len(c.sessions[s].queue)
    <3>1. sent \in [DOMAIN c.sessions -> 0 .. MaxPendingOutbound]
      BY DEF Flushes
    <3>2. sent[s] <= Len(c.sessions[s].queue) /\ sent[s] \in 0 .. MaxPendingOutbound
      BY <3>1 DEF Flushes
    <3>3. Len(c.sessions[s].queue) \in Nat
      BY <2>1 DEF SessionRecord
    <3> QED
      BY <3>2, <3>3, BackendAssumption
  <2> QED
    BY <2>1, <2>2, FlushOutboundType, FlushInformed
<1>2. DOMAIN c.sessions = 1 .. Len(c.sessions) /\ Len(c.sessions) \in Nat
  BY TypedParts DEF Sound
<1>3. ss \in [1 .. Len(c.sessions) -> SessionRecord]
  BY <1>1, <1>2
<1>4. ss \in Seq(SessionRecord) /\ Len(ss) = Len(c.sessions)
  BY <1>2, <1>3
<1>5. \A u : \A s \in DOMAIN c.sessions : Informed(u, c.sessions[s], ss[s])
  BY <1>1
<1>6. FlushAll(c, sent) = [c EXCEPT !.sessions = ss]
  BY DEF FlushAll
<1> HIDE DEF ss
<1> QED
  BY <1>4, <1>5, <1>6, FadingSound

\* An announcement that is sent past the queue, if the transport takes it (sendTcp).
LEMMA SendDirectlyFollows ==
  ASSUME NEW c, Sound(c), NEW s \in DOMAIN c.sessions,
         NEW message \in MessageRecord, message.kind = "joined", NEW taken \in BOOLEAN
  PROVE  LET d == SendDirectly(c, s, message, taken)
         IN  /\ Follows(c, d) /\ d.matches = c.matches
             /\ \A u : \A t \in DOMAIN c.sessions : Informed(u, c.sessions[t], d.sessions[t])
             /\ (taken /\ Open(d, s)) => Includes(AllOf(d.sessions[s]), message)
<1> DEFINE d == SendDirectly(c, s, message, taken)
<1>1. CASE ~(taken /\ Open(c, s))
  <2>1. d = c
    BY <1>1 DEF SendDirectly
  <2> QED
    BY <1>1, <2>1, FollowsReflexive DEF Informed
<1>2. CASE taken /\ Open(c, s)
  <2> DEFINE session == [c.sessions[s] EXCEPT !.wire = Append(@, message)]
             ss == [c.sessions EXCEPT ![s] = session]
  <2>1. d = [c EXCEPT !.sessions = ss]
    BY <1>2 DEF SendDirectly
  <2>2. c.sessions[s] \in SessionRecord /\ c.sessions \in Seq(SessionRecord)
    BY TypedParts DEF Sound
  <2>3. session \in SessionRecord
    <3> DEFINE wire == Append(c.sessions[s].wire, message)
    <3>1. wire \in Seq(MessageRecord)
      BY <2>2 DEF SessionRecord
    <3>2. session = [c.sessions[s] EXCEPT !.wire = wire]
      OBVIOUS
    <3> HIDE DEF wire, session
    <3> QED
      BY <2>2, <3>1, <3>2 DEF SessionRecord
  <2>4. (\A u : Informed(u, c.sessions[s], session)) /\ Includes(AllOf(session), message)
    BY <2>2, SentAheadInformed
  <2> HIDE DEF session
  <2>5. ss \in Seq(SessionRecord) /\ Len(ss) = Len(c.sessions) /\ ss[s] = session
    BY <2>2, <2>3
  <2>6. \A u : \A t \in DOMAIN c.sessions : Informed(u, c.sessions[t], ss[t])
    <3>1. ASSUME NEW t \in DOMAIN c.sessions, t # s PROVE ss[t] = c.sessions[t]
      BY <3>1
    <3>2. \A u : \A session0 : Informed(u, session0, session0)
      BY DEF Informed
    <3> HIDE DEF ss
    <3> QED
      BY <2>4, <2>5, <3>1, <3>2
  <2> HIDE DEF ss, d
  <2>7. Follows(c, d) /\ d.matches = c.matches /\ d.sessions = ss
    BY <2>1, <2>5, <2>6, FadingSound
  <2> QED
    BY <2>4, <2>5, <2>6, <2>7 DEF d
<1> QED
  BY <1>1, <1>2

(***************************************************************************)
(* A match is made, or joined, by a session that is told of it at once,    *)
(* unless its transport gives up; nobody else becomes a player             *)
(* (handleTcpClient).                                                      *)
(***************************************************************************)
LEMMA ToldDirectly ==
  ASSUME NEW un, NEW c, Announced(un, c), NEW d, Sound(d), d.sessions = c.sessions,
         NEW s \in DOMAIN c.sessions, NEW m \in MatchId, NEW taken \in BOOLEAN,
         NEW now, now = IF taken THEN un ELSE un \cup {<<s, m>>}, Announcement(m) \in MessageRecord,
         \A n \in DOMAIN d.matches : \A t \in Players(d.matches[n]) :
           \/ n \in DOMAIN c.matches /\ t \in Players(c.matches[n])
           \/ n = m /\ t = s
  PROVE  Announced(now, SendDirectly(d, s, Announcement(m), taken))
<1> DEFINE e == SendDirectly(d, s, Announcement(m), taken)
<1>1. Announcement(m).kind = "joined"
  BY DEF Announcement, Message
<1>2. /\ Follows(d, e) /\ e.matches = d.matches
      /\ \A u : \A t \in DOMAIN c.sessions : Informed(u, c.sessions[t], e.sessions[t])
      /\ (taken /\ Open(e, s)) => Includes(AllOf(e.sessions[s]), Announcement(m))
  BY <1>1, SendDirectlyFollows
<1> HIDE DEF e
<1>3. DOMAIN e.sessions = DOMAIN c.sessions
  BY <1>2, SameIds DEF Follows, Sound
<1>6. /\ \A t : Unheard(un, t) \subseteq Unheard(now, t)
      /\ ~taken => m \in Unheard(now, s)
  BY DEF Unheard
<1>4. ASSUME NEW t \in DOMAIN c.sessions
      PROVE  /\ InOrder(Unheard(now, t), AllOf(e.sessions[t])) /\ (Open(e, t) => Open(c, t))
             /\ Open(e, t) => \A n : Includes(AllOf(c.sessions[t]), Announcement(n))
                                       => Includes(AllOf(e.sessions[t]), Announcement(n))
  <2>1. InOrder(Unheard(un, t), AllOf(c.sessions[t]))
    BY DEF Announced
  <2>2. Informed(Unheard(un, t), c.sessions[t], e.sessions[t])
    BY <1>2
  <2>3. InOrder(Unheard(now, t), AllOf(e.sessions[t]))
    BY <1>6, <2>1, <2>2, MoreInOrder DEF Informed
  <2> QED
    BY <2>2, <2>3 DEF Informed, Open
<1>5. ASSUME NEW t \in DOMAIN c.sessions, NEW n \in DOMAIN d.matches,
             t \in Players(d.matches[n]), Open(e, t)
      PROVE  n \in Unheard(now, t) \/ Includes(AllOf(e.sessions[t]), Announcement(n))
  <2>1. CASE n \in DOMAIN c.matches /\ t \in Players(c.matches[n])
    <3>1. n \in Unheard(un, t) \/ Includes(AllOf(c.sessions[t]), Announcement(n))
      BY <1>4, <1>5, <2>1 DEF Announced
    <3> QED
      BY <1>4, <1>5, <1>6, <3>1
  <2>2. CASE n = m /\ t = s
    BY <1>2, <1>5, <1>6, <2>2
  <2> QED
    BY <1>5, <2>1, <2>2
<1> QED
  BY <1>2, <1>3, <1>4, <1>5 DEF Announced, e

\* A command that is taken waits in its match (submitCommand).
LEMMA SubmitCommandFollows ==
  ASSUME NEW c, Sound(c), NEW s \in DOMAIN c.sessions, NEW m \in DOMAIN c.matches,
         NEW seq \in Nat, MaySubmitCommand(c, s, m, seq)
  PROVE  LET d == SubmitCommand(c, s, m, seq)
         IN  /\ Follows(c, d)
             /\ \A n \in DOMAIN c.matches : d.matches[n].tick = c.matches[n].tick
<1> DEFINE command == [session |-> s, seq |-> seq]
           match == Submitted(c.matches[m], command)
<1>1. SubmitCommand(c, s, m, seq) = [c EXCEPT !.matches[m] = match]
  BY DEF SubmitCommand
<1>2. c.matches[m] \in MatchRecord /\ s \in SessionId
  BY TypedParts DEF Sound
<1>3. command \in CommandRecord
  BY <1>2 DEF MaySubmitCommand, CommandRecord
<1> HIDE DEF command
<1>4. SamePlayers(c.matches[m], match) /\ match.tick = c.matches[m].tick
  BY <1>2, <1>3, SubmittedType
<1> HIDE DEF match
<1>5. Sound([c EXCEPT !.matches[m] = match])
  BY <1>1, SubmitCommandSound
<1> QED
  BY <1>1, <1>4, <1>5, OneMatchFollows

\* A session that is disconnected is closed, and its commands are gone (disconnect).
LEMMA DisconnectFollows ==
  ASSUME NEW c, Sound(c), NEW s \in DOMAIN c.sessions
  PROVE  LET d == Disconnect(c, s)
         IN  /\ Follows(c, d) /\ ~Open(d, s)
             /\ \A n \in DOMAIN c.matches : d.matches[n].tick = c.matches[n].tick
<1> DEFINE d == Disconnect(c, s)
           closed == CloseSession(c, s)
<1>1. Sound(d)
  BY DisconnectSound
<1>2. /\ Sound(closed) /\ Len(closed.sessions) = Len(c.sessions)
      /\ OpenSessions(closed) = OpenSessions(c) \ {s}
  BY CloseSessionSound
<1>3. /\ d.sessions = closed.sessions
      /\ d.matches = [m \in DOMAIN c.matches |-> WithoutCommandsOf(c.matches[m], s)]
  BY <1>2 DEF Disconnect, Sound, Typed, BackendRecord
<1>4. DOMAIN closed.sessions = DOMAIN c.sessions
  BY <1>2, TypedParts DEF Sound
<1>5. ~Open(d, s)
  BY <1>2, <1>3, <1>4 DEF OpenSessions, Open
<1>6. ASSUME NEW t \in DOMAIN c.sessions
      PROVE  \A u : Informed(u, c.sessions[t], closed.sessions[t])
  <2>1. c.sessions \in Seq(SessionRecord) /\ c \in BackendRecord /\ c.sessions[t] \in SessionRecord
    BY TypedParts DEF Sound, Typed
  <2>2. closed.sessions = IF Open(c, s)
                          THEN [c.sessions EXCEPT ![s] = ClosedSession(c.sessions[s])]
                          ELSE c.sessions
    BY <2>1 DEF CloseSession, BackendRecord
  <2>3. \A u : \A session : Informed(u, session, session)
    BY DEF Informed
  <2>4. CASE t = s /\ Open(c, s)
    <3>1. closed.sessions[t] = ClosedSession(c.sessions[s])
      BY <2>1, <2>2, <2>4
    <3> QED
      BY <2>1, <2>4, <3>1, ClosedInformed
  <2>5. CASE ~(t = s /\ Open(c, s))
    <3>1. closed.sessions[t] = c.sessions[t]
      BY <2>1, <2>2, <2>5
    <3> QED
      BY <2>3, <3>1
  <2> QED
    BY <2>4, <2>5
<1>7. ASSUME NEW m \in DOMAIN c.matches
      PROVE  /\ SamePlayers(c.matches[m], d.matches[m])
             /\ d.matches[m].tick = c.matches[m].tick
  <2>1. c.matches[m] \in MatchRecord /\ d.matches[m] = WithoutCommandsOf(c.matches[m], s)
    BY <1>3, TypedParts DEF Sound
  <2> QED
    BY <2>1 DEF WithoutCommandsOf, MatchRecord, SamePlayers
<1>8. Len(d.matches) = Len(c.matches)
  <2>1. DOMAIN d.matches = DOMAIN c.matches
    BY <1>3
  <2> QED
    BY <1>1, <2>1, TypedParts DEF Sound
<1> HIDE DEF d, closed
<1>9. Follows(c, d)
  <2>1. \A t \in DOMAIN c.sessions : d.sessions[t].auth \in {c.sessions[t].auth, "Closed"}
    BY <1>3, <1>6 DEF Informed
  <2>2. DOMAIN d.matches = DOMAIN c.matches
    BY <1>3
  <2>3. \A m \in DOMAIN c.matches : Players(d.matches[m]) = Players(c.matches[m])
    BY <1>7 DEF SamePlayers, Players
  <2>4. ASSUME NEW un, Announced(un, c) PROVE Announced(un, d)
    BY <1>3, <1>4, <1>6, <2>2, <2>3, <2>4, InformedStays
  <2> QED
    BY <1>1, <1>2, <1>3, <1>7, <1>8, <2>1, <2>4 DEF Follows
<1> QED
  BY <1>5, <1>7, <1>9 DEF d

(***************************************************************************)
(* Ticking a match that is late.                                           *)
(***************************************************************************)
LEMMA NextSnapshotType ==
  ASSUME NEW at \in Int, NEW tickAt \in Int
  PROVE  NextSnapshot(at, tickAt) \in Int
<1> DEFINE steps == (tickAt - at) \div SnapshotEvery + 1
<1>1. steps \in Int
  BY ServerAssumption
<1>2. NextSnapshot(at, tickAt) = IF tickAt < at THEN at ELSE at + SnapshotEvery * steps
  BY DEF NextSnapshot
<1> HIDE DEF steps
<1>3. SnapshotEvery * steps \in Int
  BY <1>1, ServerAssumption
<1> QED
  BY <1>2, <1>3

\* A ticker is due a number of ticks, within the lag it is allowed.
LEMMA DueType ==
  ASSUME NEW ticker \in TickerRecord
  PROVE  Due(ticker) \in Nat /\ (ticker.tickIn <= 1 => ticker.tickIn + Due(ticker) <= MaxLag + 1)
BY ServerAssumption DEF Due, TickerRecord

(***************************************************************************)
(* However late a match is, making up for it keeps the backend sound,      *)
(* moves only that match, and by no more ticks than its ticker counts      *)
(* (advanceDueTcpMatches).                                                 *)
(***************************************************************************)
LEMMA CaughtUpFollows ==
  ASSUME NEW c, Sound(c), NEW ticker \in TickerRecord, NEW over \in Nat,
         ticker.match \in DOMAIN c.matches, c.matches[ticker.match].started,
         ticker.tickIn <= 1
  PROVE  LET caught == CaughtUp(c, ticker, over)
             m == ticker.match
         IN  /\ Follows(c, caught.backend)
             /\ \A n \in DOMAIN c.matches : n # m => caught.backend.matches[n] = c.matches[n]
             /\ caught.ticker \in TickerRecord /\ caught.ticker.match = m
             /\ caught.ticker.tickIn <= 1
             /\ caught.backend.matches[m].tick - c.matches[m].tick
                  <= caught.ticker.tickIn - ticker.tickIn
<1> DEFINE m == ticker.match
           D == Due(ticker)
           At(k) == ticker.tickIn + k - 1
           Made(r, k) == [backend |-> TickMatch(r.backend, m, k = over, At(k) >= r.snapshotIn),
                          snapshotIn |-> NextSnapshot(r.snapshotIn, At(k))]
           start == [backend |-> c, snapshotIn |-> ticker.snapshotIn]
           Others(d) == \A n \in DOMAIN c.matches : n # m => d.matches[n] = c.matches[n]
           V == {r \in [backend : BackendRecord, snapshotIn : Int] :
                   Follows(c, r.backend) /\ Others(r.backend)}
           Step == [k \in 1 .. D |-> [r \in V |-> Made(r, k)]]
           Body(g) == [k \in 0 .. D |-> IF k = 0 THEN start ELSE Made(g[k - 1], k)]
           done == CHOOSE g : g = Body(g)
           last == done[D]
           tickIn == ticker.tickIn + D
           newTick == IF tickIn <= 0 THEN 1 ELSE tickIn
           newSnapshot == IF tickIn <= 0 /\ last.snapshotIn <= 0 THEN SnapshotEvery
                          ELSE last.snapshotIn
           after == [ticker EXCEPT !.tickIn = newTick, !.snapshotIn = newSnapshot]
<1>1. CaughtUp(c, ticker, over) = [backend |-> last.backend, ticker |-> after]
  BY DEF CaughtUp
<1>2. D \in Nat /\ ticker.tickIn \in Int /\ ticker.snapshotIn \in Int /\ m \in MatchId
  BY DueType DEF TickerRecord
<1>3. D = 0 \/ ticker.tickIn + D <= 1
  BY ServerAssumption DEF Due, TickerRecord
<1> HIDE DEF m, D
<1>4. \A k \in Nat : At(k) \in Int
  BY <1>2
<1> HIDE DEF At
<1>5. ASSUME NEW r \in V, NEW k \in Nat
      PROVE  /\ Made(r, k) \in V
             /\ Made(r, k).backend.matches[m].tick
                  \in {r.backend.matches[m].tick, r.backend.matches[m].tick + 1}
  <2> DEFINE d == r.backend
             snapshot == At(k) >= r.snapshotIn
             decides == k = over
             e == TickMatch(d, m, decides, snapshot)
  <2>1. Follows(c, d) /\ Others(d) /\ r.snapshotIn \in Int
    OBVIOUS
  <2>2. Sound(d) /\ DOMAIN d.matches = DOMAIN c.matches /\ m \in DOMAIN d.matches
    BY <2>1, SameIds DEF Follows, Sound, m
  <2>3. MayTick(d, m)
    BY <2>1 DEF Follows, SamePlayers, MayTick, m
  <2>4. snapshot \in BOOLEAN /\ decides \in BOOLEAN
    OBVIOUS
  <2> HIDE DEF d, snapshot, decides, Others
  <2>5. /\ Follows(d, e)
        /\ \A n \in DOMAIN d.matches : n # m => e.matches[n] = d.matches[n]
        /\ e.matches[m].tick \in {d.matches[m].tick, d.matches[m].tick + 1}
    BY <2>2, <2>3, <2>4, TickFollows
  <2> HIDE DEF e
  <2>6. Follows(c, e)
    BY <2>1, <2>5, FollowsTransitive
  <2>7. Others(e)
    BY <2>1, <2>2, <2>5 DEF Others
  <2>8. e \in BackendRecord
    BY <2>6 DEF Follows, Sound, Typed
  <2>9. NextSnapshot(r.snapshotIn, At(k)) \in Int
    BY <1>4, <2>1, NextSnapshotType
  <2>10. Made(r, k) = [backend |-> e, snapshotIn |-> NextSnapshot(r.snapshotIn, At(k))]
    BY DEF e, d, snapshot, decides
  <2> HIDE DEF Made
  <2> QED
    BY <2>5, <2>6, <2>7, <2>8, <2>9, <2>10 DEF d
<1>6. start \in V
  BY <1>2, FollowsReflexive DEF Sound, Typed
<1> HIDE DEF start, Made, Others, V
<1>7. Step \in [1 .. D -> [V -> V]]
  BY <1>2, <1>5
<1>8. \A k \in 1 .. D : \A r \in V : Step[k][r] = Made(r, k)
  OBVIOUS
<1> HIDE DEF Step
<1>9. PICK g \in [0 .. D -> V] : IsRun(D, start, Step, g)
  BY <1>2, <1>6, <1>7, RunsExist
<1>10. g = Body(g)
  <2>1. ASSUME NEW k \in 0 .. D
        PROVE  g[k] = IF k = 0 THEN start ELSE Made(g[k - 1], k)
    <3>1. k # 0 => k \in 1 .. D /\ k - 1 \in 0 .. D
      BY <1>2
    <3> QED
      BY <1>8, <1>9, <3>1 DEF IsRun
  <2> QED
    BY <2>1
<1>11. done = Body(done)
  BY <1>10
<1> HIDE DEF done
<1>12. done[0] = start /\ \A k \in 1 .. D : done[k] = Made(done[k - 1], k)
  BY <1>2, <1>11
<1> DEFINE S == {k \in Nat : k <= D =>
                   /\ done[k] \in V
                   /\ done[k].backend.matches[m].tick \in Int
                   /\ done[k].backend.matches[m].tick <= c.matches[m].tick + k}
<1>13. c.matches[m].tick \in Int
  <2>1. c.matches[m] \in MatchRecord
    BY TypedParts DEF Sound, m
  <2> QED
    BY <2>1 DEF MatchRecord
<1>14. 0 \in S
  <2>1. start.backend = c
    BY DEF start
  <2> QED
    BY <1>6, <1>12, <1>13, <2>1
<1>15. ASSUME NEW k \in Nat, k \in S PROVE k + 1 \in S
  <2> SUFFICES ASSUME k + 1 <= D
               PROVE  /\ done[k + 1] \in V
                      /\ done[k + 1].backend.matches[m].tick \in Int
                      /\ done[k + 1].backend.matches[m].tick <= c.matches[m].tick + (k + 1)
    OBVIOUS
  <2>1. /\ done[k] \in V /\ done[k].backend.matches[m].tick \in Int
        /\ done[k].backend.matches[m].tick <= c.matches[m].tick + k
    BY <1>2, <1>15
  <2>2. k + 1 \in 1 .. D /\ (k + 1) - 1 = k /\ k + 1 \in Nat
    BY <1>2
  <2>3. done[k + 1] = Made(done[k], k + 1)
    BY <1>12, <2>2
  <2>4. /\ Made(done[k], k + 1) \in V
        /\ Made(done[k], k + 1).backend.matches[m].tick
             \in {done[k].backend.matches[m].tick, done[k].backend.matches[m].tick + 1}
    BY <1>5, <2>1, <2>2
  <2> DEFINE old == done[k].backend.matches[m].tick
             new == done[k + 1].backend.matches[m].tick
             first == c.matches[m].tick
  <2>5. old \in Int /\ old <= first + k /\ new \in {old, old + 1} /\ first \in Int
    BY <1>13, <2>1, <2>3, <2>4
  <2>6. done[k + 1] \in V
    BY <2>3, <2>4
  <2> HIDE DEF old, new, first, V
  <2>7. new \in Int /\ new <= first + (k + 1)
    BY <2>5
  <2> QED
    BY <2>6, <2>7 DEF new, first
<1> HIDE DEF S
<1>16. D \in S
  BY <1>2, <1>14, <1>15, SetNatInduction
<1>17. /\ last \in V /\ last.backend.matches[m].tick \in Int
       /\ last.backend.matches[m].tick <= c.matches[m].tick + D
  BY <1>2, <1>16 DEF S
<1> HIDE DEF last
<1>18. Follows(c, last.backend) /\ Others(last.backend) /\ last.snapshotIn \in Int
  BY <1>17 DEF V
<1>19. newTick \in Int /\ newTick <= 1 /\ newTick >= ticker.tickIn + D
  BY <1>2, <1>3
<1>20. /\ after \in TickerRecord /\ after.match = m
       /\ after.tickIn \in Int /\ after.tickIn <= 1 /\ after.tickIn >= ticker.tickIn + D
  <2>1. newSnapshot \in Int
    BY <1>18, ServerAssumption
  <2> HIDE DEF newTick, newSnapshot
  <2> QED
    BY <1>19, <2>1 DEF TickerRecord, m
<1> HIDE DEF after
<1>21. last.backend.matches[m].tick - c.matches[m].tick <= after.tickIn - ticker.tickIn
  BY <1>2, <1>13, <1>17, <1>20
<1> QED
  BY <1>1, <1>18, <1>20, <1>21 DEF m, Others

(***************************************************************************)
(* The clocks: a match has at most one ticker, and one if it runs; and no  *)
(* match has had more ticks than intervals, its ticker's lateness taken    *)
(* into account.                                                           *)
(***************************************************************************)
Apart(ticking) == \A i, j \in DOMAIN ticking : i # j => ticking[i].match # ticking[j].match

Timed(c, ticker) ==
  /\ ticker.match \in DOMAIN c.matches /\ c.matches[ticker.match].started
  /\ ticker.tickIn <= 1

OnTime(c, ticker, ages) ==
  \/ ages[ticker.match] = MaxTicks
  \/ c.matches[ticker.match].tick <= ages[ticker.match] + ticker.tickIn

NotAhead(c, ages) ==
  \A m \in DOMAIN c.matches :
    c.matches[m].tick <= IF c.matches[m].started THEN ages[m] + 1 ELSE 0

AllTicked(c, ticking) ==
  \A m \in DOMAIN c.matches :
    c.matches[m].started /\ ~c.matches[m].finished
      => \E i \in DOMAIN ticking : ticking[i].match = m

Clocked(c, ticking, ages) ==
  /\ ticking \in Seq(TickerRecord) /\ Apart(ticking)
  /\ \A i \in DOMAIN ticking : Timed(c, ticking[i]) /\ OnTime(c, ticking[i], ages)
  /\ AllTicked(c, ticking) /\ NotAhead(c, ages)

\* A match's tick and age are numbers.
LEMMA TicksAndAges ==
  ASSUME NEW c, Sound(c), NEW ages \in [MatchId -> 0 .. MaxTicks], NEW m \in DOMAIN c.matches
  PROVE  /\ c.matches[m].tick \in Nat /\ c.matches[m].tick <= MaxTicks
         /\ ages[m] \in Nat /\ ages[m] <= MaxTicks /\ m \in MatchId
<1>1. c.matches[m] \in MatchRecord /\ m \in MatchId
  BY TypedParts DEF Sound
<1>2. c.matches[m].tick \in 0 .. MaxTicks /\ ages[m] \in 0 .. MaxTicks
  BY <1>1 DEF MatchRecord
<1> QED
  BY <1>1, <1>2, BackendAssumption

\* A call that keeps players and ticks disturbs no clock.
LEMMA FollowingClocked ==
  ASSUME NEW c, NEW d, Sound(c), Follows(c, d), NEW ticking, NEW ages, Clocked(c, ticking, ages),
         \A m \in DOMAIN c.matches : d.matches[m].tick = c.matches[m].tick
  PROVE  Clocked(d, ticking, ages)
<1>1. DOMAIN d.matches = DOMAIN c.matches
  BY SameIds DEF Follows, Sound
<1>2. \A m \in DOMAIN c.matches :
        /\ d.matches[m].started = c.matches[m].started
        /\ c.matches[m].finished => d.matches[m].finished
  BY DEF Follows, SamePlayers
<1>3. NotAhead(d, ages)
  BY <1>1, <1>2 DEF Clocked, NotAhead
<1>4. AllTicked(d, ticking)
  BY <1>1, <1>2 DEF Clocked, AllTicked
<1>5. \A i \in DOMAIN ticking : Timed(d, ticking[i]) /\ OnTime(d, ticking[i], ages)
  BY <1>1, <1>2 DEF Clocked, Timed, OnTime
<1> QED
  BY <1>3, <1>4, <1>5 DEF Clocked

(***************************************************************************)
(* All matches that are due are made up for, one after the other, and the  *)
(* clocks stay right (advanceDueTcpMatches).                               *)
(***************************************************************************)
LEMMA AdvanceClocked ==
  ASSUME NEW c, Sound(c), NEW ages \in [MatchId -> 0 .. MaxTicks],
         NEW ticking, Clocked(c, ticking, ages), NEW over \in [DOMAIN ticking -> Nat]
  PROVE  LET advanced == Advance(c, ticking, over)
         IN  Follows(c, advanced.backend) /\ Clocked(advanced.backend, advanced.ticking, ages)
<1> DEFINE N == Len(ticking)
           Caught(r, i) == CaughtUp(r.backend, ticking[i], over[i])
           Made(r, i) == [backend |-> Caught(r, i).backend,
                          ticking |-> Append(r.ticking, Caught(r, i).ticker)]
           start == [backend |-> c, ticking |-> <<>>]
           V == {r \in [backend : BackendRecord, ticking : Seq(TickerRecord)] :
                   Follows(c, r.backend)}
           Step == [i \in 1 .. N |-> [r \in V |-> Made(r, i)]]
           Body(g) == [i \in 0 .. N |-> IF i = 0 THEN start ELSE Made(g[i - 1], i)]
           done == CHOOSE g : g = Body(g)
           last == done[N]
<1>1. Advance(c, ticking, over) = last
  BY DEF Advance
<1>2. /\ ticking \in Seq(TickerRecord) /\ N \in Nat /\ DOMAIN ticking = 1 .. N
      /\ \A i \in 1 .. N : /\ ticking[i] \in TickerRecord /\ Timed(c, ticking[i])
                           /\ OnTime(c, ticking[i], ages) /\ over[i] \in Nat
  BY DEF Clocked
<1> HIDE DEF N
<1>3. ASSUME NEW r \in V, NEW i \in 1 .. N
      PROVE  LET m == ticking[i].match
                 caught == Caught(r, i)
             IN  /\ Follows(c, caught.backend)
                 /\ \A n \in DOMAIN c.matches :
                      n # m => caught.backend.matches[n] = r.backend.matches[n]
                 /\ caught.ticker \in TickerRecord /\ caught.ticker.match = m
                 /\ caught.ticker.tickIn <= 1
                 /\ caught.backend.matches[m].tick - r.backend.matches[m].tick
                      <= caught.ticker.tickIn - ticking[i].tickIn
  <2> DEFINE d == r.backend
             ticker == ticking[i]
             o == over[i]
  <2>1. Follows(c, d)
    OBVIOUS
  <2>2. Sound(d) /\ DOMAIN d.matches = DOMAIN c.matches
    BY <2>1, SameIds DEF Follows, Sound
  <2>3. ticker \in TickerRecord /\ Timed(c, ticker) /\ o \in Nat
    BY <1>2
  <2>4. Caught(r, i) = CaughtUp(d, ticker, o)
    OBVIOUS
  <2> HIDE DEF d, ticker, o, Caught, V
  <2>5. /\ ticker.match \in DOMAIN d.matches /\ d.matches[ticker.match].started
        /\ ticker.tickIn <= 1
    BY <2>1, <2>2, <2>3 DEF Timed, Follows, SamePlayers
  <2> DEFINE caught == CaughtUp(d, ticker, o)
             m == ticker.match
  <2>6. /\ Follows(d, caught.backend)
        /\ \A n \in DOMAIN d.matches : n # m => caught.backend.matches[n] = d.matches[n]
        /\ caught.ticker \in TickerRecord /\ caught.ticker.match = m
        /\ caught.ticker.tickIn <= 1
        /\ caught.backend.matches[m].tick - d.matches[m].tick
             <= caught.ticker.tickIn - ticker.tickIn
    BY <2>2, <2>3, <2>5, CaughtUpFollows
  <2> HIDE DEF caught
  <2>7. Follows(c, caught.backend)
    BY <2>1, <2>6, FollowsTransitive
  <2> QED
    BY <2>2, <2>4, <2>6, <2>7 DEF d, ticker, caught
<1> HIDE DEF Caught
<1>4. ASSUME NEW r \in V, NEW i \in 1 .. N PROVE Made(r, i) \in V
  <2>1. Follows(c, Caught(r, i).backend) /\ Caught(r, i).ticker \in TickerRecord
    BY <1>3
  <2>2. Caught(r, i).backend \in BackendRecord
    BY <2>1 DEF Follows, Sound, Typed
  <2>3. Append(r.ticking, Caught(r, i).ticker) \in Seq(TickerRecord)
    BY <2>1, AppendProperties
  <2> QED
    BY <2>1, <2>2, <2>3
<1>5. start \in V
  BY FollowsReflexive DEF Sound, Typed
<1>6. start.backend = c /\ start.ticking = <<>>
  OBVIOUS
<1>7. \A r \in V : Follows(c, r.backend) /\ r.ticking \in Seq(TickerRecord)
  OBVIOUS
<1>8. \A r \in V, i \in 1 .. N : /\ Made(r, i).backend = Caught(r, i).backend
                                 /\ Made(r, i).ticking = Append(r.ticking, Caught(r, i).ticker)
  OBVIOUS
<1> HIDE DEF start, Made, V
<1>9. Step \in [1 .. N -> [V -> V]]
  BY <1>4
<1>10. \A i \in 1 .. N : \A r \in V : Step[i][r] = Made(r, i)
  OBVIOUS
<1> HIDE DEF Step
<1>11. PICK g \in [0 .. N -> V] : IsRun(N, start, Step, g)
  BY <1>2, <1>5, <1>9, RunsExist
<1>12. g = Body(g)
  <2>1. ASSUME NEW i \in 0 .. N
        PROVE  g[i] = IF i = 0 THEN start ELSE Made(g[i - 1], i)
    <3>1. i # 0 => i \in 1 .. N /\ i - 1 \in 0 .. N
      BY <1>2
    <3> QED
      BY <1>10, <1>11, <3>1 DEF IsRun
  <2> QED
    BY <2>1
<1>13. done = Body(done)
  BY <1>12
<1> HIDE DEF done
<1>14. done[0] = start /\ \A i \in 1 .. N : done[i] = Made(done[i - 1], i)
  BY <1>2, <1>13
<1> DEFINE State(r, i) ==
             /\ r \in V /\ Len(r.ticking) = i
             /\ \A j \in 1 .. i : /\ r.ticking[j].match = ticking[j].match
                                  /\ r.ticking[j].tickIn <= 1
                                  /\ OnTime(r.backend, r.ticking[j], ages)
             /\ \A m \in DOMAIN c.matches :
                  (\A j \in 1 .. i : ticking[j].match # m) => r.backend.matches[m] = c.matches[m]
           S == {i \in Nat : i <= N => State(done[i], i)}
<1>15. 0 \in S
  <2>1. Len(<<>>) = 0
    OBVIOUS
  <2>2. State(start, 0)
    BY <1>5, <1>6, <2>1
  <2> QED
    BY <1>14, <2>2
<1>16. ASSUME NEW i \in Nat, i \in S PROVE i + 1 \in S
  <2> HIDE DEF State
  <2> SUFFICES ASSUME i + 1 <= N PROVE State(done[i + 1], i + 1)
    OBVIOUS
  <2> USE DEF State
  <2> DEFINE r == done[i]
             new == done[i + 1]
             ticker == ticking[i + 1]
             m == ticker.match
             after == Caught(r, i + 1).ticker
  <2>1. State(r, i) /\ i + 1 \in 1 .. N /\ (i + 1) - 1 = i
    BY <1>2, <1>16, SMTT(40)
  <2>2. new = Made(r, i + 1) /\ r \in V
    BY <1>14, <2>1
  <2>3. new \in V
    BY <1>4, <2>1, <2>2
  <2>4. /\ new.backend = Caught(r, i + 1).backend
        /\ new.ticking = Append(r.ticking, after)
    BY <1>8, <2>1, <2>2
  <2>5. /\ \A n \in DOMAIN c.matches : n # m => new.backend.matches[n] = r.backend.matches[n]
        /\ after \in TickerRecord /\ after.match = m /\ after.tickIn <= 1
        /\ new.backend.matches[m].tick - r.backend.matches[m].tick
             <= after.tickIn - ticker.tickIn
    <3> DEFINE k == i + 1
               caught == Caught(r, k)
    <3>1. r \in V /\ k \in 1 .. N /\ new.backend = caught.backend
      BY <2>1, <2>2, <2>4
    <3> HIDE DEF r, k, new
    <3>2. /\ \A n \in DOMAIN c.matches :
               n # ticking[k].match => caught.backend.matches[n] = r.backend.matches[n]
          /\ caught.ticker \in TickerRecord /\ caught.ticker.match = ticking[k].match
          /\ caught.ticker.tickIn <= 1
          /\ caught.backend.matches[ticking[k].match].tick - r.backend.matches[ticking[k].match].tick
               <= caught.ticker.tickIn - ticking[k].tickIn
      BY <1>3, <3>1
    <3> HIDE DEF caught
    <3> QED
      BY <3>1, <3>2 DEF k, caught
  <2> HIDE DEF r, new, after, S
  <2>6. /\ Len(new.ticking) = i + 1 /\ new.ticking[i + 1] = after
        /\ \A j \in 1 .. i : new.ticking[j] = r.ticking[j]
    BY <1>7, <2>1, <2>2, <2>4, <2>5, AppendProperties
  <2>7. m \in DOMAIN c.matches /\ \A j \in 1 .. i : ticking[j].match \in DOMAIN c.matches
    BY <1>2, <2>1 DEF Timed
  <2>8. \A j \in 1 .. i : ticking[j].match # m
    <3>1. ASSUME NEW j \in 1 .. i PROVE ticking[j].match # m
      <4>1. j \in 1 .. N /\ j # i + 1
        BY <1>2, <2>1
      <4> QED
        BY <1>2, <2>1, <4>1 DEF Clocked, Apart
    <3> QED
      BY <3>1
  <2>9. \A n \in DOMAIN c.matches :
          (\A j \in 1 .. i + 1 : ticking[j].match # n) => new.backend.matches[n] = c.matches[n]
    BY <2>1, <2>5
  <2>10. OnTime(new.backend, after, ages)
    <3>1. r.backend.matches[m] = c.matches[m]
      BY <2>1, <2>7, <2>8
    <3>2. c.matches[m].tick \in Nat /\ ages[m] \in Nat
      BY <2>7, TicksAndAges
    <3>3. new.backend.matches[m].tick \in Nat
      <4>1. Sound(new.backend) /\ DOMAIN new.backend.matches = DOMAIN c.matches
        BY <1>7, <2>3, SameIds DEF Follows, Sound
      <4> QED
        BY <2>7, <4>1, TicksAndAges
    <3>4. ticker.tickIn \in Int /\ after.tickIn \in Int
      BY <1>2, <2>1, <2>5 DEF TickerRecord
    <3>5. ages[m] = MaxTicks \/ c.matches[m].tick <= ages[m] + ticker.tickIn
      BY <1>2, <2>1 DEF OnTime
    <3> HIDE DEF ticker, m
    <3>6. ages[m] = MaxTicks \/ new.backend.matches[m].tick <= ages[m] + after.tickIn
      BY <2>5, <3>1, <3>2, <3>3, <3>4, <3>5
    <3> QED
      BY <2>5, <3>6 DEF OnTime
  <2>11. ASSUME NEW j \in 1 .. i + 1
         PROVE  /\ new.ticking[j].match = ticking[j].match
                /\ new.ticking[j].tickIn <= 1
                /\ OnTime(new.backend, new.ticking[j], ages)
    <3>1. CASE j = i + 1
      BY <2>5, <2>6, <2>10, <3>1
    <3>2. CASE j \in 1 .. i
      <4>1. /\ r.ticking[j].match = ticking[j].match /\ r.ticking[j].tickIn <= 1
            /\ OnTime(r.backend, r.ticking[j], ages)
        BY <2>1, <3>2
      <4>2. new.backend.matches[ticking[j].match] = r.backend.matches[ticking[j].match]
        BY <2>5, <2>7, <2>8, <3>2
      <4> QED
        BY <2>6, <3>2, <4>1, <4>2 DEF OnTime
    <3> QED
      BY <3>1, <3>2
  <2> QED
    BY <2>3, <2>6, <2>9, <2>11 DEF new
<1> HIDE DEF S
<1>17. N \in S
  BY <1>2, <1>15, <1>16, SetNatInduction
<1>18. State(last, N)
  BY <1>2, <1>17 DEF S
<1> DEFINE d == last.backend
           ts == last.ticking
<1>19. /\ Follows(c, d) /\ Sound(d) /\ ts \in Seq(TickerRecord)
       /\ Len(ts) = N /\ DOMAIN ts = 1 .. N
       /\ DOMAIN d.matches = DOMAIN c.matches
  <2>1. Follows(c, d) /\ ts \in Seq(TickerRecord) /\ Len(ts) = N
    BY <1>7, <1>18
  <2> HIDE DEF last
  <2> QED
    BY <2>1, SameIds DEF Follows, Sound
<1>20. \A j \in 1 .. N : /\ ts[j].match = ticking[j].match /\ ts[j].tickIn <= 1
                         /\ OnTime(d, ts[j], ages)
  BY <1>18
<1>21. \A m \in DOMAIN c.matches :
         (\A j \in 1 .. N : ticking[j].match # m) => d.matches[m] = c.matches[m]
  BY <1>18
<1> HIDE DEF last, d, ts, State
<1>22. Apart(ts)
  BY <1>2, <1>19, <1>20 DEF Clocked, Apart
<1>23. \A m \in DOMAIN c.matches : SamePlayers(c.matches[m], d.matches[m])
  BY <1>19 DEF Follows
<1>24. \A j \in DOMAIN ts : Timed(d, ts[j])
  BY <1>2, <1>19, <1>20, <1>23 DEF Timed, SamePlayers
<1>25. AllTicked(d, ts)
  <2> SUFFICES ASSUME NEW m \in DOMAIN d.matches, d.matches[m].started, ~d.matches[m].finished
               PROVE  \E j \in DOMAIN ts : ts[j].match = m
    BY DEF AllTicked
  <2>1. m \in DOMAIN c.matches /\ c.matches[m].started /\ ~c.matches[m].finished
    BY <1>19, <1>23 DEF SamePlayers
  <2>2. PICK j \in DOMAIN ticking : ticking[j].match = m
    BY <2>1 DEF Clocked, AllTicked
  <2>3. j \in 1 .. N
    BY <1>2
  <2> QED
    BY <1>19, <1>20, <2>2, <2>3
<1>26. NotAhead(d, ages)
  <2> SUFFICES ASSUME NEW m \in DOMAIN c.matches
               PROVE  d.matches[m].tick <= IF d.matches[m].started THEN ages[m] + 1 ELSE 0
    BY <1>19 DEF NotAhead
  <2>1. /\ d.matches[m].tick \in Nat /\ d.matches[m].tick <= MaxTicks /\ ages[m] \in Nat
    BY <1>19, TicksAndAges
  <2>2. CASE \E j \in 1 .. N : ticking[j].match = m
    <3>1. PICK j \in 1 .. N : ticking[j].match = m
      BY <2>2
    <3>2. ts[j].match = m /\ ts[j].tickIn <= 1 /\ OnTime(d, ts[j], ages)
      BY <1>20, <3>1
    <3>3. ts[j] \in TickerRecord
      BY <1>19
    <3>4. ts[j].tickIn \in Int
      BY <3>3 DEF TickerRecord
    <3>5. d.matches[m].started
      BY <1>19, <1>24, <3>1, <3>2 DEF Timed
    <3> QED
      BY <2>1, <3>2, <3>4, <3>5, BackendAssumption DEF OnTime
  <2>3. CASE ~ \E j \in 1 .. N : ticking[j].match = m
    BY <1>21, <2>3 DEF Clocked, NotAhead
  <2> QED
    BY <2>2, <2>3
<1>27. Clocked(d, ts, ages)
  BY <1>19, <1>20, <1>22, <1>24, <1>25, <1>26 DEF Clocked
<1> QED
  BY <1>1, <1>19, <1>27 DEF d, ts

\* A match that has just begun, and has had its first tick at most, gets its ticker.
ClockedBut(c, ticking, ages, m) ==
  /\ ticking \in Seq(TickerRecord) /\ Apart(ticking)
  /\ \A i \in DOMAIN ticking : /\ Timed(c, ticking[i]) /\ OnTime(c, ticking[i], ages)
                               /\ ticking[i].match # m
  /\ \A n \in DOMAIN c.matches : n # m =>
       /\ c.matches[n].started /\ ~c.matches[n].finished
            => \E i \in DOMAIN ticking : ticking[i].match = n
       /\ c.matches[n].tick <= IF c.matches[n].started THEN ages[n] + 1 ELSE 0

\* A match that begins is clocked from its first tick on.
LEMMA BegunClocked ==
  ASSUME NEW c, NEW d, Sound(c), Follows(c, d), NEW ages \in [MatchId -> 0 .. MaxTicks],
         NEW ticking, NEW m \in DOMAIN c.matches, ClockedBut(c, ticking, ages, m),
         c.matches[m].started, c.matches[m].tick = 0,
         \A n \in DOMAIN c.matches : n # m => d.matches[n].tick = c.matches[n].tick,
         d.matches[m].tick \in {0, 1}
  PROVE  Clocked(d, Activated(ticking, m), ages)
<1> DEFINE new == [match |-> m, tickIn |-> 1, snapshotIn |-> SnapshotEvery]
           ts == Append(ticking, new)
<1>1. /\ Sound(d) /\ DOMAIN d.matches = DOMAIN c.matches /\ m \in MatchId
      /\ \A n \in DOMAIN c.matches : SamePlayers(c.matches[n], d.matches[n])
  BY SameIds, TypedParts DEF Follows, Sound
<1>2. /\ ticking \in Seq(TickerRecord) /\ Len(ticking) \in Nat
      /\ DOMAIN ticking = 1 .. Len(ticking)
      /\ \A i \in DOMAIN ticking : /\ Timed(c, ticking[i]) /\ OnTime(c, ticking[i], ages)
                                   /\ ticking[i].match # m
  BY DEF ClockedBut
<1>3. Activated(ticking, m) = ts
  BY <1>2 DEF Activated
<1>4. new \in TickerRecord /\ new.match = m /\ new.tickIn = 1
  BY <1>1, ServerAssumption DEF TickerRecord
<1> HIDE DEF new
<1>5. /\ ts \in Seq(TickerRecord) /\ Len(ts) = Len(ticking) + 1
      /\ \A i \in 1 .. Len(ticking) : ts[i] = ticking[i]
      /\ ts[Len(ticking) + 1] = new
  BY <1>2, <1>4, AppendProperties
<1>6. DOMAIN ts = 1 .. Len(ticking) + 1
  BY <1>5
<1>7. \A i \in DOMAIN ts : i \in DOMAIN ticking \/ i = Len(ticking) + 1
  BY <1>2, <1>6
<1> HIDE DEF ts
<1>8. Apart(ts)
  BY <1>2, <1>4, <1>5, <1>7 DEF ClockedBut, Apart
<1>9. ages[m] \in Nat
  BY <1>1, TicksAndAges
<1>10. Timed(d, new) /\ OnTime(d, new, ages)
  <2>1. d.matches[m].tick <= ages[m] + 1
    BY <1>9
  <2> QED
    BY <1>1, <1>4, <2>1 DEF Timed, OnTime, SamePlayers
<1>11. \A i \in DOMAIN ticking : Timed(d, ticking[i]) /\ OnTime(d, ticking[i], ages)
  BY <1>1, <1>2 DEF Timed, OnTime, SamePlayers
<1>12. \A i \in DOMAIN ts : Timed(d, ts[i]) /\ OnTime(d, ts[i], ages)
  BY <1>2, <1>5, <1>7, <1>10, <1>11
<1>13. \A n \in DOMAIN c.matches : /\ d.matches[n].started = c.matches[n].started
                                   /\ c.matches[n].finished => d.matches[n].finished
  BY <1>1 DEF SamePlayers
<1>14. AllTicked(d, ts)
  <2> SUFFICES ASSUME NEW n \in DOMAIN c.matches, d.matches[n].started, ~d.matches[n].finished
               PROVE  \E i \in DOMAIN ts : ts[i].match = n
    BY <1>1 DEF AllTicked
  <2>1. CASE n = m
    <3>1. Len(ticking) + 1 \in DOMAIN ts
      BY <1>2, <1>6
    <3> QED
      BY <1>4, <1>5, <2>1, <3>1
  <2>2. CASE n # m
    <3>1. PICK i \in DOMAIN ticking : ticking[i].match = n
      BY <1>13, <2>2 DEF ClockedBut
    <3>2. i \in DOMAIN ts /\ ts[i] = ticking[i]
      BY <1>2, <1>5, <1>6
    <3> QED
      BY <3>1, <3>2
  <2> QED
    BY <2>1, <2>2
<1>15. NotAhead(d, ages)
  <2> SUFFICES ASSUME NEW n \in DOMAIN c.matches
               PROVE  d.matches[n].tick <= IF d.matches[n].started THEN ages[n] + 1 ELSE 0
    BY <1>1 DEF NotAhead
  <2>1. CASE n = m
    BY <1>9, <1>13, <2>1
  <2>2. CASE n # m
    BY <1>13, <2>2 DEF ClockedBut
  <2> QED
    BY <2>1, <2>2
<1> QED
  BY <1>3, <1>5, <1>8, <1>12, <1>14, <1>15 DEF Clocked

(***************************************************************************)
(* The handlers.                                                           *)
(***************************************************************************)
AgreesAt(c, p, s) ==
  /\ p = "InMatch" => InAnyMatch(c, s)
  /\ p \in {"Connected", "Authenticated"} => ~InAnyMatch(c, s)
  /\ p = "Ended" => ~Open(c, s)
  /\ (p \in {"Authenticated", "InMatch"} /\ Open(c, s)) => HasPlayer(c, s)

\* A handler stays right as long as its session only closes and keeps its matches.
LEMMA AgreementStays ==
  ASSUME NEW c, NEW d, NEW p, NEW s, AgreesAt(c, p, s),
         d.sessions[s].auth \in {c.sessions[s].auth, "Closed"},
         InAnyMatch(d, s) <=> InAnyMatch(c, s)
  PROVE  AgreesAt(d, p, s)
BY DEF AgreesAt, Open, HasPlayer

\* A backend that follows has the same sessions in matches.
LEMMA SameMatchesIn ==
  ASSUME NEW c, NEW d, Sound(c), Follows(c, d), NEW s
  PROVE  InAnyMatch(d, s) <=> InAnyMatch(c, s)
<1>1. DOMAIN d.matches = DOMAIN c.matches
  BY SameIds DEF Follows, Sound
<1>2. \A m \in DOMAIN c.matches : Players(d.matches[m]) = Players(c.matches[m])
  BY DEF Follows, SamePlayers, Players
<1> QED
  BY <1>1, <1>2 DEF InAnyMatch

\* What a handler thinks of a session stays true of a backend that follows.
LEMMA FollowingAgrees ==
  ASSUME NEW c, NEW d, Sound(c), Follows(c, d), NEW p, NEW s \in DOMAIN c.sessions,
         AgreesAt(c, p, s)
  PROVE  AgreesAt(d, p, s)
<1>1. d.sessions[s].auth \in {c.sessions[s].auth, "Closed"}
  BY DEF Follows
<1> QED
  BY <1>1, SameMatchesIn, AgreementStays

(***************************************************************************)
(* The inductive invariant: the types, a sound backend whose matches are   *)
(* announced, handlers that agree with it, and clocks that are right.      *)
(***************************************************************************)
Phases == {"Connected", "Authenticated", "InMatch", "Ended"}

Handled(c, ph, ln) ==
  /\ ph \in Seq(Phases) /\ ln \in Seq({"Heard", "Quiet", "Silent"})
  /\ Len(ph) = Len(c.sessions) /\ Len(ln) = Len(c.sessions)
  /\ \A s \in DOMAIN c.sessions : AgreesAt(c, ph[s], s)

ServerSound(c, ph, ln, ticking, ages, un) ==
  /\ Sound(c) /\ un \subseteq SessionId \X MatchId /\ Announced(un, c) /\ Handled(c, ph, ln)
  /\ ages \in [MatchId -> 0 .. MaxTicks] /\ Clocked(c, ticking, ages)

IInv == ServerSound(b, phase, line, tickers, age, untold)

\* Handlers and sessions have the same numbers.
LEMMA HandlersAreSessions ==
  ASSUME NEW c, Typed(c), NEW ph, NEW ln, Handled(c, ph, ln)
  PROVE  DOMAIN ph = DOMAIN c.sessions /\ DOMAIN ln = DOMAIN c.sessions
BY TypedParts DEF Handled

\* One handler goes to another phase.
LEMMA OneHandled ==
  ASSUME NEW c, NEW d, Sound(c), Sound(d), NEW ph, NEW ln, Handled(c, ph, ln),
         Len(d.sessions) = Len(c.sessions),
         NEW s \in DOMAIN c.sessions, NEW p \in Phases, NEW l \in {"Heard", "Quiet", "Silent"},
         AgreesAt(d, p, s),
         \A t \in DOMAIN c.sessions : t # s => AgreesAt(d, ph[t], t)
  PROVE  /\ Handled(d, [ph EXCEPT ![s] = p], [ln EXCEPT ![s] = l])
         /\ AgreesAt(d, ph[s], s) => Handled(d, ph, [ln EXCEPT ![s] = l])
<1>1. DOMAIN ph = DOMAIN c.sessions /\ DOMAIN ln = DOMAIN c.sessions
  BY HandlersAreSessions DEF Sound
<1>2. /\ DOMAIN c.sessions = 1 .. Len(c.sessions) /\ Len(c.sessions) \in Nat
      /\ DOMAIN d.sessions = DOMAIN c.sessions
  BY TypedParts DEF Sound
<1>3. ph \in Seq(Phases) /\ ln \in Seq({"Heard", "Quiet", "Silent"})
      /\ Len(ph) = Len(c.sessions) /\ Len(ln) = Len(c.sessions)
  BY DEF Handled
<1> DEFINE new == [ph EXCEPT ![s] = p]
           heard == [ln EXCEPT ![s] = l]
<1>4. new \in Seq(Phases) /\ Len(new) = Len(ph)
  BY <1>1, <1>3
<1>5. heard \in Seq({"Heard", "Quiet", "Silent"}) /\ Len(heard) = Len(ln)
  BY <1>1, <1>3
<1>6. \A t \in DOMAIN c.sessions : new[t] = IF t = s THEN p ELSE ph[t]
  BY <1>1
<1> HIDE DEF new, heard
<1>7. \A t \in DOMAIN d.sessions : AgreesAt(d, new[t], t)
  BY <1>2, <1>6
<1>8. Handled(d, new, heard)
  BY <1>3, <1>4, <1>5, <1>7 DEF Handled
<1>9. ASSUME AgreesAt(d, ph[s], s) PROVE Handled(d, ph, heard)
  BY <1>2, <1>3, <1>5, <1>9 DEF Handled
<1> QED
  BY <1>8, <1>9 DEF new, heard

\* A handler whose backend only closes sessions keeps agreeing with it.
LEMMA FollowingHandled ==
  ASSUME NEW c, NEW d, Sound(c), Follows(c, d), NEW ph, NEW ln, Handled(c, ph, ln),
         NEW s \in DOMAIN c.sessions, NEW l \in {"Heard", "Quiet", "Silent"}
  PROVE  Handled(d, ph, [ln EXCEPT ![s] = l])
<1>1. \A t \in DOMAIN c.sessions : AgreesAt(d, ph[t], t)
  BY FollowingAgrees DEF Handled
<1>2. ph[s] \in Phases
  BY HandlersAreSessions DEF Handled, Sound
<1>3. Sound(d) /\ Len(d.sessions) = Len(c.sessions)
  BY DEF Follows
<1> QED
  BY <1>1, <1>2, <1>3, OneHandled

\* At the start there is nothing.
LEMMA InitServerSound == Init => IInv
<1> SUFFICES ASSUME Init PROVE ServerSound(b, phase, line, tickers, age, untold)
  BY DEF IInv
<1>1. Sound(b)
  BY NoBackendSound DEF Init
<1>2. b.sessions = <<>> /\ DOMAIN b.sessions = {} /\ DOMAIN b.matches = {}
  BY DEF Init, NoBackend
<1>3. Handled(b, phase, line)
  BY <1>2 DEF Init, Handled
<1>4. age \in [MatchId -> 0 .. MaxTicks]
  BY BackendAssumption DEF Init
<1>5. Clocked(b, tickers, age)
  <2>1. tickers = <<>> /\ <<>> \in Seq(TickerRecord) /\ DOMAIN <<>> = {}
    BY DEF Init
  <2> QED
    BY <1>2, <2>1 DEF Clocked, Apart, AllTicked, NotAhead
<1>6. untold \subseteq SessionId \X MatchId /\ Announced(untold, b)
  BY <1>2 DEF Announced, Init
<1> QED
  BY <1>1, <1>3, <1>4, <1>5, <1>6 DEF ServerSound

\* A connection is accepted: its session is in no match.
LEMMA AcceptSound == IInv /\ Accept => IInv'
<1> SUFFICES ASSUME ServerSound(b, phase, line, tickers, age, untold), Accept
             PROVE  ServerSound(b', phase', line', tickers', age', untold')
  BY DEF IInv
<1> DEFINE n == Len(b.sessions) + 1
           session == [auth |-> "Connected", queue |-> <<>>, wire |-> <<>>]
<1>1. Sound(b) /\ Announced(untold, b) /\ Handled(b, phase, line)
      /\ untold \subseteq SessionId \X MatchId
      /\ age \in [MatchId -> 0 .. MaxTicks] /\ Clocked(b, tickers, age)
  BY DEF ServerSound
<1>2. /\ MayCreateSession(b) /\ b' = CreateSession(b)
      /\ phase' = Append(phase, "Connected") /\ line' = Append(line, "Quiet")
      /\ tickers' = tickers /\ age' = age /\ untold' = untold
  BY DEF Accept
<1>3. Sound(b')
  BY <1>1, <1>2, CreateSessionSound
<1>4. b'.matches = b.matches /\ b'.sessions = Append(b.sessions, session)
  BY <1>1, <1>2 DEF CreateSession, Sound, Typed, BackendRecord
<1>5. /\ b.sessions \in Seq(SessionRecord) /\ DOMAIN b.sessions = 1 .. Len(b.sessions)
      /\ Len(b.sessions) \in Nat
  BY <1>1, TypedParts DEF Sound
<1>6. session \in SessionRecord /\ \A u : InOrder(u, AllOf(session))
  <2>1. <<>> \in Seq(MessageRecord)
    OBVIOUS
  <2>2. AllOf(session) = <<>>
    BY <2>1, ConcatEmptySeq DEF AllOf
  <2>3. \A u : InOrder(u, <<>>)
    BY EmptySeq DEF InOrder
  <2> QED
    BY <2>1, <2>2, <2>3 DEF SessionRecord
<1> HIDE DEF session
<1>7. /\ Len(b'.sessions) = n /\ b'.sessions[n] = session
      /\ \A s \in DOMAIN b.sessions : b'.sessions[s] = b.sessions[s]
  BY <1>4, <1>5, <1>6, AppendProperties
<1>8. /\ phase \in Seq(Phases) /\ Len(phase) = Len(b.sessions)
      /\ line \in Seq({"Heard", "Quiet", "Silent"}) /\ Len(line) = Len(b.sessions)
      /\ DOMAIN phase = DOMAIN b.sessions
  BY <1>1, HandlersAreSessions DEF Handled, Sound
<1>9. /\ phase' \in Seq(Phases) /\ Len(phase') = n /\ phase'[n] = "Connected"
      /\ \A s \in DOMAIN b.sessions : phase'[s] = phase[s]
  BY <1>2, <1>5, <1>8, AppendProperties DEF Phases
<1>10. line' \in Seq({"Heard", "Quiet", "Silent"}) /\ Len(line') = n
  BY <1>2, <1>5, <1>8, AppendProperties
<1>11. ASSUME NEW s \in DOMAIN b.sessions PROVE AgreesAt(b', phase'[s], s)
  BY <1>1, <1>4, <1>7, <1>9, AgreementStays DEF Handled, InAnyMatch
<1>12. AgreesAt(b', phase'[n], n)
  <2>1. ~InAnyMatch(b', n)
    BY <1>1, <1>4, <1>5, SMTT(40) DEF InAnyMatch, Sound, Settled
  <2> QED
    BY <1>9, <2>1 DEF AgreesAt
<1>13. DOMAIN b'.sessions = 1 .. n
  BY <1>3, <1>7, TypedParts DEF Sound
<1>14. \A s \in 1 .. n : s \in DOMAIN b.sessions \/ s = n
  BY <1>5
<1>15. Handled(b', phase', line')
  BY <1>7, <1>9, <1>10, <1>11, <1>12, <1>13, <1>14 DEF Handled
<1>16. Clocked(b', tickers', age')
  BY <1>1, <1>2, <1>4 DEF Clocked, Timed, OnTime, AllTicked, NotAhead
<1>17. Announced(untold', b')
  <2>1. ASSUME NEW s \in DOMAIN b.sessions
        PROVE  /\ InOrder(Unheard(untold, s), AllOf(b'.sessions[s]))
               /\ \A m \in DOMAIN b'.matches :
                    (s \in Players(b'.matches[m]) /\ Open(b', s))
                      => m \in Unheard(untold, s) \/ Includes(AllOf(b'.sessions[s]), Announcement(m))
    BY <1>1, <1>4, <1>7, <2>1 DEF Announced, Open
  <2>2. \A m \in DOMAIN b'.matches : n \notin Players(b'.matches[m])
    BY <1>1, <1>4, <1>5, SMTT(40) DEF Sound, Settled
  <2>3. InOrder(Unheard(untold, n), AllOf(b'.sessions[n]))
    BY <1>6, <1>7
  <2> QED
    BY <1>2, <1>13, <1>14, <2>1, <2>2, <2>3 DEF Announced
<1> QED
  BY <1>1, <1>2, <1>3, <1>15, <1>16, <1>17 DEF ServerSound

\* A connection logs in.
LEMMA AuthSound ==
  ASSUME IInv, NEW s \in DOMAIN phase, Auth(s)
  PROVE  IInv'
<1> SUFFICES ServerSound(b', phase', line', tickers', age', untold')
  BY DEF IInv
<1>1. Sound(b) /\ Announced(untold, b) /\ Handled(b, phase, line)
      /\ untold \subseteq SessionId \X MatchId
      /\ age \in [MatchId -> 0 .. MaxTicks] /\ Clocked(b, tickers, age)
  BY DEF ServerSound, IInv
<1>2. /\ phase[s] = "Connected" /\ Open(b, s) /\ b' = Authenticate(b, s)
      /\ phase' = [phase EXCEPT ![s] = "Authenticated"]
      /\ line' = [line EXCEPT ![s] = "Heard"] /\ tickers' = tickers /\ age' = age
      /\ untold' = untold
  BY DEF Auth, Hears
<1>3. s \in DOMAIN b.sessions
  BY <1>1, HandlersAreSessions DEF Sound
<1>4. Sound(b')
  BY <1>1, <1>2, <1>3, AuthenticateSound
<1> DEFINE session == [b.sessions[s] EXCEPT !.auth = "Authenticated"]
<1>5. b'.matches = b.matches /\ b'.sessions = [b.sessions EXCEPT ![s] = session]
  BY <1>1, <1>2 DEF Authenticate, Sound, Typed, BackendRecord
<1>6. /\ session.auth = "Authenticated" /\ b.sessions \in Seq(SessionRecord)
      /\ AllOf(session) = AllOf(b.sessions[s])
  <2>1. b.sessions \in Seq(SessionRecord) /\ b.sessions[s] \in SessionRecord
    BY <1>1, <1>3, TypedParts DEF Sound
  <2> QED
    BY <2>1 DEF SessionRecord, AllOf
<1> HIDE DEF session
<1>7. /\ Len(b'.sessions) = Len(b.sessions) /\ b'.sessions[s].auth = "Authenticated"
      /\ AllOf(b'.sessions[s]) = AllOf(b.sessions[s])
      /\ \A t \in DOMAIN b.sessions : t # s => b'.sessions[t] = b.sessions[t]
  BY <1>3, <1>5, <1>6
<1>8. \A t : InAnyMatch(b', t) <=> InAnyMatch(b, t)
  BY <1>5 DEF InAnyMatch
<1>9. AgreesAt(b', "Authenticated", s)
  BY <1>1, <1>2, <1>3, <1>7, <1>8 DEF AgreesAt, HasPlayer, Handled
<1>10. \A t \in DOMAIN b.sessions : t # s => AgreesAt(b', phase[t], t)
  BY <1>1, <1>7, <1>8, AgreementStays DEF Handled
<1>11. Handled(b', phase', line')
  BY <1>1, <1>2, <1>3, <1>4, <1>7, <1>9, <1>10, OneHandled DEF Phases
<1>12. Clocked(b', tickers', age')
  BY <1>1, <1>2, <1>5 DEF Clocked, Timed, OnTime, AllTicked, NotAhead
<1>13. Announced(untold', b')
  <2>1. \A t \in DOMAIN b.sessions : /\ AllOf(b'.sessions[t]) = AllOf(b.sessions[t])
                                     /\ Open(b', t) => Open(b, t)
    BY <1>2, <1>7 DEF Open
  <2>2. DOMAIN b'.sessions = DOMAIN b.sessions
    BY <1>5
  <2> QED
    BY <1>1, <1>2, <1>5, <2>1, <2>2 DEF Announced
<1> QED
  BY <1>1, <1>2, <1>4, <1>11, <1>12, <1>13 DEF ServerSound

\* The parts of the invariant, and the session of a handler.
LEMMA ServerParts ==
  ASSUME IInv, NEW s \in DOMAIN phase
  PROVE  /\ Sound(b) /\ Announced(untold, b) /\ Handled(b, phase, line)
         /\ untold \subseteq SessionId \X MatchId
         /\ age \in [MatchId -> 0 .. MaxTicks] /\ Clocked(b, tickers, age)
         /\ s \in DOMAIN b.sessions
         /\ \A t \in DOMAIN b.sessions : AgreesAt(b, phase[t], t)
BY HandlersAreSessions DEF ServerSound, IInv, Sound, Handled

\* A match is added whose players are its only ones, or those of another.
LEMMA AppendedIn ==
  ASSUME NEW c, NEW d, Sound(c), NEW match \in MatchRecord,
         d.matches = Append(c.matches, match)
  PROVE  /\ DOMAIN d.matches = 1 .. Len(c.matches) + 1
         /\ DOMAIN c.matches = 1 .. Len(c.matches) /\ Len(c.matches) \in Nat
         /\ d.matches[Len(c.matches) + 1] = match
         /\ \A m \in DOMAIN c.matches : d.matches[m] = c.matches[m]
         /\ \A s : InAnyMatch(d, s) <=> InAnyMatch(c, s) \/ s \in Players(match)
<1> DEFINE n == Len(c.matches) + 1
<1>1. /\ c.matches \in Seq(MatchRecord) /\ DOMAIN c.matches = 1 .. Len(c.matches)
      /\ Len(c.matches) \in Nat
  BY TypedParts DEF Sound
<1>2. /\ DOMAIN d.matches = 1 .. n /\ d.matches[n] = match
      /\ \A m \in DOMAIN c.matches : d.matches[m] = c.matches[m]
  BY <1>1, AppendProperties
<1>3. \A m \in 1 .. n : m \in DOMAIN c.matches \/ m = n
  BY <1>1
<1>4. DOMAIN c.matches \subseteq 1 .. n /\ n \in 1 .. n
  BY <1>1
<1>5. \A s : InAnyMatch(d, s) <=> InAnyMatch(c, s) \/ s \in Players(match)
  BY <1>2, <1>3, <1>4 DEF InAnyMatch
<1> QED
  BY <1>1, <1>2, <1>5

\* A match is made; its owner is told past the queue.
LEMMA CreateSound ==
  ASSUME IInv, NEW s \in DOMAIN phase, Create(s)
  PROVE  IInv'
<1> SUFFICES ServerSound(b', phase', line', tickers', age', untold')
  BY DEF IInv
<1> DEFINE n == Len(b.matches) + 1
           match == NewMatch(<<s>>, FALSE, 0)
           made == CreateMatch(b, s)
           told == Message("joined", n, 0)
<1>1. /\ Sound(b) /\ Announced(untold, b) /\ Handled(b, phase, line) /\ s \in DOMAIN b.sessions
      /\ untold \subseteq SessionId \X MatchId
      /\ age \in [MatchId -> 0 .. MaxTicks] /\ Clocked(b, tickers, age)
      /\ \A t \in DOMAIN b.sessions : AgreesAt(b, phase[t], t)
  BY ServerParts
<1>2. /\ phase[s] = "Authenticated" /\ MayCreateMatch(b, s)
      /\ phase' = [phase EXCEPT ![s] = "InMatch"]
      /\ line' = [line EXCEPT ![s] = "Heard"] /\ tickers' = tickers /\ age' = age
  BY DEF Create, Hears
<1>3. Sound(made)
  BY <1>1, <1>2, CreateMatchSound
<1>4. made.sessions = b.sessions /\ made.matches = Append(b.matches, match)
  BY <1>1 DEF CreateMatch, Sound, Typed, BackendRecord
<1>5. <<s>> \in Seq(SessionId) /\ FALSE \in BOOLEAN /\ 0 \in {0} \cup MatchId
  BY <1>1, TypedParts DEF Sound
<1>6. /\ match \in MatchRecord /\ match.players = <<s>> /\ ~match.started /\ match.tick = 0
  BY <1>5, NewMatchType, ZenonT(60)
<1> HIDE DEF match, made
<1>7. Players(match) = {s}
  BY <1>6 DEF Players
<1>8. /\ DOMAIN made.matches = 1 .. n /\ DOMAIN b.matches = 1 .. Len(b.matches)
      /\ Len(b.matches) \in Nat /\ made.matches[n] = match
      /\ \A m \in DOMAIN b.matches : made.matches[m] = b.matches[m]
      /\ \A t : InAnyMatch(made, t) <=> InAnyMatch(b, t) \/ t = s
  <2>1. /\ DOMAIN made.matches = 1 .. n /\ DOMAIN b.matches = 1 .. Len(b.matches)
        /\ Len(b.matches) \in Nat /\ made.matches[n] = match
        /\ \A m \in DOMAIN b.matches : made.matches[m] = b.matches[m]
        /\ \A t : InAnyMatch(made, t) <=> InAnyMatch(b, t) \/ t \in Players(match)
    <3>1. made.matches = Append(b.matches, match) /\ match \in MatchRecord /\ Sound(b)
      BY <1>1, <1>4, <1>6
    <3> QED
      BY <3>1, AppendedIn
  <2> QED
    BY <1>7, <2>1
<1>9. \A m \in 1 .. n : m \in DOMAIN b.matches \/ m = n
  BY <1>8
<1>10. told \in MessageRecord /\ told.kind = "joined" /\ told = Announcement(n) /\ n \in MatchId
  <2>1. n \in MatchId
    BY <1>2, <1>8, BackendAssumption DEF MayCreateMatch, MatchId
  <2> QED
    BY <2>1, BackendAssumption DEF Message, MessageRecord, Announcement
<1> HIDE DEF told
<1>18. PICK taken \in BOOLEAN :
         b' = SendDirectly(made, s, told, taken) /\ untold' = NowUntold(s, n, taken)
  BY DEF Create, Takes, made, told
<1>11. Follows(made, b') /\ b'.matches = made.matches
  BY <1>1, <1>3, <1>4, <1>10, <1>18, SendDirectlyFollows
<1>12. AgreesAt(made, "InMatch", s)
  BY <1>1, <1>2, <1>4, <1>8 DEF AgreesAt, Open, HasPlayer
<1>13. \A t \in DOMAIN b.sessions : t # s => AgreesAt(made, phase[t], t)
  BY <1>1, <1>4, <1>8, AgreementStays
<1>14. Handled(b', phase', line')
  <2>1. AgreesAt(b', "InMatch", s)
    BY <1>1, <1>3, <1>4, <1>11, <1>12, FollowingAgrees
  <2>2. \A t \in DOMAIN b.sessions : t # s => AgreesAt(b', phase[t], t)
    BY <1>3, <1>4, <1>11, <1>13, FollowingAgrees
  <2>3. Sound(b') /\ Len(b'.sessions) = Len(b.sessions)
    BY <1>4, <1>11 DEF Follows
  <2> QED
    BY <1>1, <1>2, <2>1, <2>2, <2>3, OneHandled DEF Phases
<1>15. Clocked(made, tickers, age)
  <2>1. AllTicked(made, tickers)
    BY <1>1, <1>6, <1>8, <1>9 DEF Clocked, AllTicked
  <2>2. NotAhead(made, age)
    BY <1>1, <1>6, <1>8, <1>9, SMTT(40) DEF Clocked, NotAhead
  <2>3. \A i \in DOMAIN tickers : Timed(made, tickers[i]) /\ OnTime(made, tickers[i], age)
    <3>1. DOMAIN b.matches \subseteq DOMAIN made.matches
      BY <1>8
    <3> QED
      BY <1>1, <1>8, <3>1 DEF Clocked, Timed, OnTime
  <2> QED
    BY <1>1, <2>1, <2>2, <2>3 DEF Clocked
<1>16. Clocked(b', tickers', age')
  BY <1>2, <1>3, <1>11, <1>15, FollowingClocked
<1>17. Announced(untold', b')
  <2>1. ASSUME NEW i \in DOMAIN made.matches, NEW t \in Players(made.matches[i])
        PROVE  \/ i \in DOMAIN b.matches /\ t \in Players(b.matches[i])
               \/ i = n /\ t = s
    BY <1>7, <1>8, <1>9
  <2> HIDE DEF n
  <2> QED
    BY <1>1, <1>3, <1>4, <1>10, <1>18, <2>1, ToldDirectly DEF NowUntold
<1>19. untold' \subseteq SessionId \X MatchId
  BY <1>1, <1>10, <1>18, TypedParts DEF NowUntold, Sound
<1> QED
  BY <1>1, <1>2, <1>11, <1>14, <1>16, <1>17, <1>19 DEF ServerSound, Follows

\* The second player is told, the match begins, has its first tick and gets its ticker.
LEMMA JoinSound ==
  ASSUME IInv, NEW s \in DOMAIN phase, NEW m \in DOMAIN b.matches, Join(s, m)
  PROVE  IInv'
<1> SUFFICES ServerSound(b', phase', line', tickers', age', untold')
  BY DEF IInv
<1> DEFINE match == Joined(b.matches[m], s)
           made == JoinMatch(b, s, m)
           message == Message("joined", m, 0)
<1>1. /\ Sound(b) /\ Announced(untold, b) /\ Handled(b, phase, line) /\ s \in DOMAIN b.sessions
      /\ untold \subseteq SessionId \X MatchId
      /\ age \in [MatchId -> 0 .. MaxTicks] /\ Clocked(b, tickers, age)
      /\ \A t \in DOMAIN b.sessions : AgreesAt(b, phase[t], t)
  BY ServerParts
<1>2. /\ phase[s] = "Authenticated" /\ MayJoinMatch(b, s, m)
      /\ phase' = [phase EXCEPT ![s] = "InMatch"] /\ tickers' = Activated(tickers, m)
      /\ line' = [line EXCEPT ![s] = "Heard"] /\ age' = age
  BY DEF Join, Hears
<1>3. PICK over \in BOOLEAN, taken \in BOOLEAN :
        /\ FlushedTo(TickMatch(SendDirectly(made, s, message, taken), m, over, TRUE))
        /\ untold' = NowUntold(s, m, taken)
  BY DEF Join, Takes
<1> DEFINE joined == SendDirectly(made, s, message, taken)
<1>4. Sound(made)
  BY <1>1, <1>2, JoinMatchSound
<1>5. made.sessions = b.sessions /\ made.matches = [b.matches EXCEPT ![m] = match]
  BY <1>1 DEF JoinMatch, Sound, Typed, BackendRecord
<1>6. b.matches[m] \in MatchRecord /\ m \in MatchId
  BY <1>1, TypedParts DEF Sound
<1>7. /\ b.matches[m].tick = 0 /\ ~b.matches[m].started
  BY <1>1, <1>2, TicksAndAges DEF MayJoinMatch, Clocked, NotAhead
<1>8. match.started /\ match.tick = 0 /\ match.players = Append(b.matches[m].players, s)
  BY <1>6, <1>7 DEF Joined, MatchRecord
<1>9. \A t : t \in Players(match) <=> t \in Players(b.matches[m]) \/ t = s
  <2>1. b.matches[m].players \in Seq(SessionId) /\ s \in SessionId
    BY <1>1, <1>6, TypedParts DEF MatchRecord, Sound
  <2> DEFINE old == b.matches[m].players
             new == match.players
  <2>2. /\ Len(old) \in Nat /\ DOMAIN old = 1 .. Len(old)
        /\ DOMAIN new = 1 .. Len(old) + 1 /\ new[Len(old) + 1] = s
        /\ \A i \in DOMAIN old : new[i] = old[i]
    BY <1>8, <2>1, AppendProperties
  <2> HIDE DEF old, new
  <2>3. \A i \in DOMAIN new : i \in DOMAIN old \/ i = Len(old) + 1
    BY <2>2
  <2>4. DOMAIN old \subseteq DOMAIN new /\ Len(old) + 1 \in DOMAIN new
    BY <2>2
  <2>5. Players(match) = {new[i] : i \in DOMAIN new}
        /\ Players(b.matches[m]) = {old[i] : i \in DOMAIN old}
    BY DEF Players, old, new
  <2> QED
    BY <2>2, <2>3, <2>4, <2>5
<1> HIDE DEF match, made
<1>10. /\ DOMAIN made.matches = DOMAIN b.matches /\ made.matches[m] = match
       /\ \A n \in DOMAIN b.matches : n # m => made.matches[n] = b.matches[n]
  BY <1>5
<1>11. \A t : InAnyMatch(made, t) <=> InAnyMatch(b, t) \/ t = s
  BY <1>9, <1>10 DEF InAnyMatch
<1>12. message \in MessageRecord /\ message.kind = "joined" /\ message = Announcement(m)
  BY <1>6, BackendAssumption DEF Message, MessageRecord, Announcement
<1> HIDE DEF message
<1>13. Follows(made, joined) /\ joined.matches = made.matches
  BY <1>1, <1>4, <1>5, <1>12, SendDirectlyFollows
<1> DEFINE ticked == TickMatch(joined, m, over, TRUE)
<1>14. /\ Follows(joined, ticked)
       /\ \A n \in DOMAIN b.matches : n # m => ticked.matches[n] = made.matches[n]
       /\ ticked.matches[m].tick \in {made.matches[m].tick, made.matches[m].tick + 1}
  <2>1. Sound(joined) /\ m \in DOMAIN joined.matches /\ MayTick(joined, m)
    BY <1>8, <1>10, <1>13 DEF Follows, MayTick
  <2> HIDE DEF joined
  <2>2. TRUE \in BOOLEAN
    OBVIOUS
  <2>3. /\ Follows(joined, ticked)
        /\ \A n \in DOMAIN joined.matches : n # m => ticked.matches[n] = joined.matches[n]
        /\ ticked.matches[m].tick \in {joined.matches[m].tick, joined.matches[m].tick + 1}
    BY <2>1, <2>2, TickFollows
  <2> HIDE DEF ticked
  <2> QED
    BY <1>10, <1>13, <2>3
<1>24. Announced(untold', joined)
  <2>1. ASSUME NEW i \in DOMAIN made.matches, NEW t \in Players(made.matches[i])
        PROVE  \/ i \in DOMAIN b.matches /\ t \in Players(b.matches[i])
               \/ i = m /\ t = s
    BY <1>9, <1>10, <2>1
  <2> QED
    BY <1>1, <1>3, <1>4, <1>5, <1>6, <1>12, <2>1, ToldDirectly DEF NowUntold
<1> HIDE DEF joined
<1>15. PICK sent \in Flushes(ticked) : b' = FlushAll(ticked, sent)
  BY <1>3 DEF FlushedTo, joined
<1> HIDE DEF ticked
<1>16. Follows(ticked, b') /\ b'.matches = ticked.matches
  BY <1>14, <1>15, FlushAllFollows DEF Follows
<1>17. Follows(made, b')
  BY <1>4, <1>13, <1>14, <1>16, FollowsTransitive
<1>18. AgreesAt(made, "InMatch", s)
  BY <1>1, <1>2, <1>5, <1>11 DEF AgreesAt, Open, HasPlayer
<1>19. \A t \in DOMAIN b.sessions : t # s => AgreesAt(made, phase[t], t)
  BY <1>1, <1>5, <1>11, AgreementStays
<1>20. Handled(b', phase', line')
  <2>1. AgreesAt(b', "InMatch", s)
    BY <1>1, <1>4, <1>5, <1>17, <1>18, FollowingAgrees
  <2>2. \A t \in DOMAIN b.sessions : t # s => AgreesAt(b', phase[t], t)
    BY <1>4, <1>5, <1>17, <1>19, FollowingAgrees
  <2>3. Sound(b') /\ Len(b'.sessions) = Len(b.sessions)
    BY <1>5, <1>17 DEF Follows
  <2> QED
    BY <1>1, <1>2, <2>1, <2>2, <2>3, OneHandled DEF Phases
<1>21. ClockedBut(made, tickers, age, m)
  <2>1. \A i \in DOMAIN tickers : /\ Timed(made, tickers[i]) /\ OnTime(made, tickers[i], age)
                                  /\ tickers[i].match # m
    BY <1>1, <1>7, <1>10 DEF Clocked, Timed, OnTime
  <2>2. ASSUME NEW n \in DOMAIN made.matches, n # m
        PROVE  /\ made.matches[n].started /\ ~made.matches[n].finished
                    => \E i \in DOMAIN tickers : tickers[i].match = n
               /\ made.matches[n].tick <= IF made.matches[n].started THEN age[n] + 1 ELSE 0
    BY <1>1, <1>10, <2>2 DEF Clocked, AllTicked, NotAhead
  <2> QED
    BY <1>1, <2>1, <2>2 DEF Clocked, ClockedBut
<1>22. /\ \A n \in DOMAIN made.matches : n # m => b'.matches[n].tick = made.matches[n].tick
       /\ b'.matches[m].tick \in {0, 1}
  BY <1>8, <1>10, <1>14, <1>16
<1>23. Clocked(b', tickers', age')
  BY <1>1, <1>2, <1>4, <1>8, <1>10, <1>17, <1>21, <1>22, BegunClocked
<1>25. Announced(untold', b')
  BY <1>14, <1>16, <1>24 DEF Follows
<1>26. untold' \subseteq SessionId \X MatchId
  BY <1>1, <1>3, <1>6, TypedParts DEF NowUntold, Sound
<1> QED
  BY <1>1, <1>2, <1>17, <1>20, <1>23, <1>25, <1>26 DEF ServerSound, Follows

\* Without its ticker, a match that is over needs none.
LEMMA DeactivatedKeeps ==
  ASSUME NEW ticking \in Seq(TickerRecord), Apart(ticking), NEW m
  PROVE  LET ts == Deactivated(ticking, m)
         IN  /\ ts \in Seq(TickerRecord) /\ Apart(ts)
             /\ \A i \in DOMAIN ts : \E j \in DOMAIN ticking : ts[i] = ticking[j]
             /\ \A j \in DOMAIN ticking :
                  ticking[j].match # m => \E i \in DOMAIN ts : ts[i].match = ticking[j].match
<1> DEFINE others == {ticker \in TickerRecord : ticker.match # m}
           ts == Deactivated(ticking, m)
<1>1. ts = Among(ticking, others)
  BY DEF Deactivated
<1>2. \A j \in 1 .. Len(ticking) : ticking[j].match # m => ticking[j] \in others
  OBVIOUS
<1> HIDE DEF others, ts
<1>3. /\ ts \in Seq(TickerRecord)
      /\ \A i \in 1 .. Len(ts) : \E j \in 1 .. Len(ticking) : ts[i] = ticking[j]
      /\ \A i, k \in 1 .. Len(ts) :
           i # k => \E j, l \in 1 .. Len(ticking) :
                      j # l /\ ts[i] = ticking[j] /\ ts[k] = ticking[l]
      /\ \A j \in 1 .. Len(ticking) :
           ticking[j] \in others => \E i \in 1 .. Len(ts) : ts[i] = ticking[j]
  <2> DEFINE kept == Among(ticking, others)
  <2>1. kept \in Seq(TickerRecord)
    BY AmongProperties
  <2>2. \A i \in 1 .. Len(kept) : \E j \in 1 .. Len(ticking) : kept[i] = ticking[j]
    BY AmongProperties
  <2>3. \A i, k \in 1 .. Len(kept) :
          i # k => \E j, l \in 1 .. Len(ticking) :
                     j # l /\ kept[i] = ticking[j] /\ kept[k] = ticking[l]
    BY AmongProperties
  <2>4. \A j \in 1 .. Len(ticking) :
          ticking[j] \in others => \E i \in 1 .. Len(kept) : kept[i] = ticking[j]
    BY AmongProperties
  <2>5. ts = kept
    BY <1>1
  <2> HIDE DEF kept
  <2>6. \A i \in 1 .. Len(ts) : \E j \in 1 .. Len(ticking) : ts[i] = ticking[j]
    BY <2>2, <2>5
  <2>7. \A i, k \in 1 .. Len(ts) :
          i # k => \E j, l \in 1 .. Len(ticking) :
                     j # l /\ ts[i] = ticking[j] /\ ts[k] = ticking[l]
    <3> SUFFICES ASSUME NEW i \in 1 .. Len(ts), NEW k \in 1 .. Len(ts), i # k
                 PROVE  \E j, l \in 1 .. Len(ticking) :
                          j # l /\ ts[i] = ticking[j] /\ ts[k] = ticking[l]
      OBVIOUS
    <3>1. i \in 1 .. Len(kept) /\ k \in 1 .. Len(kept)
      BY <2>5
    <3>2. PICK j, l \in 1 .. Len(ticking) :
            j # l /\ kept[i] = ticking[j] /\ kept[k] = ticking[l]
      BY <2>3, <3>1, Zenon
    <3> QED
      BY <2>5, <3>2
  <2>8. \A j \in 1 .. Len(ticking) :
          ticking[j] \in others => \E i \in 1 .. Len(ts) : ts[i] = ticking[j]
    BY <2>4, <2>5
  <2> QED
    BY <2>1, <2>5, <2>6, <2>7, <2>8, Zenon
<1>4. DOMAIN ts = 1 .. Len(ts) /\ DOMAIN ticking = 1 .. Len(ticking)
  BY <1>3
<1>5. Apart(ts)
  <2> SUFFICES ASSUME NEW i \in DOMAIN ts, NEW k \in DOMAIN ts, i # k
               PROVE  ts[i].match # ts[k].match
    BY DEF Apart
  <2>1. PICK j, l \in DOMAIN ticking : j # l /\ ts[i] = ticking[j] /\ ts[k] = ticking[l]
    <3>1. i \in 1 .. Len(ts) /\ k \in 1 .. Len(ts)
      BY <1>4
    <3>2. PICK j, l \in 1 .. Len(ticking) : j # l /\ ts[i] = ticking[j] /\ ts[k] = ticking[l]
      BY <1>3, <3>1, Zenon
    <3> QED
      BY <1>4, <3>2
  <2> QED
    BY <2>1 DEF Apart
<1> QED
  BY <1>2, <1>3, <1>4, <1>5 DEF ts

\* The rematch begins, with its own ticker; the match it follows loses its.
LEMMA StartNextSound ==
  ASSUME IInv, NEW s \in DOMAIN phase, NEW m \in DOMAIN b.matches, StartNext(s, m)
  PROVE  IInv'
<1> SUFFICES ServerSound(b', phase', line', tickers', age', untold')
  BY DEF IInv
<1> DEFINE n == Len(b.matches) + 1
           players == b.matches[m].players
           match == NewMatch(players, TRUE, m)
           made == StartNextMatch(b, m)
           ts == Deactivated(tickers, m)
<1>1. /\ Sound(b) /\ Announced(untold, b) /\ Handled(b, phase, line) /\ s \in DOMAIN b.sessions
      /\ untold \subseteq SessionId \X MatchId
      /\ age \in [MatchId -> 0 .. MaxTicks] /\ Clocked(b, tickers, age)
      /\ \A t \in DOMAIN b.sessions : AgreesAt(b, phase[t], t)
  BY ServerParts
<1>2. /\ MayStartNextMatch(b, s, m)
      /\ phase' = phase /\ tickers' = Activated(ts, n)
      /\ line' = [line EXCEPT ![s] = "Heard"] /\ age' = age /\ untold' = untold
  BY DEF StartNext, Hears
<1>3. PICK over \in BOOLEAN : FlushedTo(TickMatch(made, n, over, TRUE))
  BY DEF StartNext
<1>4. Sound(made)
  BY <1>1, <1>2, StartNextMatchSound
<1>5. /\ made.sessions = SentTo(b, Players(b.matches[m]), Message("joined", n, 0))
      /\ made.matches = Append(b.matches, match)
  BY <1>1 DEF StartNextMatch, Sound, Typed, BackendRecord
<1>6. b.matches[m] \in MatchRecord /\ m \in MatchId
  BY <1>1, TypedParts DEF Sound
<1>7. players \in Seq(SessionId) /\ TRUE \in BOOLEAN /\ m \in {0} \cup MatchId
  BY <1>6 DEF MatchRecord
<1>8. match \in MatchRecord /\ match.players = players /\ match.started /\ match.tick = 0
  <2> HIDE DEF players
  <2> QED
    BY <1>7, NewMatchType, ZenonT(60)
<1>9. Players(match) = Players(b.matches[m])
  BY <1>8 DEF Players
<1> HIDE DEF match, made, players
<1>10. /\ DOMAIN made.matches = 1 .. n /\ DOMAIN b.matches = 1 .. Len(b.matches)
       /\ Len(b.matches) \in Nat /\ made.matches[n] = match
       /\ \A i \in DOMAIN b.matches : made.matches[i] = b.matches[i]
       /\ \A t : InAnyMatch(made, t) <=> InAnyMatch(b, t)
  <2>1. /\ DOMAIN made.matches = 1 .. n /\ DOMAIN b.matches = 1 .. Len(b.matches)
        /\ Len(b.matches) \in Nat /\ made.matches[n] = match
        /\ \A i \in DOMAIN b.matches : made.matches[i] = b.matches[i]
        /\ \A t : InAnyMatch(made, t) <=> InAnyMatch(b, t) \/ t \in Players(match)
    <3>1. made.matches = Append(b.matches, match) /\ match \in MatchRecord /\ Sound(b)
      BY <1>1, <1>5, <1>8
    <3> QED
      BY <3>1, AppendedIn
  <2>2. \A t : t \in Players(match) => InAnyMatch(b, t)
    BY <1>9 DEF InAnyMatch
  <2> QED
    BY <2>1, <2>2
<1>11. n \in DOMAIN made.matches /\ n \notin DOMAIN b.matches
       /\ (\A i \in DOMAIN made.matches : i # n => i \in DOMAIN b.matches)
       /\ DOMAIN b.matches \subseteq DOMAIN made.matches
  BY <1>10
<1>12. n \in MatchId
  BY <1>2, <1>10, BackendAssumption DEF MayStartNextMatch, MatchId
<1> HIDE DEF n
<1>13. /\ Message("joined", n, 0) \in MessageRecord /\ Message("joined", n, 0).kind = "joined"
       /\ Message("joined", n, 0) = Announcement(n)
  BY <1>12, BackendAssumption DEF Message, MessageRecord, Announcement
<1>14. /\ Len(made.sessions) = Len(b.sessions)
       /\ \A t \in DOMAIN b.sessions : made.sessions[t].auth \in {b.sessions[t].auth, "Closed"}
  BY <1>1, <1>5, <1>13, SentToType, SentToFades DEF Sound
<1> DEFINE ticked == TickMatch(made, n, over, TRUE)
<1>15. /\ Follows(made, ticked)
       /\ \A i \in DOMAIN made.matches : i # n => ticked.matches[i] = made.matches[i]
       /\ ticked.matches[n].tick \in {made.matches[n].tick, made.matches[n].tick + 1}
  <2>1. MayTick(made, n) /\ TRUE \in BOOLEAN
    BY <1>8, <1>10 DEF MayTick
  <2> QED
    BY <1>4, <1>11, <2>1, TickFollows
<1>16. PICK sent \in Flushes(ticked) : b' = FlushAll(ticked, sent)
  BY <1>3 DEF FlushedTo
<1> HIDE DEF ticked
<1>17. Follows(ticked, b') /\ b'.matches = ticked.matches
  BY <1>15, <1>16, FlushAllFollows DEF Follows
<1>18. Follows(made, b')
  BY <1>4, <1>15, <1>17, FollowsTransitive
<1>19. \A t \in DOMAIN b.sessions : AgreesAt(made, phase[t], t)
  BY <1>1, <1>10, <1>14, AgreementStays
<1>20. DOMAIN made.sessions = DOMAIN b.sessions
  BY <1>1, <1>4, <1>14, TypedParts DEF Sound
<1>26. Announced(untold, made)
  <2>1. ASSUME NEW t \in DOMAIN b.sessions
        PROVE  /\ Informed(Unheard(untold, t), b.sessions[t], made.sessions[t])
               /\ (t \in Players(match) /\ Open(made, t))
                    => Includes(AllOf(made.sessions[t]), Announcement(n))
    <3> DEFINE after == SentTo(b, Players(b.matches[m]), Announcement(n))
    <3>1. /\ Informed(Unheard(untold, t), b.sessions[t], after[t])
          /\ (t \in Players(b.matches[m]) /\ after[t].auth # "Closed")
               => Includes(AllOf(after[t]), Announcement(n))
      BY <1>1, <1>13, SentToInformed DEF Sound
    <3>2. made.sessions = after
      BY <1>5, <1>13
    <3> HIDE DEF after
    <3> QED
      BY <1>9, <3>1, <3>2 DEF Open
  <2>2. ASSUME NEW t \in DOMAIN b.sessions
        PROVE  /\ InOrder(Unheard(untold, t), AllOf(made.sessions[t]))
               /\ Open(made, t) => Open(b, t)
               /\ Open(made, t)
                    => \A i : Includes(AllOf(b.sessions[t]), Announcement(i))
                                => Includes(AllOf(made.sessions[t]), Announcement(i))
    BY <1>1, <2>1 DEF Announced, Informed, Open
  <2>3. ASSUME NEW t \in DOMAIN b.sessions, NEW i \in DOMAIN made.matches,
               t \in Players(made.matches[i]), Open(made, t)
        PROVE  i \in Unheard(untold, t) \/ Includes(AllOf(made.sessions[t]), Announcement(i))
    <3>1. CASE i = n
      BY <1>10, <2>1, <2>3, <3>1
    <3>2. CASE i # n
      <4>1. i \in DOMAIN b.matches /\ made.matches[i] = b.matches[i]
        BY <1>10, <1>11, <3>2
      <4> QED
        BY <1>1, <2>2, <2>3, <4>1 DEF Announced
    <3> QED
      BY <3>1, <3>2
  <2> QED
    BY <1>20, <2>2, <2>3 DEF Announced
<1>21. Handled(b', phase', line')
  <2>1. \A t \in DOMAIN b.sessions : AgreesAt(b', phase[t], t)
    BY <1>4, <1>18, <1>19, <1>20, FollowingAgrees
  <2>2. Sound(b') /\ Len(b'.sessions) = Len(b.sessions)
    BY <1>14, <1>18 DEF Follows
  <2>3. phase[s] \in Phases
    BY <1>1, HandlersAreSessions DEF Handled, Sound
  <2> QED
    BY <1>1, <1>2, <2>1, <2>2, <2>3, OneHandled
<1>22. /\ ts \in Seq(TickerRecord) /\ Apart(ts)
       /\ \A i \in DOMAIN ts : \E j \in DOMAIN tickers : ts[i] = tickers[j]
       /\ \A j \in DOMAIN tickers :
            tickers[j].match # m => \E i \in DOMAIN ts : ts[i].match = tickers[j].match
  <2>1. tickers \in Seq(TickerRecord) /\ Apart(tickers)
    BY <1>1 DEF Clocked
  <2> QED
    BY <2>1, DeactivatedKeeps
<1> HIDE DEF ts
<1>23. ClockedBut(made, ts, age, n)
  <2>1. \A j \in DOMAIN tickers : /\ Timed(made, tickers[j]) /\ OnTime(made, tickers[j], age)
                                  /\ tickers[j].match # n
    BY <1>1, <1>10, <1>11 DEF Clocked, Timed, OnTime
  <2>2. \A i \in DOMAIN ts : /\ Timed(made, ts[i]) /\ OnTime(made, ts[i], age)
                             /\ ts[i].match # n
    BY <1>22, <2>1
  <2>3. b.matches[m].finished
    BY <1>2 DEF MayStartNextMatch
  <2>4. ASSUME NEW i \in DOMAIN made.matches, i # n
        PROVE  /\ made.matches[i].started /\ ~made.matches[i].finished
                    => \E j \in DOMAIN ts : ts[j].match = i
               /\ made.matches[i].tick <= IF made.matches[i].started THEN age[i] + 1 ELSE 0
    <3>1. i \in DOMAIN b.matches /\ made.matches[i] = b.matches[i]
      BY <1>10, <1>11, <2>4
    <3>2. ASSUME b.matches[i].started, ~b.matches[i].finished
          PROVE  \E j \in DOMAIN ts : ts[j].match = i
      <4>1. PICK j \in DOMAIN tickers : tickers[j].match = i
        BY <1>1, <3>1, <3>2 DEF Clocked, AllTicked
      <4> QED
        BY <1>22, <2>3, <3>2, <4>1
    <3> QED
      BY <1>1, <3>1, <3>2 DEF Clocked, NotAhead
  <2> QED
    BY <1>22, <2>2, <2>4 DEF ClockedBut
<1>24. /\ \A i \in DOMAIN made.matches : i # n => b'.matches[i].tick = made.matches[i].tick
       /\ b'.matches[n].tick \in {0, 1}
  BY <1>8, <1>10, <1>15, <1>17
<1>25. Clocked(b', tickers', age')
  <2>1. made.matches[n].started /\ made.matches[n].tick = 0
    BY <1>8, <1>10
  <2> QED
    BY <1>1, <1>2, <1>4, <1>11, <1>18, <1>23, <1>24, <2>1, BegunClocked
<1>27. Announced(untold', b')
  BY <1>2, <1>18, <1>26 DEF Follows
<1> QED
  BY <1>1, <1>2, <1>18, <1>21, <1>25, <1>27 DEF ServerSound, Follows

\* All matches that are due are ticked, and then, perhaps, the queues flushed.
LEMMA AdvanceDueFollows ==
  ASSUME NEW c, Sound(c), age \in [MatchId -> 0 .. MaxTicks], Clocked(c, tickers, age),
         AdvanceDue(c)
  PROVE  Follows(c, b') /\ Clocked(b', tickers', age)
<1>1. PICK over \in [DOMAIN tickers -> 0 .. CatchUp] :
        /\ tickers' = Advance(c, tickers, over).ticking
        /\ IF \E i \in DOMAIN tickers : Due(tickers[i]) > 0
           THEN FlushedTo(Advance(c, tickers, over).backend)
           ELSE b' = Advance(c, tickers, over).backend
  BY DEF AdvanceDue
<1> DEFINE advanced == Advance(c, tickers, over)
           d == advanced.backend
<1>2. over \in [DOMAIN tickers -> Nat]
  BY ServerAssumption
<1>3. Follows(c, d) /\ Clocked(d, advanced.ticking, age)
  BY <1>2, AdvanceClocked
<1> HIDE DEF advanced
<1>4. Sound(d) /\ tickers' = advanced.ticking /\ (b' = d \/ FlushedTo(d))
  BY <1>1, <1>3 DEF Follows, advanced
<1>5. Follows(d, b') /\ b'.matches = d.matches
  <2>1. CASE b' = d
    BY <1>4, <2>1, FollowsReflexive
  <2>2. CASE FlushedTo(d)
    <3>1. PICK sent \in Flushes(d) : b' = FlushAll(d, sent)
      BY <2>2 DEF FlushedTo
    <3> HIDE DEF d
    <3> QED
      BY <1>4, <3>1, FlushAllFollows
  <2> QED
    BY <1>4, <2>1, <2>2
<1> HIDE DEF d
<1>6. Clocked(b', tickers', age)
  BY <1>3, <1>4, <1>5, FollowingClocked
<1>7. Sound(c) /\ Follows(c, b')
  BY <1>3, <1>5, FollowsTransitive
<1> QED
  BY <1>6, <1>7

\* A command is taken in, and time catches up.
LEMMA InputSound ==
  ASSUME IInv, NEW s \in DOMAIN phase, NEW m \in DOMAIN b.matches, NEW seq \in Seqs,
         Input(s, m, seq)
  PROVE  IInv'
<1> SUFFICES ServerSound(b', phase', line', tickers', age', untold')
  BY DEF IInv
<1> DEFINE taken == SubmitCommand(b, s, m, seq)
<1>1. /\ Sound(b) /\ Announced(untold, b) /\ Handled(b, phase, line) /\ s \in DOMAIN b.sessions
      /\ untold \subseteq SessionId \X MatchId
      /\ age \in [MatchId -> 0 .. MaxTicks] /\ Clocked(b, tickers, age)
  BY ServerParts
<1>2. /\ MaySubmitCommand(b, s, m, seq) /\ AdvanceDue(taken)
      /\ phase' = phase /\ line' = [line EXCEPT ![s] = "Heard"] /\ age' = age
      /\ untold' = untold
  BY DEF Input, Hears
<1>3. seq \in Nat
  BY ServerAssumption
<1>4. /\ Follows(b, taken)
      /\ \A n \in DOMAIN b.matches : taken.matches[n].tick = b.matches[n].tick
  BY <1>1, <1>2, <1>3, SubmitCommandFollows
<1> HIDE DEF taken
<1>5. Sound(taken) /\ Clocked(taken, tickers, age)
  BY <1>1, <1>4, FollowingClocked DEF Follows
<1>6. Follows(taken, b') /\ Clocked(b', tickers', age)
  BY <1>1, <1>2, <1>5, AdvanceDueFollows
<1>7. Follows(b, b')
  BY <1>1, <1>4, <1>6, FollowsTransitive
<1>8. Handled(b', phase', line')
  BY <1>1, <1>2, <1>7, FollowingHandled
<1> QED
  BY <1>1, <1>2, <1>6, <1>7, <1>8 DEF ServerSound, Follows

\* A read times out, and time catches up; or a message comes that changes nothing.
LEMMA WaitingSound ==
  ASSUME IInv, NEW s \in DOMAIN phase, TimedOut(s) \/ Chat(s)
  PROVE  IInv'
<1> SUFFICES ServerSound(b', phase', line', tickers', age', untold')
  BY DEF IInv
<1>1. /\ Sound(b) /\ Announced(untold, b) /\ Handled(b, phase, line) /\ s \in DOMAIN b.sessions
      /\ untold \subseteq SessionId \X MatchId
      /\ age \in [MatchId -> 0 .. MaxTicks] /\ Clocked(b, tickers, age)
  BY ServerParts
<1>2. PICK l \in {"Heard", "Quiet", "Silent"} :
        /\ phase' = phase /\ line' = [line EXCEPT ![s] = l] /\ age' = age /\ untold' = untold
        /\ AdvanceDue(b) \/ (b' = b /\ tickers' = tickers)
  BY DEF TimedOut, Chat, Hears
<1>3. Follows(b, b') /\ Clocked(b', tickers', age')
  <2>1. CASE AdvanceDue(b)
    BY <1>1, <1>2, <2>1, AdvanceDueFollows
  <2>2. CASE b' = b /\ tickers' = tickers
    BY <1>1, <1>2, <2>2, FollowsReflexive
  <2> QED
    BY <1>2, <2>1, <2>2
<1>4. Handled(b', phase', line')
  BY <1>1, <1>2, <1>3, FollowingHandled
<1> QED
  BY <1>1, <1>2, <1>3, <1>4 DEF ServerSound, Follows

\* A handler ends and leaves no open session.
LEMMA EndSound ==
  ASSUME IInv, NEW s \in DOMAIN phase, End(s)
  PROVE  IInv'
<1> SUFFICES ServerSound(b', phase', line', tickers', age', untold')
  BY DEF IInv
<1>1. /\ Sound(b) /\ Announced(untold, b) /\ Handled(b, phase, line) /\ s \in DOMAIN b.sessions
      /\ untold \subseteq SessionId \X MatchId
      /\ age \in [MatchId -> 0 .. MaxTicks] /\ Clocked(b, tickers, age)
      /\ \A t \in DOMAIN b.sessions : AgreesAt(b, phase[t], t)
  BY ServerParts
<1>2. /\ b' = Disconnect(b, s) /\ phase' = [phase EXCEPT ![s] = "Ended"]
      /\ line' = [line EXCEPT ![s] = "Quiet"] /\ tickers' = tickers /\ age' = age
      /\ untold' = untold
  BY DEF End
<1>3. /\ Follows(b, b') /\ ~Open(b', s)
      /\ \A n \in DOMAIN b.matches : b'.matches[n].tick = b.matches[n].tick
  BY <1>1, <1>2, DisconnectFollows
<1>4. AgreesAt(b', "Ended", s)
  BY <1>3 DEF AgreesAt
<1>5. \A t \in DOMAIN b.sessions : AgreesAt(b', phase[t], t)
  BY <1>1, <1>3, FollowingAgrees
<1>6. Handled(b', phase', line')
  BY <1>1, <1>2, <1>3, <1>4, <1>5, OneHandled DEF Phases, Follows
<1>7. Clocked(b', tickers', age')
  BY <1>1, <1>2, <1>3, FollowingClocked
<1> QED
  BY <1>1, <1>2, <1>3, <1>6, <1>7 DEF ServerSound, Follows

\* Time passes: each ticker is one interval later, and each match one older.
LEMMA ElapseSound == IInv /\ Elapse => IInv'
<1> SUFFICES ASSUME IInv, Elapse PROVE ServerSound(b', phase', line', tickers', age', untold')
  BY DEF IInv
<1>1. /\ Sound(b) /\ Announced(untold, b) /\ Handled(b, phase, line)
      /\ untold \subseteq SessionId \X MatchId
      /\ age \in [MatchId -> 0 .. MaxTicks] /\ Clocked(b, tickers, age)
  BY DEF IInv, ServerSound
<1>2. /\ b' = b /\ phase' = phase /\ untold' = untold
      /\ tickers' = [i \in DOMAIN tickers |-> Later(tickers[i])]
      /\ age' = [m \in MatchId |->
                   IF m \in DOMAIN b.matches /\ b.matches[m].started /\ age[m] < MaxTicks
                   THEN age[m] + 1 ELSE age[m]]
  BY DEF Elapse
<1> DEFINE next(s) == CASE phase[s] = "Ended" -> line[s]
                        [] line[s] = "Heard"  -> "Quiet"
                        [] OTHER              -> "Silent"
<1>3. line' = [s \in DOMAIN line |-> next(s)]
  BY DEF Elapse
<1>4. line \in Seq({"Heard", "Quiet", "Silent"})
  BY <1>1 DEF Handled
<1>5. \A s \in DOMAIN line : next(s) \in {"Heard", "Quiet", "Silent"}
  BY <1>4
<1> HIDE DEF next
<1>6. line' \in Seq({"Heard", "Quiet", "Silent"}) /\ Len(line') = Len(line)
  <2>1. Len(line) \in Nat /\ DOMAIN line = 1 .. Len(line)
    BY <1>4
  <2>2. line' \in [1 .. Len(line) -> {"Heard", "Quiet", "Silent"}]
    BY <1>3, <1>5, <2>1
  <2> QED
    BY <2>1, <2>2
<1>7. Handled(b', phase', line')
  BY <1>1, <1>2, <1>6 DEF Handled
<1>8. \A m \in MatchId : age[m] \in 0 .. MaxTicks /\ age'[m] \in 0 .. MaxTicks /\ age'[m] >= age[m]
  <2>1. \A m \in MatchId : age[m] \in 0 .. MaxTicks
    BY <1>1
  <2> QED
    BY <1>2, <2>1, BackendAssumption
<1>9. age' \in [MatchId -> 0 .. MaxTicks]
  BY <1>2, <1>8
<1>10. /\ tickers \in Seq(TickerRecord) /\ Len(tickers) \in Nat
       /\ DOMAIN tickers = 1 .. Len(tickers)
       /\ \A i \in DOMAIN tickers : tickers[i] \in TickerRecord
  BY <1>1 DEF Clocked
<1>11. ASSUME NEW ticker \in TickerRecord
       PROVE  /\ Later(ticker) \in TickerRecord /\ Later(ticker).match = ticker.match
              /\ Later(ticker).tickIn \in Int /\ ticker.tickIn \in Int
              /\ Later(ticker).tickIn <= ticker.tickIn
              /\ Later(ticker).tickIn >= ticker.tickIn - 1
  <2>1. ticker.match \in MatchId /\ ticker.tickIn \in Int /\ ticker.snapshotIn \in Int
    BY DEF TickerRecord
  <2> DEFINE later == [ticker EXCEPT !.tickIn = ticker.tickIn - 1,
                                     !.snapshotIn = ticker.snapshotIn - 1]
  <2>2. /\ later \in TickerRecord /\ later.match = ticker.match
        /\ later.tickIn = ticker.tickIn - 1
    <3> DEFINE t == ticker.tickIn - 1
               u == ticker.snapshotIn - 1
    <3>1. t \in Int /\ u \in Int
      BY <2>1
    <3>2. later = [ticker EXCEPT !.tickIn = t, !.snapshotIn = u]
      OBVIOUS
    <3> HIDE DEF t, u, later
    <3>3. later \in TickerRecord /\ later.match = ticker.match /\ later.tickIn = t
      BY <3>1, <3>2 DEF TickerRecord
    <3> QED
      BY <3>3 DEF t
  <2>3. Later(ticker) = IF ticker.tickIn = -MaxLag THEN ticker ELSE later
    BY DEF Later
  <2> HIDE DEF later
  <2> QED
    BY <2>1, <2>2, <2>3
<1>12. tickers' \in Seq(TickerRecord) /\ DOMAIN tickers' = DOMAIN tickers
  <2>1. tickers' \in [1 .. Len(tickers) -> TickerRecord]
    BY <1>2, <1>10, <1>11
  <2> QED
    BY <1>10, <2>1
<1>13. ASSUME NEW i \in DOMAIN tickers
       PROVE  /\ tickers'[i].match = tickers[i].match
              /\ Timed(b', tickers'[i]) /\ OnTime(b', tickers'[i], age')
  <2> DEFINE old == tickers[i]
             new == tickers'[i]
             m == old.match
  <2>1. new = Later(old) /\ old \in TickerRecord
    BY <1>2, <1>10
  <2>2. Timed(b, old) /\ OnTime(b, old, age)
    BY <1>1 DEF Clocked
  <2> HIDE DEF old, new
  <2>3. /\ new.match = m /\ new.tickIn \in Int /\ old.tickIn \in Int
        /\ new.tickIn <= old.tickIn /\ new.tickIn >= old.tickIn - 1
    BY <1>11, <2>1
  <2>4. m \in DOMAIN b.matches /\ b.matches[m].started /\ old.tickIn <= 1
    BY <2>2 DEF Timed
  <2>5. /\ b.matches[m].tick \in Nat /\ age[m] \in Nat /\ age[m] <= MaxTicks /\ m \in MatchId
    BY <1>1, <2>4, TicksAndAges
  <2>6. age'[m] = IF age[m] < MaxTicks THEN age[m] + 1 ELSE age[m]
    BY <1>2, <2>4, <2>5
  <2>7. age[m] = MaxTicks \/ b.matches[m].tick <= age[m] + old.tickIn
    BY <2>2 DEF OnTime
  <2> HIDE DEF m
  <2>8. age'[m] = MaxTicks \/ b.matches[m].tick <= age'[m] + new.tickIn
    BY <2>3, <2>5, <2>6, <2>7, BackendAssumption
  <2>9. Timed(b', new)
    BY <1>2, <2>3, <2>4 DEF Timed
  <2>10. OnTime(b', new, age')
    BY <1>2, <2>3, <2>8 DEF OnTime
  <2> QED
    BY <2>3, <2>9, <2>10 DEF old, new, m
<1>14. Apart(tickers')
  BY <1>1, <1>12, <1>13 DEF Clocked, Apart
<1>15. AllTicked(b', tickers')
  <2> SUFFICES ASSUME NEW m \in DOMAIN b.matches, b.matches[m].started, ~b.matches[m].finished
               PROVE  \E i \in DOMAIN tickers' : tickers'[i].match = m
    BY <1>2 DEF AllTicked
  <2>1. PICK i \in DOMAIN tickers : tickers[i].match = m
    BY <1>1 DEF Clocked, AllTicked
  <2>2. i \in DOMAIN tickers' /\ tickers'[i].match = m
    BY <1>12, <1>13, <2>1
  <2> QED
    BY <2>2
<1>16. NotAhead(b', age')
  <2> SUFFICES ASSUME NEW m \in DOMAIN b.matches
               PROVE  b.matches[m].tick <= IF b.matches[m].started THEN age'[m] + 1 ELSE 0
    BY <1>2 DEF NotAhead
  <2>1. m \in MatchId /\ b.matches[m].tick \in Nat /\ age[m] \in Nat
    BY <1>1, TicksAndAges
  <2>2. b.matches[m].tick <= IF b.matches[m].started THEN age[m] + 1 ELSE 0
    BY <1>1 DEF Clocked, NotAhead
  <2>3. age'[m] >= age[m] /\ age'[m] \in Nat
    BY <1>8, <2>1, BackendAssumption
  <2> QED
    BY <2>1, <2>2, <2>3
<1>17. Clocked(b', tickers', age')
  BY <1>12, <1>13, <1>14, <1>15, <1>16 DEF Clocked
<1> QED
  BY <1>1, <1>2, <1>7, <1>9, <1>17 DEF ServerSound

\* No step of any handler, and no passing of time, breaks the invariant.
LEMMA NextServerSound == IInv /\ [Next]_vars => IInv'
<1> SUFFICES ASSUME IInv, [Next]_vars PROVE IInv'
  OBVIOUS
<1>1. CASE Accept
  BY <1>1, AcceptSound
<1>2. CASE Elapse
  BY <1>2, ElapseSound
<1>3. ASSUME NEW s \in DOMAIN phase, Serve(s) PROVE IInv'
  <2>1. CASE Auth(s)
    BY <2>1, AuthSound
  <2>2. CASE Create(s)
    BY <2>2, CreateSound
  <2>3. CASE Chat(s) \/ TimedOut(s)
    BY <2>3, WaitingSound
  <2>4. CASE End(s)
    BY <2>4, EndSound
  <2>5. ASSUME NEW m \in DOMAIN b.matches, Join(s, m) PROVE IInv'
    BY <2>5, JoinSound
  <2>6. ASSUME NEW m \in DOMAIN b.matches, StartNext(s, m) PROVE IInv'
    BY <2>6, StartNextSound
  <2>7. ASSUME NEW m \in DOMAIN b.matches, NEW seq \in Seqs, Input(s, m, seq) PROVE IInv'
    BY <2>7, InputSound
  <2> QED
    BY <1>3, <2>1, <2>2, <2>3, <2>4, <2>5, <2>6, <2>7 DEF Serve
<1>4. CASE UNCHANGED vars
  BY <1>4 DEF vars, IInv
<1> QED
  BY <1>1, <1>2, <1>3, <1>4 DEF Next

(***************************************************************************)
(* The theorems.                                                           *)
(***************************************************************************)
\* The invariant holds whatever the clients do and however late the handlers are.
THEOREM InductiveInvariant == Spec => []IInv
BY InitServerSound, NextServerSound, PTL DEF Spec

\* The server's state has its types (main.cpp: the session's phase, the tickers).
THEOREM TypeCorrect == Spec => []TypeOK
<1>1. IInv => TypeOK
  BY DEF IInv, ServerSound, Sound, Typed, Handled, Clocked, Phases, TypeOK
<1> QED
  BY <1>1, InductiveInvariant, PTL

\* A player is told of its match before anything else of it, whoever began the match, however
\* the message was sent, and whatever was in its queue, unless its transport gave up the reply
\* to its own create or join (createMatch, joinMatch, startNextMatch, sendTcp,
\* flushTcpOutbound).
THEOREM MatchesAlwaysAnnouncedFirst == Spec => []EveryMatchIsAnnouncedFirst
<1>1. IInv => EveryMatchIsAnnouncedFirst
  <2> SUFFICES ASSUME IInv, NEW s \in DOMAIN b.sessions
               PROVE  LET told == b.sessions[s].wire \o b.sessions[s].queue
                      IN  \A i \in DOMAIN told :
                            (told[i].kind # "joined" /\ <<s, told[i].match>> \notin untold)
                              => \E j \in 1 .. i - 1 :
                                   told[j] = Message("joined", told[i].match, 0)
    BY DEF EveryMatchIsAnnouncedFirst
  <2> DEFINE told == AllOf(b.sessions[s])
  <2>1. Sound(b) /\ InOrder(Unheard(untold, s), told)
    BY DEF IInv, ServerSound, Announced
  <2>2. told \in Seq(MessageRecord)
    BY <2>1, TypedParts, AllOfType DEF Sound
  <2>3. DOMAIN told = 1 .. Len(told)
    BY <2>2
  <2> QED
    BY <2>1, <2>3 DEF InOrder, AllOf, Announcement, Unheard
<1> QED
  BY <1>1, InductiveInvariant, PTL

\* For any number of connections and matches: a handler is in the phase of a match exactly when
\* its client plays one, and one that has ended leaves no open session (handleTcpClient).
THEOREM HandlersAlwaysAgree == Spec => []PhasesAgree
<1>1. IInv => PhasesAgree
  <2> SUFFICES ASSUME IInv, NEW s \in DOMAIN phase PROVE AgreesAt(b, phase[s], s)
    BY DEF PhasesAgree, AgreesAt
  <2> QED
    BY ServerParts
<1> QED
  BY <1>1, InductiveInvariant, PTL

\* Every match that runs has one ticker, whatever rematches and ends there were
\* (activateTcpMatchTicker, deactivateTcpMatchTicker).
THEOREM RunningMatchesAlwaysTicked == Spec => []RunningMatchHasItsTicker
<1>1. IInv => RunningMatchHasItsTicker
  BY DEF IInv, ServerSound, Clocked, Apart, AllTicked, RunningMatchHasItsTicker
<1> QED
  BY <1>1, InductiveInvariant, PTL

\* However many handlers tick the matches, and however late, no match gets ahead of the clock
\* (advanceDueTcpMatches).
THEOREM NeverEarly == Spec => []NeverAheadOfTheClock
<1>1. IInv => NeverAheadOfTheClock
  <2> SUFFICES ASSUME IInv, NEW m \in DOMAIN b.matches PROVE b.matches[m].tick <= age[m] + 1
    BY DEF NeverAheadOfTheClock
  <2>1. /\ Sound(b) /\ age \in [MatchId -> 0 .. MaxTicks]
        /\ b.matches[m].tick <= IF b.matches[m].started THEN age[m] + 1 ELSE 0
    BY DEF IInv, ServerSound, Clocked, NotAhead
  <2> QED
    BY <2>1, TicksAndAges
<1> QED
  BY <1>1, InductiveInvariant, PTL
=============================================================================
