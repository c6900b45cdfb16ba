---------------------------- MODULE BackendProofs ----------------------------
(***************************************************************************)
(* What TLAPS proves of the backend's calls (BackendState), whoever makes  *)
(* them and whatever its limits are: a call that is accepted by a sound    *)
(* backend leaves a sound backend; and what it tells the sessions and does *)
(* with the commands of a match.                                           *)
(***************************************************************************)
EXTENDS BackendState, Runs, FiniteSetTheorems, SequenceTheorems

(***************************************************************************)
(* A sound backend.  Counted, GoneStay and Together are what MatchManager  *)
(* promises, for any backend; Settled is what they rest on.                *)
(***************************************************************************)
Typed(c) ==
  /\ c \in BackendRecord
  /\ Len(c.sessions) <= MaxSessions /\ Len(c.matches) <= MaxMatches

ClosedSessions(c) == DOMAIN c.sessions \ OpenSessions(c)

Counted(c) ==
  /\ c.activeSessions + c.totalClosed = Len(c.sessions)
  /\ c.activeSessions >= Cardinality(OpenSessions(c))
  /\ c.disconnects <= Cardinality(ClosedSessions(c))

GoneStay(c) ==
  /\ c.gone \subseteq DOMAIN c.sessions
  /\ \A s \in c.gone :
       /\ ~Open(c, s)
       /\ \A m \in DOMAIN c.matches :
            \A i \in DOMAIN c.matches[m].queue : c.matches[m].queue[i].session # s

Formed(match) ==
  /\ Cardinality(Players(match)) = Len(match.players)
  /\ Len(match.players) \in 1 .. 2
  /\ match.started <=> Len(match.players) = 2

FollowsFinished(c, i) ==
  c.matches[i].rematchOf # 0
    => /\ c.matches[i].rematchOf < i
       /\ c.matches[c.matches[i].rematchOf].finished
       /\ c.matches[c.matches[i].rematchOf].players = c.matches[i].players

ShareByRematch(c, i, j) ==
  (i < j /\ Players(c.matches[i]) \cap Players(c.matches[j]) # {})
    => c.matches[i].players = c.matches[j].players /\ c.matches[j].rematchOf # 0

Together(c) ==
  /\ \A i \in DOMAIN c.matches : Formed(c.matches[i]) /\ FollowsFinished(c, i)
  /\ \A i, j \in DOMAIN c.matches : ShareByRematch(c, i, j)

\* The players of a match have sessions, and it is over only after it has begun.
Settled(c) ==
  \A m \in DOMAIN c.matches :
    /\ Players(c.matches[m]) \subseteq DOMAIN c.sessions
    /\ c.matches[m].finished => c.matches[m].started
    /\ ~c.matches[m].finished => c.matches[m].tick < MaxTicks

Sound(c) == Typed(c) /\ Counted(c) /\ GoneStay(c) /\ Together(c) /\ Settled(c)

\* The sessions and matches of a typed backend.
LEMMA TypedParts ==
  ASSUME NEW c, Typed(c)
  PROVE  /\ c.sessions \in Seq(SessionRecord) /\ DOMAIN c.sessions = 1 .. Len(c.sessions)
         /\ Len(c.sessions) \in Nat /\ DOMAIN c.sessions \subseteq SessionId
         /\ c.matches \in Seq(MatchRecord) /\ DOMAIN c.matches = 1 .. Len(c.matches)
         /\ Len(c.matches) \in Nat /\ DOMAIN c.matches \subseteq MatchId
         /\ c.activeSessions \in Int /\ c.totalClosed \in Nat /\ c.disconnects \in Nat
         /\ c.gone \in SUBSET SessionId
         /\ \A s \in DOMAIN c.sessions : c.sessions[s] \in SessionRecord
         /\ \A m \in DOMAIN c.matches : c.matches[m] \in MatchRecord
<1>1. /\ c.sessions \in Seq(SessionRecord) /\ c.matches \in Seq(MatchRecord)
      /\ c.activeSessions \in Int /\ c.totalClosed \in Nat /\ c.disconnects \in Nat
      /\ c.gone \in SUBSET SessionId
  BY DEF Typed, BackendRecord
<1>2. /\ DOMAIN c.sessions = 1 .. Len(c.sessions) /\ Len(c.sessions) \in Nat
      /\ \A s \in DOMAIN c.sessions : c.sessions[s] \in SessionRecord
  BY <1>1
<1>3. /\ DOMAIN c.matches = 1 .. Len(c.matches) /\ Len(c.matches) \in Nat
      /\ \A m \in DOMAIN c.matches : c.matches[m] \in MatchRecord
  BY <1>1
<1>4. DOMAIN c.sessions \subseteq SessionId /\ DOMAIN c.matches \subseteq MatchId
  BY <1>2, <1>3, BackendAssumption DEF Typed, SessionId, MatchId
<1> QED
  BY <1>1, <1>2, <1>3, <1>4

\* The empty backend is sound.
LEMMA NoBackendSound == Sound(NoBackend)
<1> DEFINE c == NoBackend
<1>1. /\ c.sessions = <<>> /\ c.matches = <<>> /\ c.activeSessions = 0
      /\ c.totalClosed = 0 /\ c.disconnects = 0 /\ c.gone = {}
  BY DEF NoBackend
<1>2. Typed(c)
  <2>1. /\ <<>> \in Seq(SessionRecord) /\ <<>> \in Seq(MatchRecord)
        /\ Len(<<>>) = 0 /\ {} \in SUBSET SessionId
    OBVIOUS
  <2> QED
    BY <1>1, <2>1, BackendAssumption DEF NoBackend, Typed, BackendRecord
<1> HIDE DEF c
<1>3. DOMAIN c.sessions = {} /\ DOMAIN c.matches = {}
  BY <1>1
<1>4. Counted(c)
  <2>1. OpenSessions(c) = {} /\ ClosedSessions(c) = {}
    BY <1>3 DEF OpenSessions, ClosedSessions
  <2>2. Cardinality({}) = 0 /\ Len(<<>>) = 0
    BY FS_EmptySet
  <2> QED
    BY <1>1, <2>1, <2>2 DEF Counted
<1>5. Sound(c)
  BY <1>1, <1>2, <1>3, <1>4 DEF Sound, GoneStay, Together, Settled
<1> QED
  BY <1>5 DEF c

\* Open and closed sessions are finitely many and are all the sessions.
LEMMA OpenAndClosed ==
  ASSUME NEW c, Typed(c)
  PROVE  /\ IsFiniteSet(OpenSessions(c)) /\ IsFiniteSet(ClosedSessions(c))
         /\ Cardinality(OpenSessions(c)) \in Nat /\ Cardinality(ClosedSessions(c)) \in Nat
<1>1. IsFiniteSet(DOMAIN c.sessions)
  BY TypedParts, FS_Interval
<1>2. OpenSessions(c) \in SUBSET (DOMAIN c.sessions)
      /\ ClosedSessions(c) \in SUBSET (DOMAIN c.sessions)
  BY DEF OpenSessions, ClosedSessions
<1>3. IsFiniteSet(OpenSessions(c)) /\ IsFiniteSet(ClosedSessions(c))
  BY <1>1, <1>2, FS_Subset
<1> QED
  BY <1>3, FS_CardinalityType

\* The elements of two disjoint sets.
LEMMA DisjointUnion ==
  ASSUME NEW S, NEW T, IsFiniteSet(S), IsFiniteSet(T), S \cap T = {}
  PROVE  Cardinality(S \cup T) = Cardinality(S) + Cardinality(T)
<1>1. Cardinality(S) \in Nat /\ Cardinality(T) \in Nat
  BY FS_CardinalityType
<1>2. Cardinality(S \cup T) = Cardinality(S) + Cardinality(T) - Cardinality(S \cap T)
  BY FS_Union
<1>3. Cardinality(S \cap T) = 0
  BY FS_EmptySet
<1> QED
  BY <1>1, <1>2, <1>3

(***************************************************************************)
(* When sessions of c are closed to give d, the counts stay right as long  *)
(* as no session is counted that was not open: not in activeSessions, and  *)
(* not in disconnects.                                                     *)
(***************************************************************************)
LEMMA ClosingKeepsCounted ==
  ASSUME NEW c, NEW d, Typed(c), Typed(d), Counted(c),
         Len(d.sessions) = Len(c.sessions),
         OpenSessions(d) \subseteq OpenSessions(c),
         d.activeSessions + d.totalClosed = c.activeSessions + c.totalClosed,
         c.activeSessions - d.activeSessions
           <= Cardinality(OpenSessions(c) \ OpenSessions(d)),
         d.disconnects - c.disconnects <= Cardinality(OpenSessions(c) \ OpenSessions(d))
  PROVE  Counted(d)
<1> DEFINE lost == OpenSessions(c) \ OpenSessions(d)
<1>1. DOMAIN d.sessions = DOMAIN c.sessions
  BY TypedParts
<1>2. /\ OpenSessions(c) = OpenSessions(d) \cup lost /\ OpenSessions(d) \cap lost = {}
      /\ ClosedSessions(d) = ClosedSessions(c) \cup lost /\ ClosedSessions(c) \cap lost = {}
  <2>1. OpenSessions(c) \subseteq DOMAIN c.sessions
    BY DEF OpenSessions
  <2> QED
    BY <1>1, <2>1 DEF ClosedSessions
<1>3. IsFiniteSet(lost) /\ Cardinality(lost) \in Nat
  <2>1. lost \in SUBSET OpenSessions(c)
    OBVIOUS
  <2> QED
    BY <2>1, OpenAndClosed, FS_Subset, FS_CardinalityType
<1> HIDE DEF lost
<1>4. Cardinality(OpenSessions(c)) = Cardinality(OpenSessions(d)) + Cardinality(lost)
  BY <1>2, <1>3, OpenAndClosed, DisjointUnion
<1>5. Cardinality(ClosedSessions(d)) = Cardinality(ClosedSessions(c)) + Cardinality(lost)
  BY <1>2, <1>3, OpenAndClosed, DisjointUnion
<1>6. /\ c.activeSessions - d.activeSessions <= Cardinality(lost)
      /\ d.disconnects - c.disconnects <= Cardinality(lost)
  BY DEF lost
<1>7. /\ Cardinality(OpenSessions(c)) \in Nat /\ Cardinality(OpenSessions(d)) \in Nat
      /\ Cardinality(ClosedSessions(c)) \in Nat /\ Cardinality(ClosedSessions(d)) \in Nat
      /\ c.activeSessions \in Int /\ d.activeSessions \in Int
      /\ c.disconnects \in Nat /\ d.disconnects \in Nat
  BY OpenAndClosed, TypedParts
<1>8. /\ c.activeSessions + c.totalClosed = Len(c.sessions)
      /\ c.activeSessions >= Cardinality(OpenSessions(c))
      /\ c.disconnects <= Cardinality(ClosedSessions(c))
  BY DEF Counted
<1>9. d.activeSessions + d.totalClosed = Len(d.sessions)
  BY <1>8
<1>10. d.activeSessions >= Cardinality(OpenSessions(d))
  BY <1>3, <1>4, <1>6, <1>7, <1>8
<1>11. d.disconnects <= Cardinality(ClosedSessions(d))
  BY <1>3, <1>5, <1>6, <1>7, <1>8
<1> QED
  BY <1>9, <1>10, <1>11 DEF Counted

(***************************************************************************)
(* Sessions.                                                               *)
(***************************************************************************)
\* Together is about the matches only.
LEMMA SameMatchesTogether ==
  ASSUME NEW c, NEW d, Together(c), d.matches = c.matches
  PROVE  Together(d)
<1>1. \A i : FollowsFinished(c, i) <=> FollowsFinished(d, i)
  BY DEF FollowsFinished
<1>2. \A i, j : ShareByRematch(c, i, j) <=> ShareByRematch(d, i, j)
  BY DEF ShareByRematch
<1> QED
  BY <1>1, <1>2 DEF Together

\* A call that changes only sessions, and opens none, keeps the rest sound.
LEMMA SessionsOnlySound ==
  ASSUME NEW c, NEW d, Sound(c), Typed(d), Counted(d),
         d.matches = c.matches, d.gone = c.gone,
         Len(d.sessions) = Len(c.sessions),
         OpenSessions(d) \subseteq OpenSessions(c)
  PROVE  Sound(d)
<1>1. DOMAIN d.sessions = DOMAIN c.sessions
  BY TypedParts DEF Sound
<1>2. GoneStay(d)
  <2>1. ASSUME NEW s \in c.gone PROVE ~Open(d, s)
    BY <1>1, <2>1 DEF Sound, GoneStay, OpenSessions
  <2> QED
    BY <1>1, <2>1 DEF Sound, GoneStay
<1>3. Together(d)
  BY SameMatchesTogether DEF Sound
<1>4. Settled(d)
  BY <1>1 DEF Sound, Settled
<1> QED
  BY <1>2, <1>3, <1>4 DEF Sound

\* A closed session keeps its history only.
LEMMA ClosedSessionType ==
  ASSUME NEW session \in SessionRecord
  PROVE  ClosedSession(session) \in SessionRecord /\ ClosedSession(session).auth = "Closed"
<1>1. <<>> \in Seq(MessageRecord)
  OBVIOUS
<1>2. [session EXCEPT !.auth = "Closed"] \in SessionRecord
  BY DEF SessionRecord
<1>3. [[session EXCEPT !.auth = "Closed"] EXCEPT !.queue = <<>>] \in SessionRecord
  BY <1>1, <1>2 DEF SessionRecord
<1> QED
  BY <1>2, <1>3 DEF ClosedSession, SessionRecord

\* What enqueueing a message does to a session.
LEMMA EnqueueOutboundType ==
  ASSUME NEW session \in SessionRecord, NEW message \in MessageRecord
  PROVE  /\ EnqueueOutbound(session, message) \in SessionRecord
         /\ EnqueueOutbound(session, message).auth # "Closed"
              <=> session.auth # "Closed" /\ ~Overflows(session)
<1>1. session.queue \in Seq(MessageRecord) /\ Append(session.queue, message) \in Seq(MessageRecord)
  BY DEF SessionRecord
<1>2. ClosedSession(session) \in SessionRecord /\ ClosedSession(session).auth = "Closed"
  BY ClosedSessionType
<1>3. [session EXCEPT !.queue = Append(@, message)] \in SessionRecord
      /\ [session EXCEPT !.queue = Append(@, message)].auth = session.auth
  BY <1>1 DEF SessionRecord
<1>4. Overflows(session) => session.auth # "Closed"
  BY DEF Overflows
<1> HIDE DEF ClosedSession
<1> QED
  BY <1>2, <1>3, <1>4 DEF EnqueueOutbound

\* What flushing does to a session: it may close it.
LEMMA FlushOutboundType ==
  ASSUME NEW session \in SessionRecord, NEW sent \in 0 .. Len(session.queue)
  PROVE  /\ FlushOutbound(session, sent) \in SessionRecord
         /\ FlushOutbound(session, sent).auth \in {session.auth, "Closed"}
<1> DEFINE told == Among(SubSeq(session.queue, 1, sent), Remembered)
           handed == [session EXCEPT !.wire = @ \o told]
<1>1. session.queue \in Seq(MessageRecord) /\ session.wire \in Seq(MessageRecord)
  BY DEF SessionRecord
<1>2. SubSeq(session.queue, 1, sent) \in Seq(MessageRecord)
  BY <1>1
<1>3. told \in Seq(MessageRecord)
  BY <1>2, AmongProperties
<1>4. FlushOutbound(session, sent) =
        IF session.auth = "Closed" THEN session
        ELSE IF sent < Len(session.queue) THEN ClosedSession(handed)
             ELSE [handed EXCEPT !.queue = <<>>]
  BY DEF FlushOutbound
<1> HIDE DEF told
<1>5. handed \in SessionRecord /\ handed.auth = session.auth
  <2>1. session.wire \o told \in Seq(MessageRecord)
    BY <1>1, <1>3
  <2> QED
    BY <2>1 DEF SessionRecord
<1> HIDE DEF handed
<1>6. ClosedSession(handed) \in SessionRecord /\ ClosedSession(handed).auth = "Closed"
  BY <1>5, ClosedSessionType
<1>7. [handed EXCEPT !.queue = <<>>] \in SessionRecord
      /\ [handed EXCEPT !.queue = <<>>].auth = session.auth
  <2>1. <<>> \in Seq(MessageRecord)
    OBVIOUS
  <2> QED
    BY <1>5, <2>1 DEF SessionRecord
<1> QED
  BY <1>4, <1>6, <1>7

\* One session of a typed backend is replaced.
LEMMA OneSessionType ==
  ASSUME NEW c, Typed(c), NEW s \in DOMAIN c.sessions, NEW session \in SessionRecord
  PROVE  LET d == [c EXCEPT !.sessions[s] = session]
         IN  /\ Typed(d) /\ Len(d.sessions) = Len(c.sessions)
             /\ d.sessions[s] = session
             /\ \A t \in DOMAIN c.sessions : t # s => d.sessions[t] = c.sessions[t]
             /\ d.matches = c.matches /\ d.gone = c.gone /\ d.disconnects = c.disconnects
             /\ d.activeSessions = c.activeSessions /\ d.totalClosed = c.totalClosed
<1> DEFINE ss == [c.sessions EXCEPT ![s] = session]
           d == [c EXCEPT !.sessions = ss]
<1>1. [c EXCEPT !.sessions[s] = session] = d
  OBVIOUS
<1>2. c.sessions \in Seq(SessionRecord) /\ s \in 1 .. Len(c.sessions)
  BY TypedParts
<1>3. /\ ss \in Seq(SessionRecord) /\ Len(ss) = Len(c.sessions)
      /\ \A t \in 1 .. Len(c.sessions) : ss[t] = IF t = s THEN session ELSE c.sessions[t]
  BY <1>2, ExceptSeq
<1> HIDE DEF ss
<1>4. /\ d \in BackendRecord /\ d.sessions = ss
      /\ d.matches = c.matches /\ d.gone = c.gone /\ d.disconnects = c.disconnects
      /\ d.activeSessions = c.activeSessions /\ d.totalClosed = c.totalClosed
  BY <1>3 DEF Typed, BackendRecord
<1> HIDE DEF d
<1>5. Typed(d)
  BY <1>3, <1>4 DEF Typed
<1> QED
  BY <1>1, <1>2, <1>3, <1>4, <1>5, TypedParts

\* A flushed session may be closed, which the registry is not told (flushOutbound).
LEMMA FlushSound ==
  ASSUME NEW c, Sound(c), NEW s \in DOMAIN c.sessions, NEW sent \in 0 .. Len(c.sessions[s].queue)
  PROVE  Sound(Flush(c, s, sent))
<1> DEFINE session == FlushOutbound(c.sessions[s], sent)
           d == [c EXCEPT !.sessions[s] = session]
<1>1. Flush(c, s, sent) = d
  BY DEF Flush
<1>2. session \in SessionRecord /\ session.auth \in {c.sessions[s].auth, "Closed"}
  BY TypedParts, FlushOutboundType DEF Sound
<1> HIDE DEF session
<1>3. /\ Typed(d) /\ Len(d.sessions) = Len(c.sessions) /\ d.sessions[s] = session
      /\ \A t \in DOMAIN c.sessions : t # s => d.sessions[t] = c.sessions[t]
      /\ d.matches = c.matches /\ d.gone = c.gone /\ d.disconnects = c.disconnects
      /\ d.activeSessions = c.activeSessions /\ d.totalClosed = c.totalClosed
  BY <1>2, OneSessionType DEF Sound
<1> HIDE DEF d
<1>4. OpenSessions(d) \subseteq OpenSessions(c)
  <2>1. DOMAIN d.sessions = DOMAIN c.sessions
    BY <1>3, TypedParts DEF Sound
  <2> QED
    BY <1>2, <1>3, <2>1 DEF OpenSessions, Open
<1>5. Counted(d)
  <2>1. Cardinality(OpenSessions(c) \ OpenSessions(d)) >= 0
    <3>1. IsFiniteSet(OpenSessions(c) \ OpenSessions(d))
      BY OpenAndClosed, FS_Difference DEF Sound
    <3> QED
      BY <3>1, FS_CardinalityType
  <2>2. /\ c.activeSessions - d.activeSessions = 0 /\ d.disconnects - c.disconnects = 0
    BY <1>3, TypedParts DEF Sound
  <2> QED
    BY <1>3, <1>4, <2>1, <2>2, ClosingKeepsCounted DEF Sound
<1> QED
  BY <1>1, <1>3, <1>4, <1>5, SessionsOnlySound
\* Logging in opens no session (authenticate).
LEMMA AuthenticateSound ==
  ASSUME NEW c, Sound(c), NEW s \in DOMAIN c.sessions, Open(c, s)
  PROVE  Sound(Authenticate(c, s))
<1> DEFINE session == [c.sessions[s] EXCEPT !.auth = "Authenticated"]
           d == [c EXCEPT !.sessions[s] = session]
<1>1. Authenticate(c, s) = d
  BY DEF Authenticate
<1>2. session \in SessionRecord /\ session.auth = "Authenticated"
  <2>1. c.sessions[s] \in SessionRecord
    BY TypedParts DEF Sound
  <2> QED
    BY <2>1 DEF SessionRecord
<1> HIDE DEF session
<1>3. /\ Typed(d) /\ Len(d.sessions) = Len(c.sessions) /\ d.sessions[s] = session
      /\ \A t \in DOMAIN c.sessions : t # s => d.sessions[t] = c.sessions[t]
      /\ d.matches = c.matches /\ d.gone = c.gone /\ d.disconnects = c.disconnects
      /\ d.activeSessions = c.activeSessions /\ d.totalClosed = c.totalClosed
  BY <1>2, OneSessionType DEF Sound
<1> HIDE DEF d
<1>4. DOMAIN d.sessions = DOMAIN c.sessions
  BY <1>3, TypedParts DEF Sound
<1>5. OpenSessions(d) = OpenSessions(c)
  <2>1. ASSUME NEW t \in DOMAIN c.sessions PROVE Open(d, t) <=> Open(c, t)
    BY <1>2, <1>3 DEF Open
  <2> QED
    BY <1>4, <2>1 DEF OpenSessions
<1>6. Counted(d)
  BY <1>3, <1>4, <1>5 DEF Sound, Counted, ClosedSessions
<1> QED
  BY <1>1, <1>3, <1>5, <1>6, SessionsOnlySound

\* The registry closes a session once, and takes it off its count (closeSession).
LEMMA CloseSessionSound ==
  ASSUME NEW c, Sound(c), NEW s \in DOMAIN c.sessions
  PROVE  /\ Sound(CloseSession(c, s))
         /\ Len(CloseSession(c, s).sessions) = Len(c.sessions)
         /\ OpenSessions(CloseSession(c, s)) = OpenSessions(c) \ {s}
         /\ CloseSession(c, s).matches = c.matches /\ CloseSession(c, s).gone = c.gone
         /\ CloseSession(c, s).disconnects = c.disconnects
<1>1. CASE ~Open(c, s)
  BY <1>1 DEF CloseSession, OpenSessions
<1>2. CASE Open(c, s)
  <2> DEFINE session == ClosedSession(c.sessions[s])
             e == [c EXCEPT !.sessions[s] = session]
             d == [e EXCEPT !.activeSessions = @ - 1, !.totalClosed = @ + 1]
  <2>1. session \in SessionRecord /\ session.auth = "Closed"
    BY TypedParts, ClosedSessionType DEF Sound
  <2>2. CloseSession(c, s) = d
    <3>1. CloseSession(c, s) = [c EXCEPT !.sessions[s] = ClosedSession(c.sessions[s]),
                                         !.activeSessions = c.activeSessions - 1,
                                         !.totalClosed = c.totalClosed + 1]
      BY <1>2 DEF CloseSession
    <3>2. c \in BackendRecord
      BY DEF Sound, Typed
    <3> HIDE DEF session
    <3>3. session = ClosedSession(c.sessions[s])
      BY DEF session
    <3> QED
      BY <3>1, <3>2, <3>3 DEF BackendRecord
  <2> HIDE DEF session
  <2>3. /\ Typed(e) /\ Len(e.sessions) = Len(c.sessions) /\ e.sessions[s] = session
        /\ \A t \in DOMAIN c.sessions : t # s => e.sessions[t] = c.sessions[t]
        /\ e.matches = c.matches /\ e.gone = c.gone /\ e.disconnects = c.disconnects
        /\ e.activeSessions = c.activeSessions /\ e.totalClosed = c.totalClosed
    BY <2>1, OneSessionType DEF Sound
  <2> HIDE DEF e
  <2>4. /\ d \in BackendRecord /\ d.sessions = e.sessions
        /\ d.matches = c.matches /\ d.gone = c.gone /\ d.disconnects = c.disconnects
        /\ d.activeSessions = c.activeSessions - 1 /\ d.totalClosed = c.totalClosed + 1
    <3>1. e \in BackendRecord /\ e.activeSessions - 1 \in Int /\ e.totalClosed + 1 \in Nat
      BY <2>3, TypedParts DEF Typed
    <3> QED
      BY <2>3, <3>1 DEF BackendRecord
  <2> HIDE DEF d
  <2>5. Typed(d)
    BY <2>3, <2>4 DEF Typed
  <2>6. DOMAIN d.sessions = DOMAIN c.sessions
    BY <2>3, <2>4, TypedParts DEF Sound
  <2>7. OpenSessions(d) = OpenSessions(c) \ {s}
    <3>1. ~Open(d, s) /\ \A t \in DOMAIN c.sessions : t # s => (Open(d, t) <=> Open(c, t))
      BY <2>1, <2>3, <2>4 DEF Open
    <3> QED
      BY <2>6, <3>1 DEF OpenSessions
  <2>8. Counted(d)
    <3>1. OpenSessions(c) \ OpenSessions(d) = {s}
      BY <1>2, <2>7 DEF OpenSessions
    <3>2. Cardinality(OpenSessions(c) \ OpenSessions(d)) = 1
      BY <3>1, FS_Singleton
    <3>3. /\ c.activeSessions - d.activeSessions = 1 /\ d.disconnects - c.disconnects = 0
          /\ d.activeSessions + d.totalClosed = c.activeSessions + c.totalClosed
      <4>1. c.activeSessions \in Int /\ c.totalClosed \in Nat /\ c.disconnects \in Nat
        BY TypedParts DEF Sound
      <4> QED
        BY <2>4, <4>1
    <3> QED
      BY <2>3, <2>4, <2>5, <2>7, <3>2, <3>3, ClosingKeepsCounted DEF Sound
  <2> QED
    BY <2>2, <2>3, <2>4, <2>5, <2>7, <2>8, SessionsOnlySound
<1> QED
  BY <1>1, <1>2

\* A new session is open and counted as active (createSession).
LEMMA CreateSessionSound ==
  ASSUME NEW c, Sound(c), MayCreateSession(c)
  PROVE  Sound(CreateSession(c))
<1> DEFINE n == Len(c.sessions) + 1
           session == [auth |-> "Connected", queue |-> <<>>, wire |-> <<>>]
           ss == Append(c.sessions, session)
           d == [c EXCEPT !.sessions = ss, !.activeSessions = @ + 1]
<1>1. CreateSession(c) = d
  BY DEF CreateSession
<1>2. session \in SessionRecord /\ session.auth # "Closed"
  <2>1. <<>> \in Seq(MessageRecord)
    OBVIOUS
  <2> QED
    BY <2>1 DEF SessionRecord
<1> HIDE DEF session
<1>3. c.sessions \in Seq(SessionRecord) /\ Len(c.sessions) \in Nat
      /\ DOMAIN c.sessions = 1 .. Len(c.sessions)
  BY TypedParts DEF Sound
<1>4. /\ ss \in Seq(SessionRecord) /\ Len(ss) = n /\ ss[n] = session
      /\ \A t \in 1 .. Len(c.sessions) : ss[t] = c.sessions[t]
  BY <1>2, <1>3, AppendProperties
<1> HIDE DEF ss
<1>5. /\ d \in BackendRecord /\ d.sessions = ss
      /\ d.matches = c.matches /\ d.gone = c.gone /\ d.disconnects = c.disconnects
      /\ d.activeSessions = c.activeSessions + 1 /\ d.totalClosed = c.totalClosed
  <2>1. c \in BackendRecord /\ c.activeSessions + 1 \in Int
    BY TypedParts DEF Sound, Typed
  <2> QED
    BY <1>4, <2>1 DEF BackendRecord
<1> HIDE DEF d
<1>6. Typed(d)
  BY <1>3, <1>4, <1>5, BackendAssumption DEF Typed, Sound, MayCreateSession
<1>7. DOMAIN d.sessions = DOMAIN c.sessions \cup {n} /\ n \notin DOMAIN c.sessions
  <2>1. DOMAIN d.sessions = 1 .. n
    BY <1>4, <1>5, <1>6, TypedParts
  <2> QED
    BY <1>3, <2>1
<1>8. Open(d, n) /\ \A t \in DOMAIN c.sessions : Open(d, t) <=> Open(c, t)
  BY <1>2, <1>3, <1>4, <1>5 DEF Open
<1>9. Counted(d)
  <2>1. OpenSessions(d) = OpenSessions(c) \cup {n} /\ n \notin OpenSessions(c)
        /\ ClosedSessions(d) = ClosedSessions(c)
    BY <1>7, <1>8 DEF OpenSessions, ClosedSessions
  <2>2. Cardinality(OpenSessions(d)) = Cardinality(OpenSessions(c)) + 1
    BY <2>1, OpenAndClosed, FS_AddElement DEF Sound
  <2>3. Cardinality(OpenSessions(c)) \in Nat /\ c.activeSessions \in Int /\ c.totalClosed \in Nat
    BY OpenAndClosed, TypedParts DEF Sound
  <2>4. /\ c.activeSessions + c.totalClosed = Len(c.sessions)
        /\ c.activeSessions >= Cardinality(OpenSessions(c))
        /\ c.disconnects <= Cardinality(ClosedSessions(c))
    BY DEF Sound, Counted
  <2>5. d.activeSessions + d.totalClosed = Len(d.sessions)
    BY <1>3, <1>4, <1>5, <2>3, <2>4, SMTT(40)
  <2>6. d.activeSessions >= Cardinality(OpenSessions(d))
    BY <1>5, <2>2, <2>3, <2>4
  <2>7. d.disconnects <= Cardinality(ClosedSessions(d))
    BY <1>5, <2>1, <2>4
  <2> QED
    BY <2>5, <2>6, <2>7 DEF Counted
<1>10. GoneStay(d)
  BY <1>5, <1>7, <1>8 DEF Sound, GoneStay
<1>11. Together(d)
  BY <1>5, SameMatchesTogether DEF Sound
<1>12. Settled(d)
  BY <1>5, <1>7 DEF Sound, Settled
<1> QED
  BY <1>1, <1>6, <1>9, <1>10, <1>11, <1>12 DEF Sound
\* A message sent to several sessions closes the ones whose queues are full.
LEMMA SentToType ==
  ASSUME NEW c, Typed(c), NEW players, NEW message \in MessageRecord
  PROVE  LET ss == SentTo(c, players, message)
         IN  /\ ss \in Seq(SessionRecord) /\ Len(ss) = Len(c.sessions)
             /\ \A s \in DOMAIN c.sessions :
                  ss[s].auth # "Closed"
                    <=> Open(c, s) /\ ~(s \in players /\ Overflows(c.sessions[s]))
<1> DEFINE new(s) == IF s \in players THEN EnqueueOutbound(c.sessions[s], message)
                     ELSE c.sessions[s]
           ss == [s \in DOMAIN c.sessions |-> new(s)]
<1>1. SentTo(c, players, message) = ss
  BY DEF SentTo
<1>2. ASSUME NEW s \in DOMAIN c.sessions
      PROVE  /\ new(s) \in SessionRecord
             /\ new(s).auth # "Closed"
                  <=> Open(c, s) /\ ~(s \in players /\ Overflows(c.sessions[s]))
  <2>1. c.sessions[s] \in SessionRecord
    BY TypedParts
  <2>2. CASE s \in players
    BY <2>1, <2>2, EnqueueOutboundType DEF Open
  <2>3. CASE s \notin players
    BY <2>1, <2>3 DEF Open
  <2> QED
    BY <2>2, <2>3
<1> HIDE DEF new
<1>3. DOMAIN c.sessions = 1 .. Len(c.sessions) /\ Len(c.sessions) \in Nat
  BY TypedParts
<1>4. ss \in [1 .. Len(c.sessions) -> SessionRecord]
  BY <1>2, <1>3
<1>5. ss \in Seq(SessionRecord) /\ Len(ss) = Len(c.sessions)
  BY <1>3, <1>4
<1>6. \A s \in DOMAIN c.sessions : ss[s] = new(s)
  OBVIOUS
<1> QED
  BY <1>1, <1>2, <1>5, <1>6

\* A broadcast counts exactly the sessions it closes as disconnected (broadcast).
LEMMA BroadcastSound ==
  ASSUME NEW c, Sound(c), NEW m \in DOMAIN c.matches, NEW message \in MessageRecord
  PROVE  /\ Sound(Broadcast(c, m, message))
         /\ Broadcast(c, m, message).matches = c.matches
<1> DEFINE players == Players(c.matches[m])
           ss == SentTo(c, players, message)
           lost == {s \in players : Overflows(c.sessions[s])}
           d == [c EXCEPT !.sessions = ss, !.disconnects = @ + Cardinality(lost)]
<1>1. Broadcast(c, m, message) = d
  BY DEF Broadcast
<1>2. players \subseteq DOMAIN c.sessions
  BY DEF Sound, Settled
<1> HIDE DEF players
<1>3. /\ ss \in Seq(SessionRecord) /\ Len(ss) = Len(c.sessions)
      /\ \A s \in DOMAIN c.sessions :
           ss[s].auth # "Closed"
             <=> Open(c, s) /\ ~(s \in players /\ Overflows(c.sessions[s]))
  BY SentToType DEF Sound
<1> HIDE DEF ss
<1>4. lost \subseteq OpenSessions(c)
  BY <1>2 DEF OpenSessions, Open, Overflows
<1>5. IsFiniteSet(lost) /\ Cardinality(lost) \in Nat
  <2>1. lost \in SUBSET OpenSessions(c)
    BY <1>4
  <2> HIDE DEF lost
  <2> QED
    BY <2>1, OpenAndClosed, FS_Subset, FS_CardinalityType DEF Sound
<1>6. \A s \in DOMAIN c.sessions : ss[s].auth # "Closed" <=> Open(c, s) /\ s \notin lost
  BY <1>3
<1> HIDE DEF lost
<1>7. /\ d \in BackendRecord /\ d.sessions = ss
      /\ d.matches = c.matches /\ d.gone = c.gone
      /\ d.disconnects = c.disconnects + Cardinality(lost)
      /\ d.activeSessions = c.activeSessions /\ d.totalClosed = c.totalClosed
  <2>1. c \in BackendRecord /\ c.disconnects + Cardinality(lost) \in Nat
    BY <1>5, TypedParts DEF Sound, Typed
  <2> QED
    BY <1>3, <2>1 DEF BackendRecord
<1> HIDE DEF d
<1>8. Typed(d)
  BY <1>3, <1>7 DEF Sound, Typed
<1>9. DOMAIN d.sessions = DOMAIN c.sessions
  BY <1>3, <1>7, <1>8, TypedParts DEF Sound
<1>10. OpenSessions(d) = OpenSessions(c) \ lost
  BY <1>6, <1>7, <1>9 DEF OpenSessions, Open
<1>11. Counted(d)
  <2>1. OpenSessions(c) \ OpenSessions(d) = lost
    BY <1>4, <1>10
  <2>2. /\ d.disconnects - c.disconnects = Cardinality(lost)
        /\ c.activeSessions - d.activeSessions = 0
        /\ Cardinality(lost) >= 0 /\ Cardinality(lost) <= Cardinality(lost)
        /\ d.activeSessions + d.totalClosed = c.activeSessions + c.totalClosed
    <3>1. c.activeSessions \in Int /\ c.disconnects \in Nat
      BY TypedParts DEF Sound
    <3> QED
      BY <1>5, <1>7, <3>1
  <2>3. OpenSessions(d) \subseteq OpenSessions(c) /\ Len(d.sessions) = Len(c.sessions)
    BY <1>3, <1>7, <1>10
  <2> QED
    BY <1>8, <2>1, <2>2, <2>3, ClosingKeepsCounted DEF Sound
<1> QED
  BY <1>1, <1>3, <1>7, <1>8, <1>10, <1>11, SessionsOnlySound

(***************************************************************************)
(* Matches.                                                                *)
(***************************************************************************)
\* What one match may become without touching who plays it.
SamePlayers(old, new) ==
  /\ new.players = old.players /\ new.started = old.started /\ new.rematchOf = old.rematchOf
  /\ old.finished => new.finished

\* Matches that keep their players stay apart from each other.
LEMMA SamePlayersTogether ==
  ASSUME NEW c, NEW d, Typed(c), Typed(d), Together(c), Len(d.matches) = Len(c.matches),
         \A m \in DOMAIN c.matches : SamePlayers(c.matches[m], d.matches[m])
  PROVE  Together(d)
<1>1. DOMAIN d.matches = DOMAIN c.matches /\ DOMAIN c.matches = 1 .. Len(c.matches)
      /\ Len(c.matches) \in Nat
  BY TypedParts
<1>2. ASSUME NEW i \in DOMAIN c.matches PROVE Formed(d.matches[i]) /\ FollowsFinished(d, i)
  <2>1. SamePlayers(c.matches[i], d.matches[i])
    OBVIOUS
  <2>2. Formed(c.matches[i]) /\ FollowsFinished(c, i)
    BY DEF Together
  <2>3. Formed(d.matches[i])
    BY <2>1, <2>2 DEF SamePlayers, Formed, Players
  <2>4. ASSUME c.matches[i].rematchOf # 0 PROVE FollowsFinished(d, i)
    <3>1. c.matches[i].rematchOf < i /\ c.matches[i].rematchOf \in {0} \cup MatchId
      BY <2>2, <2>4, TypedParts DEF FollowsFinished, MatchRecord
    <3>2. c.matches[i].rematchOf \in DOMAIN c.matches
      BY <1>1, <2>4, <3>1, BackendAssumption DEF MatchId
    <3>3. SamePlayers(c.matches[c.matches[i].rematchOf], d.matches[c.matches[i].rematchOf])
      BY <3>2
    <3> QED
      BY <2>1, <2>2, <3>3 DEF SamePlayers, FollowsFinished
  <2> QED
    BY <2>1, <2>3, <2>4 DEF SamePlayers, FollowsFinished
<1>3. ASSUME NEW i \in DOMAIN c.matches, NEW j \in DOMAIN c.matches
      PROVE  ShareByRematch(d, i, j)
  <2>1. SamePlayers(c.matches[i], d.matches[i]) /\ SamePlayers(c.matches[j], d.matches[j])
    OBVIOUS
  <2>2. ShareByRematch(c, i, j)
    BY DEF Together
  <2>3. Players(d.matches[i]) = Players(c.matches[i])
        /\ Players(d.matches[j]) = Players(c.matches[j])
    BY <2>1 DEF SamePlayers, Players
  <2> QED
    BY <2>1, <2>2, <2>3 DEF SamePlayers, ShareByRematch
<1> QED
  BY <1>1, <1>2, <1>3 DEF Together
\* One match of a typed backend is replaced.
LEMMA OneMatchType ==
  ASSUME NEW c, Typed(c), NEW m \in DOMAIN c.matches, NEW match \in MatchRecord
  PROVE  LET d == [c EXCEPT !.matches[m] = match]
         IN  /\ Typed(d) /\ Len(d.matches) = Len(c.matches)
             /\ DOMAIN d.matches = DOMAIN c.matches
             /\ d.matches[m] = match
             /\ \A n \in DOMAIN c.matches : n # m => d.matches[n] = c.matches[n]
             /\ d.sessions = c.sessions /\ d.gone = c.gone /\ d.disconnects = c.disconnects
             /\ d.activeSessions = c.activeSessions /\ d.totalClosed = c.totalClosed
<1> DEFINE ms == [c.matches EXCEPT ![m] = match]
           d == [c EXCEPT !.matches = ms]
<1>1. [c EXCEPT !.matches[m] = match] = d
  OBVIOUS
<1>2. c.matches \in Seq(MatchRecord) /\ m \in 1 .. Len(c.matches)
      /\ DOMAIN c.matches = 1 .. Len(c.matches)
  BY TypedParts
<1>3. /\ ms \in Seq(MatchRecord) /\ Len(ms) = Len(c.matches)
      /\ \A n \in 1 .. Len(c.matches) : ms[n] = IF n = m THEN match ELSE c.matches[n]
  BY <1>2, ExceptSeq
<1> HIDE DEF ms
<1>4. /\ d \in BackendRecord /\ d.matches = ms
      /\ d.sessions = c.sessions /\ d.gone = c.gone /\ d.disconnects = c.disconnects
      /\ d.activeSessions = c.activeSessions /\ d.totalClosed = c.totalClosed
  BY <1>3 DEF Typed, BackendRecord
<1> HIDE DEF d
<1>5. Typed(d)
  BY <1>3, <1>4 DEF Typed
<1>6. DOMAIN d.matches = DOMAIN c.matches
  BY <1>2, <1>3, <1>4, <1>5, TypedParts
<1> QED
  BY <1>1, <1>2, <1>3, <1>4, <1>5, <1>6

\* A call that changes one match, and queues commands of open sessions only.
LEMMA OneMatchSound ==
  ASSUME NEW c, Sound(c), NEW m \in DOMAIN c.matches, NEW match \in MatchRecord,
         SamePlayers(c.matches[m], match),
         match.finished => match.started,
         ~match.finished => match.tick < MaxTicks,
         \A i \in DOMAIN match.queue :
           \/ Open(c, match.queue[i].session)
           \/ \E j \in DOMAIN c.matches[m].queue :
                c.matches[m].queue[j].session = match.queue[i].session
  PROVE  Sound([c EXCEPT !.matches[m] = match])
<1> DEFINE d == [c EXCEPT !.matches[m] = match]
<1> SUFFICES Sound(d)
  OBVIOUS
<1>1. /\ Typed(d) /\ Len(d.matches) = Len(c.matches)
      /\ DOMAIN d.matches = DOMAIN c.matches
      /\ d.matches[m] = match
      /\ \A n \in DOMAIN c.matches : n # m => d.matches[n] = c.matches[n]
      /\ d.sessions = c.sessions /\ d.gone = c.gone /\ d.disconnects = c.disconnects
      /\ d.activeSessions = c.activeSessions /\ d.totalClosed = c.totalClosed
  BY OneMatchType DEF Sound
<1> HIDE DEF d
<1>2. \A s : Open(d, s) <=> Open(c, s)
  BY <1>1 DEF Open
<1>3. Counted(d)
  <2>1. OpenSessions(d) = OpenSessions(c) /\ ClosedSessions(d) = ClosedSessions(c)
    BY <1>1, <1>2 DEF OpenSessions, ClosedSessions
  <2> QED
    BY <1>1, <2>1 DEF Sound, Counted
<1>4. Together(d)
  <2>1. ASSUME NEW n \in DOMAIN c.matches PROVE SamePlayers(c.matches[n], d.matches[n])
    BY <1>1 DEF SamePlayers
  <2> QED
    BY <1>1, <2>1, SamePlayersTogether DEF Sound
<1>5. GoneStay(d)
  <2>1. GoneStay(c)
    BY DEF Sound
  <2>2. ASSUME NEW s \in c.gone, NEW n \in DOMAIN c.matches, NEW i \in DOMAIN d.matches[n].queue
        PROVE  d.matches[n].queue[i].session # s
    <3>1. CASE n # m
      BY <1>1, <2>1, <3>1 DEF GoneStay
    <3>2. CASE n = m
      BY <1>1, <2>1, <3>2 DEF GoneStay
    <3> QED
      BY <3>1, <3>2
  <2> QED
    BY <1>1, <1>2, <2>1, <2>2 DEF GoneStay
<1>6. Settled(d)
  <2>1. Settled(c)
    BY DEF Sound
  <2>2. ASSUME NEW n \in DOMAIN c.matches
        PROVE  /\ Players(d.matches[n]) \subseteq DOMAIN d.sessions
               /\ d.matches[n].finished => d.matches[n].started
               /\ ~d.matches[n].finished => d.matches[n].tick < MaxTicks
    <3>1. CASE n # m
      BY <1>1, <2>1, <3>1 DEF Settled
    <3>2. CASE n = m
      <4>1. Players(d.matches[n]) = Players(c.matches[n])
        BY <1>1, <3>2 DEF SamePlayers, Players
      <4> QED
        BY <1>1, <2>1, <3>2, <4>1 DEF Settled
    <3> QED
      BY <3>1, <3>2
  <2> QED
    BY <1>1, <2>2 DEF Settled
<1> QED
  BY <1>1, <1>3, <1>4, <1>5, <1>6 DEF Sound

\* Taking a command in changes neither the players nor the result of a match.
LEMMA SubmittedType ==
  ASSUME NEW old \in MatchRecord, NEW command \in CommandRecord
  PROVE  LET match == Submitted(old, command)
         IN  /\ match \in MatchRecord /\ SamePlayers(old, match)
             /\ match.finished = old.finished /\ match.tick = old.tick
             /\ \A i \in DOMAIN match.queue :
                  \/ match.queue[i] = command
                  \/ i \in DOMAIN old.queue /\ match.queue[i] = old.queue[i]
<1> DEFINE s == command.session
           queue == Append(old.queue, command)
           accepted == Append(old.accepted, command)
           lastSeq == [old.lastSeq EXCEPT ![s] = command.seq]
           thisTick == [old.thisTick EXCEPT ![s] = @ + 1]
           match == [old EXCEPT !.lastSeq = lastSeq, !.thisTick = thisTick,
                                !.queue = queue, !.accepted = accepted]
<1>1. /\ old.queue \in Seq(CommandRecord) /\ old.accepted \in Seq(CommandRecord)
      /\ old.lastSeq \in [SessionId -> Nat] /\ old.thisTick \in [SessionId -> Nat]
      /\ s \in SessionId /\ command.seq \in Nat
  BY DEF MatchRecord, CommandRecord
<1>2. Submitted(old, command) = match
  BY DEF Submitted, MatchRecord
<1>3. /\ queue \in Seq(CommandRecord) /\ accepted \in Seq(CommandRecord)
      /\ lastSeq \in [SessionId -> Nat] /\ thisTick \in [SessionId -> Nat]
  BY <1>1
<1>4. \A i \in DOMAIN queue :
        queue[i] = command \/ (i \in DOMAIN old.queue /\ queue[i] = old.queue[i])
  BY <1>1
<1> HIDE DEF queue, accepted, lastSeq, thisTick
<1>5. match \in MatchRecord /\ SamePlayers(old, match) /\ match.finished = old.finished
      /\ match.tick = old.tick /\ match.queue = queue
  BY <1>3 DEF MatchRecord, SamePlayers
<1> QED
  BY <1>2, <1>4, <1>5

\* An accepted command is its open sender's (submitCommand).
LEMMA SubmitCommandSound ==
  ASSUME NEW c, Sound(c), NEW s \in DOMAIN c.sessions, NEW m \in DOMAIN c.matches,
         NEW seq \in Nat, MaySubmitCommand(c, s, m, seq)
  PROVE  Sound(SubmitCommand(c, s, m, seq))
<1> DEFINE old == c.matches[m]
           command == [session |-> s, seq |-> seq]
           match == Submitted(old, command)
<1>1. SubmitCommand(c, s, m, seq) = [c EXCEPT !.matches[m] = match]
  BY DEF SubmitCommand
<1>2. old \in MatchRecord /\ s \in SessionId
  BY TypedParts DEF Sound
<1>3. command \in CommandRecord /\ command.session = s
  BY <1>2 DEF MaySubmitCommand, CommandRecord
<1> HIDE DEF command
<1>4. /\ match \in MatchRecord /\ SamePlayers(old, match)
      /\ match.finished = old.finished /\ match.tick = old.tick
      /\ \A i \in DOMAIN match.queue :
           \/ match.queue[i] = command
           \/ i \in DOMAIN old.queue /\ match.queue[i] = old.queue[i]
  BY <1>2, <1>3, SubmittedType
<1> HIDE DEF match
<1>5. /\ match.finished => match.started
      /\ ~match.finished => match.tick < MaxTicks
  BY <1>4 DEF Sound, Settled, SamePlayers
<1>6. Open(c, s)
  BY DEF MaySubmitCommand
<1>7. \A i \in DOMAIN match.queue :
        \/ Open(c, match.queue[i].session)
        \/ \E j \in DOMAIN old.queue : old.queue[j].session = match.queue[i].session
  BY <1>3, <1>4, <1>6
<1> QED
  BY <1>1, <1>4, <1>5, <1>7, OneMatchSound

\* A tick moves the clock of a match that is not over, and takes commands off its queue.
LEMMA AdvancedType ==
  ASSUME NEW old \in MatchRecord, NEW over \in BOOLEAN,
         ~old.finished => old.tick < MaxTicks
  PROVE  LET match == Advanced(old, over)
         IN  /\ match \in MatchRecord /\ SamePlayers(old, match)
             /\ ~match.finished => match.tick < MaxTicks
             /\ old.finished => match.tick = old.tick
             /\ match.tick \in {old.tick, old.tick + 1}
             /\ \A i \in DOMAIN match.queue :
                  \E j \in DOMAIN old.queue : match.queue[i] = old.queue[j]
<1> DEFINE taken == Taken(old)
           now == IF old.finished THEN old.tick ELSE old.tick + 1
           queue == SubSeq(old.queue, taken + 1, Len(old.queue))
           applied == old.applied \o SubSeq(old.queue, 1, taken)
           finished == old.finished \/ over \/ now = MaxTicks
           thisTick == [s \in SessionId |-> 0]
           match == [old EXCEPT !.queue = queue, !.applied = applied, !.tick = now,
                                !.finished = finished, !.thisTick = thisTick]
<1>1. /\ old.queue \in Seq(CommandRecord) /\ old.applied \in Seq(CommandRecord)
      /\ old.tick \in 0 .. MaxTicks /\ old.finished \in BOOLEAN
  BY DEF MatchRecord
<1>2. Advanced(old, over) = match
  BY DEF Advanced
<1>3. taken \in 0 .. Len(old.queue)
  BY <1>1, BackendAssumption DEF Taken
<1> HIDE DEF taken
<1>4. /\ queue \in Seq(CommandRecord)
      /\ \A i \in DOMAIN queue : \E j \in DOMAIN old.queue : queue[i] = old.queue[j]
  <2>1. /\ queue \in Seq(CommandRecord) /\ Len(queue) = Len(old.queue) - taken
        /\ \A i \in 1 .. Len(old.queue) - taken : queue[i] = old.queue[taken + i]
    BY <1>1, <1>3, SMTT(40)
  <2> HIDE DEF queue
  <2>2. ASSUME NEW i \in DOMAIN queue PROVE \E j \in DOMAIN old.queue : queue[i] = old.queue[j]
    <3>1. i \in 1 .. Len(old.queue) - taken
      BY <2>1
    <3>2. taken + i \in DOMAIN old.queue
      BY <1>1, <1>3, <3>1
    <3> QED
      BY <2>1, <3>1, <3>2
  <2> QED
    BY <2>1, <2>2
<1>5. applied \in Seq(CommandRecord)
  <2>1. SubSeq(old.queue, 1, taken) \in Seq(CommandRecord)
    BY <1>1, <1>3
  <2> QED
    BY <1>1, <2>1
<1>6. /\ now \in 0 .. MaxTicks /\ finished \in BOOLEAN /\ thisTick \in [SessionId -> Nat]
      /\ ~finished => now < MaxTicks
      /\ old.finished => finished /\ now = old.tick
      /\ now \in {old.tick, old.tick + 1}
  BY <1>1, BackendAssumption
<1> HIDE DEF queue, applied, now, finished, thisTick
<1>7. match \in MatchRecord /\ SamePlayers(old, match) /\ match.queue = queue
      /\ match.tick = now /\ match.finished = finished
  BY <1>4, <1>5, <1>6 DEF MatchRecord, SamePlayers
<1> QED
  BY <1>2, <1>4, <1>6, <1>7

\* A match is ticked, and its players are told, or closed when they do not listen (tick).
LEMMA TickMatchSound ==
  ASSUME NEW c, Sound(c), NEW m \in DOMAIN c.matches, MayTick(c, m),
         NEW over \in BOOLEAN, NEW snapshot \in BOOLEAN
  PROVE  /\ Sound(TickMatch(c, m, over, snapshot))
         /\ TickMatch(c, m, over, snapshot).matches
              = [c.matches EXCEPT ![m] = Advanced(@, over)]
<1> DEFINE old == c.matches[m]
           match == Advanced(old, over)
           ticked == [c EXCEPT !.matches[m] = match]
           now == ticked.matches[m].tick
           reported == IF old.finished THEN ticked
                       ELSE Broadcast(ticked, m, Message("events", m, now))
<1>1. TickMatch(c, m, over, snapshot) =
        IF snapshot THEN Broadcast(reported, m, Message("snapshot", m, now)) ELSE reported
  BY DEF TickMatch
<1>2. old \in MatchRecord /\ m \in MatchId /\ (~old.finished => old.tick < MaxTicks)
  BY TypedParts DEF Sound, Settled
<1>3. /\ match \in MatchRecord /\ SamePlayers(old, match)
      /\ ~match.finished => match.tick < MaxTicks
      /\ \A i \in DOMAIN match.queue :
           \E j \in DOMAIN old.queue : match.queue[i] = old.queue[j]
  BY <1>2, AdvancedType
<1> HIDE DEF match
<1>4. match.finished => match.started
  BY <1>3 DEF MayTick, SamePlayers
<1>5. Sound(ticked)
  BY <1>3, <1>4, OneMatchSound
<1>6. ticked.matches = [c.matches EXCEPT ![m] = match]
  BY DEF Sound, Typed, BackendRecord
<1>7. DOMAIN ticked.matches = DOMAIN c.matches /\ ticked.matches[m] = match
  BY <1>6
<1> HIDE DEF ticked
<1>8. now \in 0 .. MaxTicks
  BY <1>3, <1>7 DEF MatchRecord
<1> HIDE DEF now
<1>9. Message("events", m, now) \in MessageRecord /\ Message("snapshot", m, now) \in MessageRecord
  BY <1>2, <1>8 DEF Message, MessageRecord
<1> HIDE DEF old
<1>10. Sound(reported) /\ reported.matches = ticked.matches
  BY <1>5, <1>7, <1>9, BroadcastSound
<1> HIDE DEF reported
<1>11. CASE snapshot
  BY <1>1, <1>6, <1>7, <1>9, <1>10, <1>11, BroadcastSound DEF match, old
<1>12. CASE ~snapshot
  BY <1>1, <1>6, <1>10, <1>12 DEF match, old
<1> QED
  BY <1>11, <1>12

\* A new match has not begun to be played.
LEMMA NewMatchType ==
  ASSUME NEW players \in Seq(SessionId), NEW started \in BOOLEAN,
         NEW rematchOf \in {0} \cup MatchId
  PROVE  /\ NewMatch(players, started, rematchOf) \in MatchRecord
         /\ NewMatch(players, started, rematchOf).players = players
         /\ NewMatch(players, started, rematchOf).started = started
         /\ NewMatch(players, started, rematchOf).rematchOf = rematchOf
         /\ NewMatch(players, started, rematchOf).queue = <<>>
         /\ ~NewMatch(players, started, rematchOf).finished
         /\ NewMatch(players, started, rematchOf).tick = 0
<1>1. /\ [s \in SessionId |-> 0] \in [SessionId -> Nat] /\ <<>> \in Seq(CommandRecord)
      /\ 0 \in 0 .. MaxTicks
  BY BackendAssumption
<1> QED
  BY <1>1 DEF NewMatch, MatchRecord

\* A match is added whose players are in no other, or that is a rematch of its equal.
LEMMA AppendMatchSound ==
  ASSUME NEW c, Sound(c), Len(c.matches) < MaxMatches,
         NEW match \in MatchRecord, Formed(match),
         match.queue = <<>>, ~match.finished, match.tick = 0,
         Players(match) \subseteq DOMAIN c.sessions,
         match.rematchOf # 0
           => /\ match.rematchOf \in DOMAIN c.matches
              /\ c.matches[match.rematchOf].finished
              /\ c.matches[match.rematchOf].players = match.players,
         \A i \in DOMAIN c.matches :
           Players(c.matches[i]) \cap Players(match) # {}
             => c.matches[i].players = match.players /\ match.rematchOf # 0
  PROVE  LET d == [c EXCEPT !.matches = Append(@, match)]
         IN  Sound(d) /\ d.sessions = c.sessions /\ d.gone = c.gone
             /\ d.activeSessions = c.activeSessions /\ d.totalClosed = c.totalClosed
             /\ d.disconnects = c.disconnects
<1> DEFINE n == Len(c.matches) + 1
           ms == Append(c.matches, match)
           d == [c EXCEPT !.matches = ms]
<1> SUFFICES Sound(d) /\ d.sessions = c.sessions /\ d.gone = c.gone
             /\ d.activeSessions = c.activeSessions /\ d.totalClosed = c.totalClosed
             /\ d.disconnects = c.disconnects
  OBVIOUS
<1>1. c.matches \in Seq(MatchRecord) /\ Len(c.matches) \in Nat
      /\ DOMAIN c.matches = 1 .. Len(c.matches)
  BY TypedParts DEF Sound
<1>2. /\ ms \in Seq(MatchRecord) /\ Len(ms) = n /\ ms[n] = match
      /\ \A i \in 1 .. Len(c.matches) : ms[i] = c.matches[i]
  BY <1>1, AppendProperties
<1> HIDE DEF ms
<1>3. /\ d \in BackendRecord /\ d.matches = ms
      /\ d.sessions = c.sessions /\ d.gone = c.gone /\ d.disconnects = c.disconnects
      /\ d.activeSessions = c.activeSessions /\ d.totalClosed = c.totalClosed
  BY <1>2 DEF Sound, Typed, BackendRecord
<1> HIDE DEF d
<1>4. Typed(d)
  BY <1>1, <1>2, <1>3, BackendAssumption DEF Sound, Typed
<1>5. /\ DOMAIN d.matches = DOMAIN c.matches \cup {n} /\ d.matches[n] = match
      /\ \A i \in DOMAIN c.matches : d.matches[i] = c.matches[i] /\ i \in Nat /\ i < n
  <2>1. DOMAIN d.matches = 1 .. n
    BY <1>2, <1>3, <1>4, TypedParts
  <2> QED
    BY <1>1, <1>2, <1>3, <2>1
<1>6. \A s : Open(d, s) <=> Open(c, s)
  BY <1>3 DEF Open
<1>7. Counted(d)
  <2>1. OpenSessions(d) = OpenSessions(c) /\ ClosedSessions(d) = ClosedSessions(c)
    BY <1>3, <1>6 DEF OpenSessions, ClosedSessions
  <2> QED
    BY <1>3, <2>1 DEF Sound, Counted
<1>8. GoneStay(d)
  <2>1. DOMAIN match.queue = {}
    OBVIOUS
  <2> QED
    BY <1>3, <1>5, <1>6, <2>1 DEF Sound, GoneStay
<1>9. Settled(d)
  BY <1>3, <1>5, BackendAssumption DEF Sound, Settled
<1>10. Together(d)
  <2>1. Together(c)
    BY DEF Sound
  <2>2. ASSUME NEW i \in DOMAIN c.matches PROVE Formed(d.matches[i]) /\ FollowsFinished(d, i)
    <3>1. Formed(c.matches[i]) /\ FollowsFinished(c, i)
      BY <2>1 DEF Together
    <3>2. ASSUME c.matches[i].rematchOf # 0
          PROVE  d.matches[c.matches[i].rematchOf] = c.matches[c.matches[i].rematchOf]
      <4>1. c.matches[i].rematchOf < i /\ c.matches[i].rematchOf \in {0} \cup MatchId
        BY <3>1, <3>2, TypedParts DEF Sound, FollowsFinished, MatchRecord
      <4>2. c.matches[i].rematchOf \in DOMAIN c.matches
        BY <1>1, <3>2, <4>1, BackendAssumption DEF MatchId
      <4> QED
        BY <1>5, <4>2
    <3> QED
      BY <1>5, <3>1, <3>2 DEF FollowsFinished
  <2>3. Formed(d.matches[n]) /\ FollowsFinished(d, n)
    BY <1>5 DEF FollowsFinished
  <2>4. ASSUME NEW i \in DOMAIN d.matches, NEW j \in DOMAIN d.matches
        PROVE  ShareByRematch(d, i, j)
    <3>1. CASE i \in DOMAIN c.matches /\ j \in DOMAIN c.matches
      <4>1. ShareByRematch(c, i, j)
        BY <2>1, <3>1 DEF Together
      <4>2. d.matches[i] = c.matches[i] /\ d.matches[j] = c.matches[j]
        BY <1>5, <3>1
      <4> QED
        BY <4>1, <4>2 DEF ShareByRematch
    <3>2. CASE i \in DOMAIN c.matches /\ j = n
      BY <1>5, <3>2 DEF ShareByRematch
    <3>3. CASE i = n
      <4>1. ~(i < j)
        BY <1>1, <1>5, <3>3
      <4> QED
        BY <4>1 DEF ShareByRematch
    <3> QED
      BY <1>5, <3>1, <3>2, <3>3
  <2> QED
    BY <1>5, <2>2, <2>3, <2>4 DEF Together
<1> QED
  BY <1>3, <1>4, <1>7, <1>8, <1>9, <1>10 DEF Sound

\* Somebody who plays in no match owns a new one (createMatch).
LEMMA CreateMatchSound ==
  ASSUME NEW c, Sound(c), NEW s \in DOMAIN c.sessions, MayCreateMatch(c, s)
  PROVE  Sound(CreateMatch(c, s))
<1> DEFINE match == NewMatch(<<s>>, FALSE, 0)
<1>1. <<s>> \in Seq(SessionId) /\ FALSE \in BOOLEAN /\ 0 \in {0} \cup MatchId
  BY TypedParts DEF Sound
<1>2. /\ match \in MatchRecord /\ match.players = <<s>> /\ ~match.started
      /\ match.rematchOf = 0 /\ match.queue = <<>> /\ ~match.finished /\ match.tick = 0
  BY <1>1, NewMatchType, ZenonT(60)
<1> HIDE DEF match
<1>3. Players(match) = {s}
  BY <1>2 DEF Players
<1>4. Formed(match)
  <2>1. Cardinality(Players(match)) = 1 /\ Len(match.players) = 1
    BY <1>2, <1>3, FS_Singleton
  <2> QED
    BY <1>2, <2>1 DEF Formed
<1>5. Sound([c EXCEPT !.matches = Append(@, match)])
  BY <1>2, <1>3, <1>4, AppendMatchSound DEF MayCreateMatch, InAnyMatch
<1> QED
  BY <1>5 DEF CreateMatch, match

\* The players of a finished match begin again, and those who do not listen are closed
\* (startNextMatch).
LEMMA StartNextMatchSound ==
  ASSUME NEW c, Sound(c), NEW s \in DOMAIN c.sessions, NEW m \in DOMAIN c.matches,
         MayStartNextMatch(c, s, m)
  PROVE  Sound(StartNextMatch(c, m))
<1> DEFINE old == c.matches[m]
           match == NewMatch(old.players, TRUE, m)
           message == Message("joined", Len(c.matches) + 1, 0)
           players == Players(old)
           ss == SentTo(c, players, message)
           e == [c EXCEPT !.matches = Append(@, match)]
           d == [e EXCEPT !.sessions = ss]
<1>1. /\ old \in MatchRecord /\ old.players \in Seq(SessionId) /\ m \in MatchId
      /\ Formed(old) /\ players \subseteq DOMAIN c.sessions /\ old.finished /\ old.started
      /\ Len(c.matches) < MaxMatches
  BY TypedParts DEF Sound, Together, Settled, MayStartNextMatch, MatchRecord
<1>2. StartNextMatch(c, m) = d
  BY DEF Sound, Typed, BackendRecord, StartNextMatch
<1>3. message \in MessageRecord
  BY <1>1, TypedParts, BackendAssumption DEF Sound, Message, MessageRecord, MatchId
<1>4. /\ match \in MatchRecord /\ match.players = old.players /\ match.started
      /\ match.rematchOf = m /\ match.queue = <<>> /\ ~match.finished /\ match.tick = 0
  <2>1. TRUE \in BOOLEAN /\ m \in {0} \cup MatchId /\ old.players \in Seq(SessionId)
    BY <1>1
  <2> HIDE DEF old
  <2>2. /\ match \in MatchRecord /\ match.players = old.players /\ match.started = TRUE
        /\ match.rematchOf = m /\ match.queue = <<>> /\ ~match.finished /\ match.tick = 0
    BY <2>1, NewMatchType, ZenonT(60)
  <2> QED
    BY <2>2
<1> HIDE DEF match, message
<1>5. Players(match) = players
  BY <1>4 DEF Players
<1>6. Formed(match)
  BY <1>1, <1>4, <1>5 DEF Formed
<1>7. ASSUME NEW i \in DOMAIN c.matches, Players(c.matches[i]) \cap Players(match) # {}
      PROVE  c.matches[i].players = match.players
  <2>1. ShareByRematch(c, i, m) /\ ShareByRematch(c, m, i)
    BY DEF Sound, Together
  <2>2. i < m \/ i = m \/ m < i
    BY TypedParts DEF Sound
  <2> QED
    BY <1>4, <1>5, <1>7, <2>1, <2>2 DEF ShareByRematch
<1>8. match.rematchOf # 0
  BY <1>1, <1>4 DEF MatchId
<1>9. /\ Sound(e) /\ e.sessions = c.sessions /\ e.gone = c.gone
      /\ e.activeSessions = c.activeSessions /\ e.totalClosed = c.totalClosed
      /\ e.disconnects = c.disconnects
  BY <1>1, <1>4, <1>5, <1>6, <1>7, <1>8, AppendMatchSound
<1>10. /\ ss \in Seq(SessionRecord) /\ Len(ss) = Len(c.sessions)
       /\ \A t \in DOMAIN c.sessions : ss[t].auth # "Closed" => Open(c, t)
  BY <1>3, SentToType DEF Sound
<1> HIDE DEF e, ss
<1>11. /\ d \in BackendRecord /\ d.sessions = ss /\ d.matches = e.matches
       /\ d.gone = e.gone /\ d.activeSessions = e.activeSessions
       /\ d.totalClosed = e.totalClosed /\ d.disconnects = e.disconnects
  BY <1>9, <1>10 DEF Sound, Typed, BackendRecord
<1> HIDE DEF d
<1>12. Typed(d)
  BY <1>9, <1>10, <1>11 DEF Sound, Typed
<1>13. OpenSessions(d) \subseteq OpenSessions(e)
  <2>1. DOMAIN d.sessions = DOMAIN c.sessions
    BY <1>10, <1>11, <1>12, TypedParts DEF Sound
  <2> QED
    BY <1>9, <1>10, <1>11, <2>1 DEF OpenSessions, Open
<1>14. Counted(d)
  <2>1. IsFiniteSet(OpenSessions(e) \ OpenSessions(d))
    BY <1>9, OpenAndClosed, FS_Difference DEF Sound
  <2>2. Cardinality(OpenSessions(e) \ OpenSessions(d)) \in Nat
    BY <2>1, FS_CardinalityType
  <2>3. e.activeSessions \in Int /\ e.disconnects \in Nat
    BY <1>9, TypedParts DEF Sound
  <2>4. e.activeSessions - d.activeSessions = 0 /\ d.disconnects - e.disconnects = 0
    BY <1>11, <2>3
  <2> QED
    BY <1>9, <1>10, <1>11, <1>12, <1>13, <2>2, <2>4, ClosingKeepsCounted DEF Sound
<1> QED
  BY <1>2, <1>9, <1>10, <1>11, <1>12, <1>13, <1>14, SessionsOnlySound

\* Only a match that has begun is followed by a rematch or is one.
LEMMA RematchesHaveBegun ==
  ASSUME NEW c, Sound(c), NEW i \in DOMAIN c.matches, c.matches[i].rematchOf # 0
  PROVE  /\ c.matches[i].rematchOf \in DOMAIN c.matches
         /\ c.matches[c.matches[i].rematchOf].started
         /\ c.matches[i].started
<1> DEFINE k == c.matches[i].rematchOf
<1>1. Formed(c.matches[i]) /\ FollowsFinished(c, i)
  BY DEF Sound, Together
<1>2. k < i /\ k \in {0} \cup MatchId
  BY <1>1, TypedParts DEF Sound, FollowsFinished, MatchRecord
<1>3. k \in DOMAIN c.matches
  BY <1>2, TypedParts, BackendAssumption DEF Sound, MatchId
<1>4. c.matches[k].started /\ Formed(c.matches[k])
  BY <1>1, <1>3 DEF Sound, Settled, Together, FollowsFinished
<1>5. c.matches[k].players = c.matches[i].players
  BY <1>1 DEF FollowsFinished
<1> QED
  BY <1>1, <1>3, <1>4, <1>5 DEF Formed

\* The second player is in no other match, and completes this one (joinMatch).
LEMMA JoinMatchSound ==
  ASSUME NEW c, Sound(c), NEW s \in DOMAIN c.sessions, NEW m \in DOMAIN c.matches,
         MayJoinMatch(c, s, m)
  PROVE  Sound(JoinMatch(c, s, m))
<1> DEFINE old == c.matches[m]
           match == [old EXCEPT !.players = Append(@, s), !.started = TRUE]
           d == [c EXCEPT !.matches[m] = match]
<1>1. d = JoinMatch(c, s, m)
  BY DEF JoinMatch, Joined
<1>2. /\ old \in MatchRecord /\ Formed(old) /\ ~old.started /\ ~old.finished
      /\ Players(old) \subseteq DOMAIN c.sessions
      /\ ~old.finished => old.tick < MaxTicks
  BY TypedParts DEF Sound, Together, Settled, MayJoinMatch
<1>3. /\ old.players \in Seq(SessionId) /\ Len(old.players) = 1 /\ s \in SessionId
      /\ Cardinality(Players(old)) = 1
  <2>1. old.players \in Seq(SessionId) /\ s \in SessionId
    BY <1>2, TypedParts DEF MatchRecord, Sound
  <2>2. Len(old.players) \in 1 .. 2 /\ Len(old.players) < 2
    BY <1>2 DEF Formed, MayJoinMatch
  <2> QED
    BY <1>2, <2>1, <2>2 DEF Formed
<1>4. \A i \in DOMAIN c.matches : s \notin Players(c.matches[i])
  BY DEF MayJoinMatch, InAnyMatch
<1>5. old.rematchOf = 0
  BY <1>2, RematchesHaveBegun
<1> HIDE DEF old
<1> DEFINE players == Append(old.players, s)
<1>6. /\ players \in Seq(SessionId) /\ Len(players) = 2
      /\ players[1] = old.players[1] /\ players[2] = s
  <2>1. old.players \in Seq(SessionId) /\ s \in SessionId
    BY <1>3
  <2>2. /\ players \in Seq(SessionId) /\ Len(players) = Len(old.players) + 1
        /\ \A i \in 1 .. Len(old.players) : players[i] = old.players[i]
        /\ players[Len(old.players) + 1] = s
    BY <2>1, AppendProperties
  <2> HIDE DEF players
  <2>3. Len(old.players) = 1
    BY <1>3
  <2> QED
    BY <2>2, <2>3
<1>7. /\ match \in MatchRecord /\ match.players = players /\ match.started
      /\ match.finished = old.finished /\ match.tick = old.tick
      /\ match.queue = old.queue /\ match.rematchOf = 0
  BY <1>2, <1>5, <1>6 DEF MatchRecord
<1>8. Players(match) = Players(old) \cup {s}
  <2>1. DOMAIN players = 1 .. 2 /\ DOMAIN old.players = 1 .. 1
    BY <1>3, <1>6
  <2> HIDE DEF players
  <2> HIDE DEF match
  <2>2. 1 .. 1 = {1} /\ 1 .. 2 = {1, 2}
    OBVIOUS
  <2>3. Players(match) = {match.players[i] : i \in {1, 2}}
        /\ Players(old) = {old.players[i] : i \in {1}}
    BY <1>7, <2>1, <2>2, Zenon DEF Players
  <2>4. Players(match) = {players[1], players[2]} /\ Players(old) = {old.players[1]}
    BY <1>7, <2>3
  <2> QED
    BY <1>6, <2>4
<1> HIDE DEF players, match, d
<1>9. Formed(match)
  <2>1. s \notin Players(old)
    BY <1>4 DEF old
  <2>2. IsFiniteSet(Players(old))
    <3>1. Players(old) \in SUBSET (DOMAIN c.sessions)
      BY <1>2
    <3>2. DOMAIN c.sessions = 1 .. Len(c.sessions) /\ Len(c.sessions) \in Int
      BY TypedParts DEF Sound
    <3>3. IsFiniteSet(DOMAIN c.sessions)
      BY <3>2, FS_Interval
    <3> QED
      BY <3>1, <3>3, FS_Subset
  <2>3. Cardinality(Players(match)) = 2
    <3>1. Cardinality(Players(old) \cup {s}) = Cardinality(Players(old)) + 1
      BY <2>1, <2>2, FS_AddElement
    <3> QED
      BY <1>3, <1>8, <3>1
  <2> QED
    BY <1>6, <1>7, <2>3 DEF Formed
<1>10. /\ Typed(d) /\ Len(d.matches) = Len(c.matches)
       /\ DOMAIN d.matches = DOMAIN c.matches
       /\ d.matches[m] = match
       /\ \A n \in DOMAIN c.matches : n # m => d.matches[n] = c.matches[n]
       /\ d.sessions = c.sessions /\ d.gone = c.gone /\ d.disconnects = c.disconnects
       /\ d.activeSessions = c.activeSessions /\ d.totalClosed = c.totalClosed
  BY <1>7, OneMatchType DEF Sound, d
<1>11. \A t : Open(d, t) <=> Open(c, t)
  BY <1>10 DEF Open
<1>12. Counted(d)
  <2>1. OpenSessions(d) = OpenSessions(c) /\ ClosedSessions(d) = ClosedSessions(c)
    BY <1>10, <1>11 DEF OpenSessions, ClosedSessions
  <2> QED
    BY <1>10, <2>1 DEF Sound, Counted
<1>13. GoneStay(d)
  <2>1. GoneStay(c)
    BY DEF Sound
  <2>2. \A n \in DOMAIN c.matches : d.matches[n].queue = c.matches[n].queue
    BY <1>7, <1>10 DEF old
  <2> QED
    BY <1>10, <1>11, <2>1, <2>2 DEF GoneStay
<1>14. Settled(d)
  <2>1. Settled(c)
    BY DEF Sound
  <2>2. ASSUME NEW n \in DOMAIN c.matches
        PROVE  /\ Players(d.matches[n]) \subseteq DOMAIN d.sessions
               /\ d.matches[n].finished => d.matches[n].started
               /\ ~d.matches[n].finished => d.matches[n].tick < MaxTicks
    <3>1. CASE n # m
      BY <1>10, <2>1, <3>1 DEF Settled
    <3>2. CASE n = m
      BY <1>2, <1>7, <1>8, <1>10, <3>2
    <3> QED
      BY <3>1, <3>2
  <2> QED
    BY <1>10, <2>2 DEF Settled
<1>15. Together(d)
  <2>1. ASSUME NEW i \in DOMAIN c.matches PROVE Formed(d.matches[i]) /\ FollowsFinished(d, i)
    <3>1. CASE i = m
      BY <1>7, <1>9, <1>10, <3>1 DEF FollowsFinished
    <3>2. CASE i # m
      <4>1. Formed(c.matches[i]) /\ FollowsFinished(c, i)
        BY DEF Sound, Together
      <4>2. ASSUME c.matches[i].rematchOf # 0
            PROVE  d.matches[c.matches[i].rematchOf] = c.matches[c.matches[i].rematchOf]
        <5>1. c.matches[i].rematchOf \in DOMAIN c.matches /\ c.matches[i].rematchOf # m
          BY <1>2, <4>2, RematchesHaveBegun DEF old
        <5> QED
          BY <1>10, <5>1
      <4> QED
        BY <1>10, <3>2, <4>1, <4>2 DEF FollowsFinished
    <3> QED
      BY <3>1, <3>2
  <2>2. ASSUME NEW i \in DOMAIN c.matches, NEW j \in DOMAIN c.matches
        PROVE  ShareByRematch(d, i, j)
    <3>1. ShareByRematch(c, i, j)
      BY DEF Sound, Together
    <3>2. CASE i # m /\ j # m
      BY <1>10, <3>1, <3>2 DEF ShareByRematch
    <3>3. CASE i = m /\ j # m
      <4>1. SUFFICES ASSUME i < j, Players(d.matches[i]) \cap Players(d.matches[j]) # {}
                     PROVE  FALSE
        BY DEF ShareByRematch
      <4>2. Players(old) \cap Players(c.matches[j]) # {}
        BY <1>4, <1>8, <1>10, <3>3, <4>1
      <4>3. old.players = c.matches[j].players /\ c.matches[j].rematchOf # 0
        BY <3>1, <3>3, <4>1, <4>2 DEF ShareByRematch, old
      <4>4. c.matches[j].started /\ Formed(c.matches[j])
        BY <4>3, RematchesHaveBegun DEF Sound, Together
      <4>5. Len(c.matches[j].players) = 2
        BY <4>4 DEF Formed
      <4>6. Len(old.players) = Len(c.matches[j].players)
        BY <4>3, Zenon
      <4>7. Len(old.players) = 1
        BY <1>3
      <4> QED
        BY <4>5, <4>6, <4>7
    <3>4. CASE i # m /\ j = m
      <4>1. SUFFICES ASSUME i < j, Players(d.matches[i]) \cap Players(d.matches[j]) # {}
                     PROVE  FALSE
        BY DEF ShareByRematch
      <4>2. Players(c.matches[i]) \cap Players(old) # {}
        BY <1>4, <1>8, <1>10, <3>4, <4>1
      <4> QED
        BY <1>5, <3>1, <3>4, <4>1, <4>2 DEF ShareByRematch, old
    <3>5. CASE i = m /\ j = m
      <4>1. ~(i < j)
        BY <3>5, TypedParts DEF Sound
      <4> QED
        BY <4>1 DEF ShareByRematch
    <3> QED
      BY <3>2, <3>3, <3>4, <3>5
  <2> QED
    BY <1>10, <2>1, <2>2 DEF Together
<1> QED
  BY <1>1, <1>10, <1>12, <1>13, <1>14, <1>15 DEF Sound

\* Whoever leaves is closed once and has no command left in any match (disconnect).
LEMMA DisconnectSound ==
  ASSUME NEW c, Sound(c), NEW s \in DOMAIN c.sessions
  PROVE  Sound(Disconnect(c, s))
<1> DEFINE closed == CloseSession(c, s)
           others == {command \in CommandRecord : command.session # s}
           new(m) == WithoutCommandsOf(c.matches[m], s)
           ms == [m \in DOMAIN c.matches |-> new(m)]
           disconnects == IF Open(c, s) THEN c.disconnects + 1 ELSE c.disconnects
           d == [closed EXCEPT !.disconnects = disconnects, !.matches = ms,
                               !.gone = c.gone \cup {s}]
<1>1. /\ Sound(closed) /\ Len(closed.sessions) = Len(c.sessions)
      /\ OpenSessions(closed) = OpenSessions(c) \ {s}
      /\ closed.matches = c.matches /\ closed.gone = c.gone
      /\ closed.disconnects = c.disconnects
  BY CloseSessionSound
<1>2. Disconnect(c, s) = d
  BY <1>1 DEF Disconnect
<1>3. ASSUME NEW m \in DOMAIN c.matches
      PROVE  /\ new(m) \in MatchRecord /\ SamePlayers(c.matches[m], new(m))
             /\ new(m).finished = c.matches[m].finished /\ new(m).tick = c.matches[m].tick
             /\ \A i \in DOMAIN new(m).queue :
                  /\ new(m).queue[i].session # s
                  /\ \E j \in DOMAIN c.matches[m].queue :
                       new(m).queue[i] = c.matches[m].queue[j]
  <2> DEFINE queue == Among(c.matches[m].queue, others)
  <2>1. c.matches[m] \in MatchRecord /\ c.matches[m].queue \in Seq(CommandRecord)
    BY TypedParts DEF Sound, MatchRecord
  <2>2. /\ queue \in Seq(CommandRecord)
        /\ \A i \in 1 .. Len(queue) :
             queue[i] \in others /\ \E j \in 1 .. Len(c.matches[m].queue) :
                                      queue[i] = c.matches[m].queue[j]
    <3> DEFINE all == c.matches[m].queue
    <3>1. all \in Seq(CommandRecord)
      BY <2>1
    <3> HIDE DEF all, others
    <3>2. /\ Among(all, others) \in Seq(CommandRecord)
          /\ \A i \in 1 .. Len(Among(all, others)) :
               /\ Among(all, others)[i] \in others
               /\ \E j \in 1 .. Len(all) : Among(all, others)[i] = all[j]
      BY <3>1, AmongProperties
    <3> QED
      BY <3>2 DEF all
  <2>3. new(m) = [c.matches[m] EXCEPT !.queue = queue]
    BY DEF WithoutCommandsOf
  <2> HIDE DEF queue
  <2>4. /\ new(m) \in MatchRecord /\ new(m).queue = queue
        /\ SamePlayers(c.matches[m], new(m))
        /\ new(m).finished = c.matches[m].finished /\ new(m).tick = c.matches[m].tick
    BY <2>1, <2>2, <2>3 DEF MatchRecord, SamePlayers
  <2>5. DOMAIN c.matches[m].queue = 1 .. Len(c.matches[m].queue)
        /\ DOMAIN queue = 1 .. Len(queue)
    BY <2>1, <2>2
  <2> HIDE DEF new
  <2> QED
    BY <2>2, <2>4, <2>5
<1> HIDE DEF new, closed
<1>4. c.matches \in Seq(MatchRecord) /\ DOMAIN c.matches = 1 .. Len(c.matches)
      /\ Len(c.matches) \in Nat /\ s \in SessionId
      /\ c.disconnects \in Nat /\ c.gone \in SUBSET SessionId
  BY TypedParts DEF Sound
<1>5. /\ ms \in Seq(MatchRecord) /\ Len(ms) = Len(c.matches)
      /\ \A m \in DOMAIN c.matches : ms[m] = new(m)
  <2>1. ms \in [1 .. Len(c.matches) -> MatchRecord]
    BY <1>3, <1>4
  <2>2. \A m \in DOMAIN c.matches : ms[m] = new(m)
    OBVIOUS
  <2> HIDE DEF ms
  <2> QED
    BY <1>4, <2>1, <2>2
<1>6. disconnects \in Nat /\ c.gone \cup {s} \in SUBSET SessionId
  BY <1>4
<1> HIDE DEF ms, disconnects
<1>7. /\ d \in BackendRecord /\ d.sessions = closed.sessions /\ d.matches = ms
      /\ d.gone = c.gone \cup {s} /\ d.disconnects = disconnects
      /\ d.activeSessions = closed.activeSessions /\ d.totalClosed = closed.totalClosed
  <2>1. closed \in BackendRecord
    BY <1>1 DEF Sound, Typed
  <2> QED
    BY <1>5, <1>6, <2>1 DEF BackendRecord
<1> HIDE DEF d
<1>8. Typed(d)
  BY <1>1, <1>5, <1>7 DEF Sound, Typed
<1>9. /\ DOMAIN d.sessions = DOMAIN c.sessions /\ DOMAIN d.matches = DOMAIN c.matches
      /\ OpenSessions(d) = OpenSessions(c) \ {s}
  <2>1. DOMAIN d.sessions = DOMAIN c.sessions /\ DOMAIN d.matches = DOMAIN c.matches
    BY <1>1, <1>5, <1>7, <1>8, TypedParts DEF Sound
  <2>2. OpenSessions(d) = OpenSessions(closed)
    BY <1>7 DEF OpenSessions, Open
  <2> QED
    BY <1>1, <2>1, <2>2
<1>10. Counted(d)
  <2>1. /\ d.activeSessions + d.totalClosed = Len(d.sessions)
        /\ d.activeSessions >= Cardinality(OpenSessions(d))
    <3>1. Counted(closed) /\ OpenSessions(d) = OpenSessions(closed)
      BY <1>1, <1>9 DEF Sound
    <3> QED
      BY <1>7, <3>1 DEF Counted
  <2>2. c.disconnects <= Cardinality(ClosedSessions(c))
    BY DEF Sound, Counted
  <2>3. ClosedSessions(d) = ClosedSessions(c) \cup {s}
    BY <1>9 DEF ClosedSessions, OpenSessions
  <2>4. IsFiniteSet(ClosedSessions(c)) /\ Cardinality(ClosedSessions(c)) \in Nat
    BY OpenAndClosed DEF Sound
  <2>5. Cardinality(ClosedSessions(d)) =
          IF s \in ClosedSessions(c) THEN Cardinality(ClosedSessions(c))
          ELSE Cardinality(ClosedSessions(c)) + 1
    BY <2>3, <2>4, FS_AddElement
  <2>6. Open(c, s) => s \notin ClosedSessions(c)
    BY DEF ClosedSessions, OpenSessions
  <2>7. d.disconnects <= Cardinality(ClosedSessions(d))
    BY <1>4, <1>7, <2>2, <2>4, <2>5, <2>6 DEF disconnects
  <2> QED
    BY <2>1, <2>7 DEF Counted
<1>11. Together(d)
  <2>1. \A m \in DOMAIN c.matches : SamePlayers(c.matches[m], d.matches[m])
    BY <1>3, <1>5, <1>7
  <2> QED
    BY <1>5, <1>7, <1>8, <2>1, SamePlayersTogether DEF Sound
<1>12. GoneStay(d)
  <2>1. ASSUME NEW t \in d.gone PROVE ~Open(d, t)
    <3>1. t \notin OpenSessions(c) \/ t = s
      BY <1>7, <2>1 DEF Sound, GoneStay, OpenSessions
    <3>2. t \in DOMAIN c.sessions
      BY <1>7 DEF Sound, GoneStay
    <3> QED
      BY <1>9, <3>1, <3>2 DEF OpenSessions
  <2>2. ASSUME NEW t \in d.gone, NEW m \in DOMAIN c.matches,
               NEW i \in DOMAIN d.matches[m].queue
        PROVE  d.matches[m].queue[i].session # t
    <3>1. d.matches[m] = new(m)
      BY <1>5, <1>7
    <3>2. CASE t = s
      BY <1>3, <3>1, <3>2
    <3>3. CASE t # s
      <4>1. t \in c.gone
        BY <1>7, <3>3
      <4>2. \A j \in DOMAIN c.matches[m].queue : c.matches[m].queue[j].session # t
        BY <4>1 DEF Sound, GoneStay
      <4>3. \E j \in DOMAIN c.matches[m].queue : new(m).queue[i] = c.matches[m].queue[j]
        BY <1>3, <3>1
      <4> QED
        BY <3>1, <4>2, <4>3
    <3> QED
      BY <3>2, <3>3
  <2>3. d.gone \subseteq DOMAIN d.sessions
    BY <1>7, <1>9 DEF Sound, GoneStay
  <2> QED
    BY <1>9, <2>1, <2>2, <2>3 DEF GoneStay
<1>13. Settled(d)
  <2>1. ASSUME NEW m \in DOMAIN c.matches
        PROVE  /\ Players(d.matches[m]) \subseteq DOMAIN d.sessions
               /\ d.matches[m].finished => d.matches[m].started
               /\ ~d.matches[m].finished => d.matches[m].tick < MaxTicks
    <3>1. /\ SamePlayers(c.matches[m], d.matches[m])
          /\ d.matches[m].finished = c.matches[m].finished
          /\ d.matches[m].tick = c.matches[m].tick
      BY <1>3, <1>5, <1>7
    <3>2. Players(d.matches[m]) = Players(c.matches[m])
      BY <3>1 DEF SamePlayers, Players
    <3> QED
      BY <1>9, <3>1, <3>2 DEF Sound, Settled, SamePlayers
  <2> QED
    BY <1>9, <2>1 DEF Settled
<1> QED
  BY <1>2, <1>8, <1>10, <1>11, <1>12, <1>13 DEF Sound

(***************************************************************************)
(* What sessions are told, and how long their queues are.                  *)
(***************************************************************************)
\* What a session was sent and what waits for it, of the messages in T.
Told(session, T) == Among(session.wire \o session.queue, T)

ShortSession(session) ==
  Len(session.queue) <= IF session.auth # "Closed" THEN MaxPendingOutbound ELSE 0

\* A session is told nothing more of T, and loses what it was told only by closing.
Fades(old, new, T) ==
  /\ Begins(Told(new, T), Told(old, T))
  /\ new.auth # "Closed" => old.auth # "Closed" /\ Told(new, T) = Told(old, T)

\* An open session is told one message more of T, unless it closes.
Grows(old, new, T, message) ==
  /\ old.auth # "Closed"
  /\ Begins(Told(new, T), Append(Told(old, T), message))
  /\ new.auth # "Closed" => Told(new, T) = Append(Told(old, T), message)

\* What was told is a sequence of messages.
LEMMA ToldType ==
  ASSUME NEW session \in SessionRecord, NEW T
  PROVE  /\ session.wire \in Seq(MessageRecord) /\ session.queue \in Seq(MessageRecord)
         /\ session.wire \o session.queue \in Seq(MessageRecord)
         /\ Told(session, T) \in Seq(MessageRecord)
<1>1. session.wire \in Seq(MessageRecord) /\ session.queue \in Seq(MessageRecord)
  BY DEF SessionRecord
<1>2. session.wire \o session.queue \in Seq(MessageRecord)
  BY <1>1, ConcatProperties
<1>3. Told(session, T) \in Seq(MessageRecord)
  BY <1>2, AmongProperties DEF Told
<1> QED
  BY <1>1, <1>2, <1>3

\* Nothing changes; and one change after the other.
LEMMA FadesSteps ==
  ASSUME NEW old \in SessionRecord, NEW mid \in SessionRecord, NEW new \in SessionRecord, NEW T
  PROVE  /\ Fades(old, old, T)
         /\ Fades(old, mid, T) /\ Fades(mid, new, T) => Fades(old, new, T)
         /\ \A message \in MessageRecord :
              Grows(old, mid, T, message) /\ Fades(mid, new, T) => Grows(old, new, T, message)
<1>1. /\ Told(old, T) \in Seq(MessageRecord) /\ Told(mid, T) \in Seq(MessageRecord)
      /\ Told(new, T) \in Seq(MessageRecord)
  BY ToldType
<1>2. Fades(old, old, T)
  BY <1>1, BeginsProperties DEF Fades
<1>3. ASSUME Fades(old, mid, T), Fades(mid, new, T) PROVE Fades(old, new, T)
  <2>1. Begins(Told(new, T), Told(mid, T)) /\ Begins(Told(mid, T), Told(old, T))
    BY <1>3 DEF Fades
  <2>2. Begins(Told(new, T), Told(old, T))
    BY <1>1, <2>1, BeginsProperties
  <2> QED
    BY <1>3, <2>2 DEF Fades
<1>4. ASSUME NEW message \in MessageRecord, Grows(old, mid, T, message), Fades(mid, new, T)
      PROVE  Grows(old, new, T, message)
  <2> DEFINE more == Append(Told(old, T), message)
  <2>1. more \in Seq(MessageRecord)
    BY <1>1, AppendProperties
  <2>2. Begins(Told(new, T), Told(mid, T)) /\ Begins(Told(mid, T), more)
    BY <1>4 DEF Fades, Grows
  <2> HIDE DEF more
  <2>3. Begins(Told(new, T), more)
    BY <1>1, <2>1, <2>2, BeginsProperties
  <2> QED
    BY <1>4, <2>3 DEF Fades, Grows, more
<1> QED
  BY <1>2, <1>3, <1>4

\* A closed session keeps what it was sent.
LEMMA ClosedSessionTold ==
  ASSUME NEW session \in SessionRecord
  PROVE  /\ ShortSession(ClosedSession(session))
         /\ \A T : Fades(session, ClosedSession(session), T)
<1> DEFINE new == ClosedSession(session)
<1>1. new \in SessionRecord /\ new.auth = "Closed" /\ new.queue = <<>> /\ new.wire = session.wire
  BY ClosedSessionType DEF ClosedSession, SessionRecord
<1>2. ShortSession(new)
  BY <1>1 DEF ShortSession
<1> HIDE DEF new
<1>3. ASSUME NEW T PROVE Fades(session, new, T)
  <2>1. session.wire \in Seq(MessageRecord) /\ session.queue \in Seq(MessageRecord)
    BY ToldType
  <2>2. new.wire \o new.queue = session.wire
    BY <1>1, <2>1, ConcatEmptySeq
  <2>3. Begins(Among(session.wire, T), Among(session.wire \o session.queue, T))
    BY <2>1, BeginsProperties
  <2> QED
    BY <1>1, <2>2, <2>3 DEF Fades, Told
<1> QED
  BY <1>2, <1>3 DEF new

\* A message that is enqueued is told last, or closes the session (enqueueOutbound).
LEMMA EnqueueOutboundTold ==
  ASSUME NEW session \in SessionRecord, NEW message \in MessageRecord
  PROVE  LET new == EnqueueOutbound(session, message)
         IN  /\ ShortSession(session) => ShortSession(new)
             /\ \A T : /\ (message \notin T \/ new.auth = "Closed") => Fades(session, new, T)
                       /\ (message \in T /\ new.auth # "Closed")
                            => Grows(session, new, T, message)
<1> DEFINE new == EnqueueOutbound(session, message)
<1>1. CASE session.auth = "Closed"
  <2>1. new = session
    BY <1>1 DEF EnqueueOutbound
  <2> HIDE DEF new
  <2>2. \A T : Fades(session, new, T)
    BY <2>1, FadesSteps
  <2> QED
    BY <1>1, <2>1, <2>2 DEF new
<1>2. CASE session.auth # "Closed" /\ Overflows(session)
  <2>1. new = ClosedSession(session)
    BY <1>2 DEF EnqueueOutbound
  <2>2. new.auth = "Closed" /\ ShortSession(new) /\ \A T : Fades(session, new, T)
    BY <2>1, ClosedSessionTold, ClosedSessionType
  <2> HIDE DEF new
  <2> QED
    BY <2>2 DEF new
<1>3. CASE session.auth # "Closed" /\ ~Overflows(session)
  <2> DEFINE queue == Append(session.queue, message)
  <2>0. session.wire \in Seq(MessageRecord) /\ session.queue \in Seq(MessageRecord)
    BY ToldType
  <2>1. queue \in Seq(MessageRecord) /\ Len(queue) = Len(session.queue) + 1
    BY <2>0, AppendProperties
  <2>2. new = [session EXCEPT !.queue = queue]
    BY <1>3 DEF EnqueueOutbound
  <2> HIDE DEF queue
  <2>3. new.queue = queue /\ new.wire = session.wire /\ new.auth = session.auth
    BY <2>2 DEF SessionRecord
  <2> HIDE DEF new
  <2>4. ShortSession(new)
    <3>1. Len(session.queue) \in Nat /\ Len(session.queue) < MaxPendingOutbound
      BY <1>3, <2>0, BackendAssumption, LenProperties DEF Overflows
    <3> QED
      BY <1>3, <2>1, <2>3, <3>1, BackendAssumption DEF ShortSession
  <2>5. ASSUME NEW T
        PROVE  Told(new, T) = IF message \in T THEN Append(Told(session, T), message)
                              ELSE Told(session, T)
    <3> DEFINE q == session.wire \o session.queue
    <3>1. q \in Seq(MessageRecord)
      BY ToldType
    <3>2. session.wire \o Append(session.queue, message) = Append(q, message)
      <4> DEFINE w == session.wire
                 k == session.queue
      <4>1. w \in Seq(MessageRecord) /\ k \in Seq(MessageRecord)
        BY <2>0
      <4> HIDE DEF w, k
      <4>2. w \o Append(k, message) = Append(w \o k, message)
        BY <4>1, ConcatAppend
      <4> QED
        BY <4>2 DEF w, k
    <3>4. new.wire \o new.queue = Append(q, message)
      BY <2>3, <3>2 DEF queue
    <3> HIDE DEF q
    <3>3. Among(Append(q, message), T)
            = IF message \in T THEN Append(Among(q, T), message) ELSE Among(q, T)
      BY <3>1, AmongAppend
    <3> QED
      BY <3>3, <3>4 DEF Told, q
  <2>6. ASSUME NEW T
        PROVE  /\ message \notin T => Fades(session, new, T)
               /\ message \in T => Grows(session, new, T, message)
    <3>1. Told(session, T) \in Seq(MessageRecord)
      BY ToldType
    <3>2. /\ Begins(Told(session, T), Told(session, T))
          /\ Begins(Append(Told(session, T), message), Append(Told(session, T), message))
      BY <3>1, AppendProperties, BeginsProperties
    <3>3. ASSUME message \notin T PROVE Fades(session, new, T)
      <4>1. Told(new, T) = Told(session, T)
        BY <2>5, <3>3
      <4> QED
        BY <1>3, <2>3, <3>2, <4>1 DEF Fades
    <3>4. ASSUME message \in T PROVE Grows(session, new, T, message)
      <4>1. Told(new, T) = Append(Told(session, T), message)
        BY <2>5, <3>4
      <4> QED
        BY <1>3, <2>3, <3>2, <4>1 DEF Grows
    <3> QED
      BY <3>3, <3>4
  <2> QED
    BY <1>3, <2>3, <2>4, <2>6 DEF new
<1> QED
  BY <1>1, <1>2, <1>3

\* What is flushed is told as before; what the transport loses is lost with the session
\* (flushOutbound).
LEMMA FlushOutboundTold ==
  ASSUME NEW session \in SessionRecord, NEW sent \in 0 .. Len(session.queue)
  PROVE  LET new == FlushOutbound(session, sent)
         IN  /\ ShortSession(session) => ShortSession(new)
             /\ \A T \in SUBSET Remembered : Fades(session, new, T)
<1> DEFINE part == SubSeq(session.queue, 1, sent)
           rest == SubSeq(session.queue, sent + 1, Len(session.queue))
           told == Among(part, Remembered)
           wire == session.wire \o told
           handed == [session EXCEPT !.wire = wire]
           new == FlushOutbound(session, sent)
<1>1. session.wire \in Seq(MessageRecord) /\ session.queue \in Seq(MessageRecord)
      /\ Len(session.queue) \in Nat
  BY ToldType, LenProperties
<1>2. /\ part \in Seq(MessageRecord) /\ rest \in Seq(MessageRecord)
      /\ part \o rest = session.queue /\ (sent = Len(session.queue) => part = session.queue)
  <2>1. part \in Seq(MessageRecord) /\ rest \in Seq(MessageRecord)
    <3>1. \A i \in 1 .. Len(session.queue) : session.queue[i] \in MessageRecord
      BY <1>1, ElementOfSeq
    <3>2. sent \in Int /\ sent + 1 \in Int /\ 1 .. sent \subseteq 1 .. Len(session.queue)
          /\ sent + 1 .. Len(session.queue) \subseteq 1 .. Len(session.queue)
      BY <1>1
    <3> QED
      BY <1>1, <3>1, <3>2, SubSeqProperties
  <2>2. part \o rest = SubSeq(session.queue, 1, Len(session.queue))
    <3>1. 1 \in 1 .. Len(session.queue) + 1 /\ sent \in 1 - 1 .. Len(session.queue)
          /\ Len(session.queue) \in sent .. Len(session.queue)
      BY <1>1
    <3> QED
      BY <1>1, <3>1, ConcatAdjacentSubSeq
  <2>3. SubSeq(session.queue, 1, Len(session.queue)) = session.queue
    BY <1>1, SubSeqFull
  <2> QED
    BY <2>1, <2>2, <2>3
<1>3. new = IF session.auth = "Closed" THEN session
            ELSE IF sent < Len(session.queue) THEN ClosedSession(handed)
                 ELSE [handed EXCEPT !.queue = <<>>]
  BY DEF FlushOutbound
<1> HIDE DEF part, rest
<1>4. told \in Seq(MessageRecord) /\ wire \in Seq(MessageRecord)
  <2>1. told \in Seq(MessageRecord)
    BY <1>2, AmongProperties
  <2> HIDE DEF told
  <2> QED
    BY <1>1, <2>1, ConcatProperties
<1>5. ASSUME NEW T \in SUBSET Remembered
      PROVE  /\ Among(wire, T) = Among(session.wire \o part, T)
             /\ Begins(Among(wire, T), Told(session, T))
  <2> DEFINE w == session.wire
             q == w \o part
  <2>1. wire = w \o told /\ w \in Seq(MessageRecord)
    BY <1>1
  <2>2. q \in Seq(MessageRecord) /\ q \o rest = session.wire \o session.queue
    <3>1. (w \o part) \o rest = w \o (part \o rest)
      <4>1. /\ w \in Seq(MessageRecord) /\ part \in Seq(MessageRecord)
            /\ rest \in Seq(MessageRecord)
        BY <1>1, <1>2
      <4> HIDE DEF w, q
      <4> QED
        BY <4>1, ConcatAssociative, SMTT(40)
    <3>2. q \in Seq(MessageRecord)
      BY <1>1, <1>2, ConcatProperties
    <3> QED
      BY <1>2, <3>1, <3>2
  <2>3. Among(told, T) = Among(part, T)
    <3>1. Remembered \cap T = T
      OBVIOUS
    <3>2. Among(Among(part, Remembered), T) = Among(part, Remembered \cap T)
      BY <1>2, AmongAmong
    <3> QED
      BY <3>1, <3>2
  <2> HIDE DEF wire, told, w
  <2>4. Among(w \o told, T) = Among(w, T) \o Among(told, T)
    BY <1>4, <2>1, AmongConcat
  <2>5. Among(w \o part, T) = Among(w, T) \o Among(part, T)
    BY <1>2, <2>1, AmongConcat
  <2>6. Among(wire, T) = Among(w \o part, T)
    BY <2>1, <2>3, <2>4, <2>5, Zenon
  <2> HIDE DEF q
  <2>7. Begins(Among(q, T), Among(q \o rest, T))
    BY <1>2, <2>2, BeginsProperties
  <2>8. Among(wire, T) = Among(q, T)
    BY <2>6 DEF q
  <2>9. Told(session, T) = Among(q \o rest, T)
    BY <2>2 DEF Told
  <2>10. Among(wire, T) = Among(session.wire \o part, T)
    BY <2>8 DEF q, w
  <2> QED
    BY <2>7, <2>8, <2>9, <2>10
<1> HIDE DEF wire, told
<1>6. handed \in SessionRecord /\ handed.wire = wire /\ handed.auth = session.auth
  BY <1>4 DEF SessionRecord
<1> HIDE DEF handed, new
<1>7. CASE session.auth = "Closed"
  BY <1>3, <1>7, FadesSteps DEF new
<1>8. CASE session.auth # "Closed" /\ sent < Len(session.queue)
  <2>1. new = ClosedSession(handed)
    BY <1>3, <1>8
  <2>2. /\ new.auth = "Closed" /\ ShortSession(new) /\ new.queue = <<>>
        /\ new.wire = wire
    BY <1>6, <2>1, ClosedSessionTold, ClosedSessionType DEF ClosedSession, SessionRecord
  <2>3. new.wire \o new.queue = wire
    BY <1>4, <2>2, ConcatEmptySeq
  <2> QED
    BY <1>5, <2>2, <2>3 DEF Fades, Told, new
<1>9. CASE session.auth # "Closed" /\ sent = Len(session.queue)
  <2>1. new = [handed EXCEPT !.queue = <<>>]
    BY <1>3, <1>9
  <2>2. new.auth = session.auth /\ new.queue = <<>> /\ new.wire = wire
    BY <1>6, <2>1 DEF SessionRecord
  <2>3. new.wire \o new.queue = wire
    BY <1>4, <2>2, ConcatEmptySeq
  <2>4. ShortSession(new)
    BY <2>2, BackendAssumption DEF ShortSession
  <2>5. part = session.queue
    BY <1>2, <1>9
  <2>6. \A T \in SUBSET Remembered : Told(new, T) = Told(session, T)
    BY <1>5, <2>3, <2>5 DEF Told
  <2> QED
    BY <1>5, <1>9, <2>2, <2>3, <2>4, <2>6 DEF Fades, Told, new
<1> QED
  BY <1>1, <1>7, <1>8, <1>9

EventsOf(m) == {message \in MessageRecord : message.match = m /\ message.kind = "events"}

\* Events are remembered, and are of one match.
LEMMA EventsType ==
  ASSUME NEW m
  PROVE  /\ EventsOf(m) \in SUBSET Remembered
         /\ \A n, tick : /\ Message("events", n, tick) \in EventsOf(m) => n = m
                         /\ Message("snapshot", n, tick) \notin EventsOf(m)
                         /\ Message("joined", n, tick) \notin EventsOf(m)
                         /\ Message("events", m, tick) \in MessageRecord
                              => Message("events", m, tick) \in EventsOf(m)
<1>1. \A message \in EventsOf(m) : message.kind = "events" /\ message.match = m
  BY DEF EventsOf
<1>2. EventsOf(m) \in SUBSET Remembered
  BY DEF EventsOf, Remembered
<1>3. \A kind, n, tick : Message(kind, n, tick).kind = kind /\ Message(kind, n, tick).match = n
  BY DEF Message
<1>4. ASSUME NEW tick, Message("events", m, tick) \in MessageRecord
      PROVE  Message("events", m, tick) \in EventsOf(m)
  BY <1>3, <1>4 DEF EventsOf
<1> QED
  BY <1>1, <1>2, <1>3, <1>4

\* A message is sent to several sessions: each is told of it, or closes.
LEMMA SentToTold ==
  ASSUME NEW c, Typed(c), NEW players, NEW message \in MessageRecord,
         NEW s \in DOMAIN c.sessions
  PROVE  LET new == SentTo(c, players, message)[s]
             old == c.sessions[s]
         IN  /\ new \in SessionRecord /\ (ShortSession(old) => ShortSession(new))
             /\ \A T : /\ (message \notin T \/ s \notin players \/ new.auth = "Closed")
                            => Fades(old, new, T)
                       /\ (message \in T /\ s \in players /\ new.auth # "Closed")
                            => Grows(old, new, T, message)
<1> DEFINE new == SentTo(c, players, message)[s]
           old == c.sessions[s]
<1>1. old \in SessionRecord
  BY TypedParts
<1>2. new = IF s \in players THEN EnqueueOutbound(old, message) ELSE old
  BY DEF SentTo
<1> HIDE DEF new, old
<1>3. CASE s \in players
  <2>1. new = EnqueueOutbound(old, message)
    BY <1>2, <1>3
  <2>2. new \in SessionRecord
    BY <1>1, <2>1, EnqueueOutboundType
  <2> QED
    BY <1>1, <1>3, <2>1, <2>2, EnqueueOutboundTold DEF new, old
<1>4. CASE s \notin players
  <2>1. new = old
    BY <1>2, <1>4
  <2> QED
    BY <1>1, <1>4, <2>1, FadesSteps DEF new, old
<1> QED
  BY <1>3, <1>4

\* What a tick tells: its events to the players, if the match was not over (tick).
LEMMA TickMatchTold ==
  ASSUME NEW c, Sound(c), NEW m \in DOMAIN c.matches, MayTick(c, m),
         NEW over \in BOOLEAN, NEW snapshot \in BOOLEAN, NEW s \in DOMAIN c.sessions
  PROVE  LET d   == TickMatch(c, m, over, snapshot)
             old == c.sessions[s]
             new == d.sessions[s]
             told == ~c.matches[m].finished /\ s \in Players(c.matches[m])
         IN  /\ new \in SessionRecord /\ (ShortSession(old) => ShortSession(new))
             /\ DOMAIN d.sessions = DOMAIN c.sessions
             /\ \A n \in MatchId :
                  \/ Fades(old, new, EventsOf(n)) /\ (n # m \/ ~told \/ new.auth = "Closed")
                  \/ /\ n = m /\ told
                     /\ Grows(old, new, EventsOf(n), Message("events", m, d.matches[m].tick))
<1> DEFINE before == c.matches[m]
           match == Advanced(before, over)
           ticked == [c EXCEPT !.matches[m] = match]
           now == ticked.matches[m].tick
           message == Message("events", m, now)
           snap == Message("snapshot", m, now)
           reported == IF before.finished THEN ticked ELSE Broadcast(ticked, m, message)
           d == TickMatch(c, m, over, snapshot)
           players == Players(c.matches[m])
           told == ~before.finished /\ s \in players
           old == c.sessions[s]
           mid == reported.sessions[s]
           new == d.sessions[s]
<1>1. d = IF snapshot THEN Broadcast(reported, m, snap) ELSE reported
  BY DEF TickMatch
<1>2. Sound(d) /\ d.matches = [c.matches EXCEPT ![m] = match]
  BY TickMatchSound
<1> HIDE DEF d
<1>3. before \in MatchRecord /\ m \in MatchId /\ (~before.finished => before.tick < MaxTicks)
  BY TypedParts DEF Sound, Settled
<1>4. /\ match \in MatchRecord /\ SamePlayers(before, match)
      /\ ~match.finished => match.tick < MaxTicks
      /\ \A i \in DOMAIN match.queue :
           \E j \in DOMAIN before.queue : match.queue[i] = before.queue[j]
  BY <1>3, AdvancedType
<1> HIDE DEF match
<1>5. match.finished => match.started
  BY <1>4 DEF MayTick, SamePlayers
<1>6. Sound(ticked)
  BY <1>4, <1>5, OneMatchSound
<1>7. ticked.matches = [c.matches EXCEPT ![m] = match] /\ ticked.sessions = c.sessions
  BY DEF Sound, Typed, BackendRecord
<1>8. /\ DOMAIN ticked.matches = DOMAIN c.matches /\ ticked.matches[m] = match
      /\ Players(ticked.matches[m]) = players /\ d.matches[m].tick = now
  BY <1>2, <1>4, <1>7 DEF SamePlayers, Players
<1> HIDE DEF ticked
<1>9. now \in 0 .. MaxTicks
  BY <1>4, <1>8 DEF MatchRecord
<1> HIDE DEF now
<1>10. message \in MessageRecord /\ snap \in MessageRecord
  BY <1>3, <1>9 DEF Message, MessageRecord
<1>11. \A n \in MatchId : /\ snap \notin EventsOf(n)
                          /\ message \in EventsOf(n) <=> n = m
  BY <1>10, EventsType
<1> HIDE DEF before, players, message, snap
<1>12. /\ Sound(reported) /\ DOMAIN reported.sessions = DOMAIN c.sessions
       /\ reported.matches = ticked.matches
       /\ mid \in SessionRecord /\ (ShortSession(old) => ShortSession(mid))
       /\ \A n \in MatchId :
            \/ Fades(old, mid, EventsOf(n)) /\ (n # m \/ ~told \/ mid.auth = "Closed")
            \/ n = m /\ told /\ Grows(old, mid, EventsOf(n), message)
  <2>1. old \in SessionRecord
    BY TypedParts DEF Sound
  <2>2. CASE before.finished
    <3>1. reported = ticked
      BY <2>2
    <3>2. mid = old
      BY <1>7, <3>1
    <3> HIDE DEF reported, mid, old
    <3> QED
      BY <1>6, <1>7, <2>1, <2>2, <3>1, <3>2, FadesSteps
  <2>3. CASE ~before.finished
    <3>1. reported = Broadcast(ticked, m, message)
      BY <2>3
    <3> HIDE DEF reported, told
    <3>2. Sound(reported) /\ reported.matches = ticked.matches
      BY <1>6, <1>8, <1>10, <3>1, BroadcastSound
    <3>3. reported.sessions = SentTo(ticked, players, message)
      BY <1>6, <1>8, <3>1 DEF Broadcast, Sound, Typed, BackendRecord
    <3>4. DOMAIN reported.sessions = DOMAIN c.sessions
      BY <1>7, <3>3 DEF SentTo
    <3>5. /\ mid \in SessionRecord /\ (ShortSession(old) => ShortSession(mid))
          /\ \A T : /\ (message \notin T \/ s \notin players \/ mid.auth = "Closed")
                         => Fades(old, mid, T)
                    /\ (message \in T /\ s \in players /\ mid.auth # "Closed")
                         => Grows(old, mid, T, message)
      BY <1>6, <1>7, <1>10, <3>3, SentToTold DEF Sound
    <3> HIDE DEF mid, old
    <3>6. ASSUME NEW n \in MatchId
          PROVE  \/ Fades(old, mid, EventsOf(n)) /\ (n # m \/ ~told \/ mid.auth = "Closed")
                 \/ n = m /\ told /\ Grows(old, mid, EventsOf(n), message)
      BY <1>11, <2>3, <3>5 DEF told
    <3> QED
      BY <3>2, <3>4, <3>5, <3>6
  <2> QED
    BY <2>2, <2>3
<1> HIDE DEF reported, told
<1>13. CASE ~snapshot
  <2>1. d = reported
    BY <1>1, <1>13
  <2>2. new = mid
    BY <2>1
  <2> HIDE DEF new, mid, old
  <2> QED
    BY <1>8, <1>12, <2>1, <2>2 DEF message, told, new, mid, old, d, before, players
<1>14. CASE snapshot
  <2>1. d = Broadcast(reported, m, snap)
    BY <1>1, <1>14
  <2>2. d.sessions = SentTo(reported, players, snap)
    BY <1>8, <1>12, <2>1 DEF Broadcast, Sound, Typed, BackendRecord
  <2>3. DOMAIN d.sessions = DOMAIN c.sessions
    BY <1>12, <2>2 DEF SentTo
  <2>4. /\ new \in SessionRecord /\ (ShortSession(mid) => ShortSession(new))
        /\ \A n \in MatchId : Fades(mid, new, EventsOf(n))
    BY <1>10, <1>11, <1>12, <2>2, SentToTold DEF Sound
  <2>5. old \in SessionRecord
    BY TypedParts DEF Sound
  <2> HIDE DEF new, mid, old
  <2>6. ASSUME NEW n \in MatchId
        PROVE  \/ Fades(old, new, EventsOf(n)) /\ (n # m \/ ~told \/ new.auth = "Closed")
               \/ n = m /\ told /\ Grows(old, new, EventsOf(n), message)
    <3>1. Fades(mid, new, EventsOf(n))
      BY <2>4
    <3>2. CASE Fades(old, mid, EventsOf(n)) /\ (n # m \/ ~told \/ mid.auth = "Closed")
      <4>1. Fades(old, new, EventsOf(n))
        BY <1>12, <2>4, <2>5, <3>1, <3>2, FadesSteps
      <4>2. mid.auth = "Closed" => new.auth = "Closed"
        BY <3>1 DEF Fades
      <4> QED
        BY <3>2, <4>1, <4>2
    <3>3. CASE n = m /\ told /\ Grows(old, mid, EventsOf(n), message)
      BY <1>10, <1>12, <2>4, <2>5, <3>1, <3>3, FadesSteps
    <3> QED
      BY <1>12, <3>2, <3>3
  <2> QED
    BY <1>8, <1>12, <2>3, <2>4, <2>6 DEF message, told, new, mid, old, d, before, players
<1> QED
  BY <1>13, <1>14

(***************************************************************************)
(* The commands of a match.                                                *)
(***************************************************************************)
CommandsOf(s) == {command \in CommandRecord : command.session = s}

ShortMatch(match) ==
  /\ Len(match.queue) <= MaxPendingPerMatch
  /\ \A s \in SessionId : Pending(match, s) <= MaxPendingPerSession

\* The commands of s that a match has taken, and those that it has run or will run.
TakenOf(match, s) == Among(match.accepted, CommandsOf(s))
KeptOf(match, s) == Among(match.applied \o match.queue, CommandsOf(s))

\* They were taken in the order of their numbers, and all are kept unless s is gone.
OrderedFor(match, s, gone) ==
  /\ \A i \in 1 .. Len(TakenOf(match, s)) : TakenOf(match, s)[i].seq <= match.lastSeq[s]
  /\ \A i, j \in 1 .. Len(TakenOf(match, s)) :
       i < j => TakenOf(match, s)[i].seq < TakenOf(match, s)[j].seq
  /\ Begins(KeptOf(match, s), TakenOf(match, s))
  /\ s \notin gone => KeptOf(match, s) = TakenOf(match, s)

\* What waits of a session, counted and selected.
LEMMA PendingIsAmong ==
  ASSUME NEW queue \in Seq(CommandRecord), NEW s
  PROVE  Cardinality({i \in DOMAIN queue : queue[i].session = s}) = Len(Among(queue, CommandsOf(s)))
<1> DEFINE Places(q) == {i \in DOMAIN q : q[i].session = s}
           P == {q \in Seq(CommandRecord) :
                   /\ IsFiniteSet(Places(q))
                   /\ Cardinality(Places(q)) = Len(Among(q, CommandsOf(s)))}
<1>1. <<>> \in P
  <2>1. Places(<<>>) = {}
    OBVIOUS
  <2>2. Among(<<>>, CommandsOf(s)) = <<>> /\ Len(<<>>) = 0
    BY AmongEmpty
  <2>3. <<>> \in Seq(CommandRecord)
    OBVIOUS
  <2> HIDE DEF Places
  <2> QED
    BY <2>1, <2>2, <2>3, FS_EmptySet
<1>2. ASSUME NEW q \in Seq(CommandRecord), q \in P, NEW e \in CommandRecord
      PROVE  Append(q, e) \in P
  <2> DEFINE r == Append(q, e)
             n == Len(q) + 1
             new == Among(r, CommandsOf(s))
             old == Among(q, CommandsOf(s))
  <2>1. /\ r \in Seq(CommandRecord) /\ Len(r) = n /\ r[n] = e
        /\ \A i \in 1 .. Len(q) : r[i] = q[i]
    BY AppendProperties
  <2>2. new = IF e \in CommandsOf(s) THEN Append(old, e) ELSE old
    BY AmongAppend
  <2>3. e \in CommandsOf(s) <=> e.session = s
    BY DEF CommandsOf
  <2>4. old \in Seq(CommandRecord) /\ Len(old) \in Nat
    BY AmongProperties
  <2> HIDE DEF r
  <2>5. DOMAIN q = 1 .. Len(q) /\ DOMAIN r = 1 .. n /\ Len(q) \in Nat
    BY <2>1
  <2>6. n \notin Places(q) /\ Places(r) = IF e.session = s THEN Places(q) \cup {n} ELSE Places(q)
    <3>1. n \notin Places(q)
      BY <2>5
    <3>2. \A i : i \in Places(r) <=> (i \in Places(q) \/ (i = n /\ e.session = s))
      BY <2>1, <2>5
    <3> HIDE DEF Places
    <3> QED
      BY <3>1, <3>2
  <2>7. IsFiniteSet(Places(q)) /\ Cardinality(Places(q)) = Len(old)
    BY <1>2
  <2>8. CASE e.session = s
    <3>1. new = Append(old, e) /\ Len(new) = Len(old) + 1
      BY <2>2, <2>3, <2>4, <2>8, AppendProperties
    <3> HIDE DEF Places, new, old
    <3>2. Places(r) = Places(q) \cup {n}
      BY <2>6, <2>8
    <3>3. IsFiniteSet(Places(r)) /\ Cardinality(Places(r)) = Cardinality(Places(q)) + 1
      BY <2>6, <2>7, <3>2, FS_AddElement
    <3>4. r \in Seq(CommandRecord) /\ Cardinality(Places(r)) = Len(new)
      BY <2>1, <2>7, <3>1, <3>3
    <3>5. Cardinality(Places(r)) = Len(Among(r, CommandsOf(s)))
      BY <3>4 DEF new
    <3> HIDE DEF r
    <3>6. r \in P
      BY <3>3, <3>4, <3>5
    <3> QED
      BY <3>6 DEF r
  <2>9. CASE e.session # s
    <3>1. new = old
      BY <2>2, <2>3, <2>9
    <3> HIDE DEF Places, new, old
    <3>2. Places(r) = Places(q)
      BY <2>6, <2>9
    <3> QED
      BY <2>1, <2>7, <3>1, <3>2 DEF r, new
  <2> QED
    BY <2>8, <2>9
<1> HIDE DEF P
<1>3. Seq(CommandRecord) \subseteq P
  BY <1>1, <1>2, SeqInduction
<1> QED
  BY <1>3 DEF P

\* The sequences of commands that a match keeps.
LEMMA CommandsType ==
  ASSUME NEW match \in MatchRecord, NEW s
  PROVE  /\ match.queue \in Seq(CommandRecord) /\ match.accepted \in Seq(CommandRecord)
         /\ match.applied \in Seq(CommandRecord)
         /\ match.applied \o match.queue \in Seq(CommandRecord)
         /\ TakenOf(match, s) \in Seq(CommandRecord) /\ KeptOf(match, s) \in Seq(CommandRecord)
         /\ Pending(match, s) = Len(Among(match.queue, CommandsOf(s)))
<1>1. /\ match.queue \in Seq(CommandRecord) /\ match.accepted \in Seq(CommandRecord)
      /\ match.applied \in Seq(CommandRecord)
  BY DEF MatchRecord
<1>2. match.applied \o match.queue \in Seq(CommandRecord)
  BY <1>1, ConcatProperties
<1>3. TakenOf(match, s) \in Seq(CommandRecord) /\ KeptOf(match, s) \in Seq(CommandRecord)
  BY <1>1, <1>2, AmongProperties DEF TakenOf, KeptOf
<1> QED
  BY <1>1, <1>2, <1>3, PendingIsAmong DEF Pending

\* A command that is taken is the last of its sender (submitCommand).
LEMMA SubmittedCommands ==
  ASSUME NEW old \in MatchRecord, NEW command \in CommandRecord, NEW gone,
         command.session \notin gone, command.seq > old.lastSeq[command.session]
  PROVE  LET new == Submitted(old, command)
         IN  /\ (/\ ShortMatch(old) /\ Len(old.queue) < MaxPendingPerMatch
                 /\ Pending(old, command.session) < MaxPendingPerSession) => ShortMatch(new)
             /\ \A s \in SessionId : OrderedFor(old, s, gone) => OrderedFor(new, s, gone)
<1> DEFINE new == Submitted(old, command)
           t == command.session
           queue == Append(old.queue, command)
           accepted == Append(old.accepted, command)
           q == old.applied \o old.queue
<1>1. /\ old.queue \in Seq(CommandRecord) /\ old.accepted \in Seq(CommandRecord)
      /\ old.applied \in Seq(CommandRecord) /\ q \in Seq(CommandRecord)
      /\ Len(old.queue) \in Nat
  BY CommandsType, LenProperties
<1>2. /\ old.lastSeq \in [SessionId -> Nat] /\ old.thisTick \in [SessionId -> Nat]
      /\ t \in SessionId /\ command.seq \in Nat
  BY DEF MatchRecord, CommandRecord
<1>3. new \in MatchRecord
  BY SubmittedType
<1>4. /\ new.queue = queue /\ new.accepted = accepted /\ new.applied = old.applied
      /\ new.lastSeq = [old.lastSeq EXCEPT ![t] = command.seq]
  BY DEF Submitted, MatchRecord
<1> HIDE DEF new
<1>5. Len(new.queue) = Len(old.queue) + 1
  BY <1>1, <1>4, AppendProperties
<1>6. new.applied \o new.queue = Append(q, command)
  <2> DEFINE u == old.applied
             v == old.queue
  <2>1. u \in Seq(CommandRecord) /\ v \in Seq(CommandRecord)
    BY <1>1
  <2> HIDE DEF u, v
  <2>2. u \o Append(v, command) = Append(u \o v, command)
    BY <2>1, ConcatAppend
  <2> QED
    BY <1>4, <2>2 DEF u, v
<1>7. \A s : command \in CommandsOf(s) <=> s = t
  BY DEF CommandsOf
<1>8. ASSUME NEW s
      PROVE  /\ Among(new.queue, CommandsOf(s))
                  = IF s = t THEN Append(Among(old.queue, CommandsOf(s)), command)
                    ELSE Among(old.queue, CommandsOf(s))
             /\ TakenOf(new, s) = IF s = t THEN Append(TakenOf(old, s), command)
                                  ELSE TakenOf(old, s)
             /\ KeptOf(new, s) = IF s = t THEN Append(KeptOf(old, s), command)
                                 ELSE KeptOf(old, s)
  <2>1. \A r \in Seq(CommandRecord) :
          Among(Append(r, command), CommandsOf(s))
            = IF s = t THEN Append(Among(r, CommandsOf(s)), command)
              ELSE Among(r, CommandsOf(s))
    BY <1>7, AmongAppend
  <2> HIDE DEF q, t
  <2>2. Among(Append(q, command), CommandsOf(s))
          = IF s = t THEN Append(Among(q, CommandsOf(s)), command)
            ELSE Among(q, CommandsOf(s))
    BY <1>1, <2>1
  <2>3. /\ Among(queue, CommandsOf(s))
             = IF s = t THEN Append(Among(old.queue, CommandsOf(s)), command)
               ELSE Among(old.queue, CommandsOf(s))
        /\ Among(accepted, CommandsOf(s))
             = IF s = t THEN Append(Among(old.accepted, CommandsOf(s)), command)
               ELSE Among(old.accepted, CommandsOf(s))
    BY <1>1, <2>1
  <2> QED
    BY <1>4, <1>6, <2>2, <2>3 DEF TakenOf, KeptOf, q
<1> HIDE DEF queue, accepted, q
<1>9. ASSUME ShortMatch(old), Len(old.queue) < MaxPendingPerMatch,
             Pending(old, t) < MaxPendingPerSession
      PROVE  ShortMatch(new)
  <2>1. Len(new.queue) <= MaxPendingPerMatch
    BY <1>1, <1>5, <1>9, BackendAssumption
  <2>2. ASSUME NEW s \in SessionId PROVE Pending(new, s) <= MaxPendingPerSession
    <3> DEFINE some == Among(old.queue, CommandsOf(s))
    <3>1. some \in Seq(CommandRecord)
      BY <1>1, AmongProperties
    <3>2. Len(some) \in Nat /\ Len(Append(some, command)) = Len(some) + 1
      BY <3>1, AppendProperties
    <3>3. Pending(old, s) = Len(some) /\ Pending(new, s) = Len(Among(new.queue, CommandsOf(s)))
      BY <1>3, CommandsType
    <3> HIDE DEF some, t
    <3>4. Pending(new, s) = IF s = t THEN Len(some) + 1 ELSE Len(some)
      BY <1>8, <3>2, <3>3 DEF some
    <3> QED
      BY <1>9, <3>2, <3>3, <3>4, BackendAssumption DEF ShortMatch
  <2> QED
    BY <2>1, <2>2 DEF ShortMatch
<1>10. ASSUME NEW s \in SessionId, OrderedFor(old, s, gone) PROVE OrderedFor(new, s, gone)
  <2>1. CASE s # t
    <3>1. new.lastSeq[s] = old.lastSeq[s]
      BY <1>2, <1>4, <2>1
    <3> QED
      BY <1>8, <1>10, <2>1, <3>1 DEF OrderedFor
  <2>2. CASE s = t
    <3> DEFINE taken == TakenOf(old, s)
               more == Append(taken, command)
    <3>1. taken \in Seq(CommandRecord) /\ Len(taken) \in Nat
      BY CommandsType, LenProperties
    <3>2. KeptOf(old, s) = taken
      BY <1>10, <2>2 DEF OrderedFor
    <3>3. TakenOf(new, s) = more /\ KeptOf(new, s) = more
      BY <1>8, <2>2, <3>2
    <3>4. /\ \A i \in 1 .. Len(taken) : taken[i].seq <= old.lastSeq[s]
          /\ \A i, j \in 1 .. Len(taken) : i < j => taken[i].seq < taken[j].seq
      BY <1>10 DEF OrderedFor
    <3>5. \A i \in 1 .. Len(taken) : taken[i].seq \in Nat
      <4>1. \A i \in 1 .. Len(taken) : taken[i] \in CommandRecord
        BY <3>1, ElementOfSeq
      <4> QED
        BY <4>1 DEF CommandRecord
    <3> HIDE DEF taken
    <3>6. /\ more \in Seq(CommandRecord) /\ Len(more) = Len(taken) + 1
          /\ \A i \in 1 .. Len(taken) : more[i] = taken[i]
          /\ more[Len(taken) + 1] = command
      BY <3>1, AppendProperties
    <3> HIDE DEF more
    <3>7. \A i \in 1 .. Len(more) : i \in 1 .. Len(taken) \/ i = Len(taken) + 1
      BY <3>1, <3>6
    <3>8. new.lastSeq[s] = command.seq /\ old.lastSeq[s] \in Nat /\ old.lastSeq[s] < command.seq
      BY <1>2, <1>4, <2>2
    <3>9. \A i \in 1 .. Len(taken) : taken[i].seq < command.seq
      BY <1>2, <3>4, <3>5, <3>8
    <3>10. \A i \in 1 .. Len(more) : more[i].seq <= command.seq
      BY <1>2, <3>5, <3>6, <3>7, <3>9
    <3>11. \A i, j \in 1 .. Len(more) : i < j => more[i].seq < more[j].seq
      <4> SUFFICES ASSUME NEW i \in 1 .. Len(more), NEW j \in 1 .. Len(more), i < j
                   PROVE  more[i].seq < more[j].seq
        OBVIOUS
      <4>1. i \in 1 .. Len(taken)
        BY <3>1, <3>6
      <4>2. CASE j \in 1 .. Len(taken)
        BY <3>4, <3>6, <4>1, <4>2
      <4>3. CASE j = Len(taken) + 1
        BY <3>6, <3>9, <4>1, <4>3
      <4> QED
        BY <3>7, <4>2, <4>3
    <3>12. Begins(more, more)
      BY <3>6, BeginsProperties
    <3> QED
      BY <3>3, <3>8, <3>10, <3>11, <3>12 DEF OrderedFor
  <2> QED
    BY <2>1, <2>2
<1> QED
  BY <1>9, <1>10 DEF new

\* A tick runs the commands that it takes off the queue, from its front (tick).
LEMMA AdvancedCommands ==
  ASSUME NEW old \in MatchRecord, NEW over \in BOOLEAN, NEW gone,
         ~old.finished => old.tick < MaxTicks
  PROVE  LET new == Advanced(old, over)
         IN  /\ ShortMatch(old) => ShortMatch(new)
             /\ \A s \in SessionId : OrderedFor(old, s, gone) => OrderedFor(new, s, gone)
<1> DEFINE new == Advanced(old, over)
           taken == Taken(old)
           all == old.queue
           ran == old.applied
           part == SubSeq(all, 1, taken)
           rest == SubSeq(all, taken + 1, Len(all))
<1>1. /\ all \in Seq(CommandRecord) /\ ran \in Seq(CommandRecord) /\ Len(all) \in Nat
  BY CommandsType, LenProperties
<1>2. taken \in 0 .. Len(all)
  BY <1>1, BackendAssumption DEF Taken
<1>3. /\ new.queue = rest /\ new.applied = ran \o part
      /\ new.accepted = old.accepted /\ new.lastSeq = old.lastSeq
  BY DEF Advanced, MatchRecord
<1>4. new \in MatchRecord
  BY AdvancedType
<1> HIDE DEF new, taken, all, ran
<1>5. /\ part \in Seq(CommandRecord) /\ rest \in Seq(CommandRecord) /\ part \o rest = all
      /\ Len(rest) <= Len(all)
  <2>1. \A i \in 1 .. Len(all) : all[i] \in CommandRecord
    BY <1>1, ElementOfSeq
  <2>2. taken \in Int /\ taken + 1 \in Int /\ 1 .. taken \subseteq 1 .. Len(all)
        /\ taken + 1 .. Len(all) \subseteq 1 .. Len(all)
    BY <1>1, <1>2
  <2>3. part \in Seq(CommandRecord) /\ rest \in Seq(CommandRecord)
        /\ Len(rest) = IF taken + 1 <= Len(all) THEN Len(all) - (taken + 1) + 1 ELSE 0
    BY <1>1, <2>1, <2>2, SubSeqProperties
  <2>4. part \o rest = SubSeq(all, 1, Len(all))
    <3>1. 1 \in 1 .. Len(all) + 1 /\ taken \in 1 - 1 .. Len(all) /\ Len(all) \in taken .. Len(all)
      BY <1>1, <1>2
    <3> QED
      BY <1>1, <3>1, ConcatAdjacentSubSeq
  <2>5. SubSeq(all, 1, Len(all)) = all
    BY <1>1, SubSeqFull
  <2> HIDE DEF part, rest
  <2>6. Len(rest) <= Len(all)
    BY <1>1, <1>2, <2>3
  <2>7. part \o rest = all
    BY <2>4, <2>5, Zenon
  <2> QED
    BY <2>3, <2>6, <2>7
<1> HIDE DEF part, rest
<1>10. ran \in Seq(CommandRecord) /\ part \in Seq(CommandRecord) /\ rest \in Seq(CommandRecord)
  BY <1>1, <1>5
<1>6. new.applied \o new.queue = old.applied \o old.queue
  <2>1. (ran \o part) \o rest = ran \o (part \o rest)
    BY <1>10, ConcatAssociative
  <2> QED
    BY <1>3, <1>5, <2>1 DEF ran, all
<1>7. \A s : TakenOf(new, s) = TakenOf(old, s) /\ KeptOf(new, s) = KeptOf(old, s)
  BY <1>3, <1>6 DEF TakenOf, KeptOf
<1>8. ASSUME ShortMatch(old) PROVE ShortMatch(new)
  <2>1. ASSUME NEW s \in SessionId PROVE Pending(new, s) <= MaxPendingPerSession
    <3> DEFINE T == CommandsOf(s)
    <3>1. Pending(old, s) = Len(Among(all, T)) /\ Pending(new, s) = Len(Among(rest, T))
      BY <1>3, <1>4, CommandsType DEF all
    <3>2. Among(part \o rest, T) = Among(part, T) \o Among(rest, T)
      BY <1>10, AmongConcat
    <3>3. Among(part, T) \in Seq(CommandRecord) /\ Among(rest, T) \in Seq(CommandRecord)
      BY <1>5, AmongProperties
    <3>4. /\ Len(Among(part, T)) \in Nat /\ Len(Among(rest, T)) \in Nat
          /\ Len(Among(part, T) \o Among(rest, T)) = Len(Among(part, T)) + Len(Among(rest, T))
      BY <3>3, ConcatProperties, LenProperties
    <3>5. Len(Among(all, T)) = Len(Among(part, T)) + Len(Among(rest, T))
      BY <1>5, <3>2, <3>4
    <3> HIDE DEF T
    <3> QED
      BY <1>8, <3>1, <3>4, <3>5, BackendAssumption DEF ShortMatch
  <2>2. Len(new.queue) <= MaxPendingPerMatch
    <3>1. Len(all) <= MaxPendingPerMatch
      BY <1>8 DEF ShortMatch, all
    <3>2. Len(rest) \in Nat
      BY <1>5, LenProperties
    <3> QED
      BY <1>1, <1>3, <1>5, <3>1, <3>2, BackendAssumption
  <2> QED
    BY <2>1, <2>2 DEF ShortMatch
<1>9. \A s \in SessionId : OrderedFor(old, s, gone) => OrderedFor(new, s, gone)
  BY <1>3, <1>7 DEF OrderedFor
<1> QED
  BY <1>8, <1>9 DEF new

\* The commands that are taken out of a match are those of one session, which is gone
\* (disconnect).
LEMMA WithoutCommands ==
  ASSUME NEW old \in MatchRecord, NEW t \in SessionId, NEW gone, NEW after,
         gone \subseteq after, t \in after
  PROVE  LET new == WithoutCommandsOf(old, t)
         IN  /\ ShortMatch(old) => ShortMatch(new)
             /\ \A s \in SessionId : OrderedFor(old, s, gone) => OrderedFor(new, s, after)
<1> DEFINE new == WithoutCommandsOf(old, t)
           all == old.queue
           ran == old.applied
           others == {command \in CommandRecord : command.session # t}
           left == Among(all, others)
<1>1. all \in Seq(CommandRecord) /\ ran \in Seq(CommandRecord)
  BY CommandsType
<1>2. /\ new.queue = left /\ new.applied = ran
      /\ new.accepted = old.accepted /\ new.lastSeq = old.lastSeq
  BY DEF WithoutCommandsOf, MatchRecord
<1> HIDE DEF all, ran, others
<1>3. left \in Seq(CommandRecord) /\ Len(left) <= Len(all)
  BY <1>1, AmongProperties
<1>4. new = [old EXCEPT !.queue = left]
  BY DEF WithoutCommandsOf, all, others
<1> HIDE DEF left
<1>5. new \in MatchRecord
  BY <1>3, <1>4 DEF MatchRecord
<1> HIDE DEF new
<1>6. ASSUME NEW s \in SessionId
      PROVE  Among(left, CommandsOf(s)) = IF s = t THEN <<>> ELSE Among(all, CommandsOf(s))
  <2> DEFINE T == CommandsOf(s)
  <2>1. Among(left, T) = Among(all, others \cap T)
    <3> HIDE DEF T
    <3>1. Among(Among(all, others), T) = Among(all, others \cap T)
      BY <1>1, AmongAmong
    <3> QED
      BY <3>1 DEF left
  <2>2. \A e : e \in others \cap T <=> e \in T /\ s # t
    BY DEF others, CommandsOf
  <2> HIDE DEF T
  <2>3. CASE s = t
    <3>1. \A i \in 1 .. Len(all) : all[i] \notin others \cap T
      BY <2>2, <2>3
    <3>2. Among(all, others \cap T) = <<>>
      BY <1>1, <3>1, AmongAllOrNone
    <3> QED
      BY <2>1, <2>3, <3>2 DEF T
  <2>4. CASE s # t
    <3>1. others \cap T = T
      BY <2>2, <2>4
    <3> QED
      BY <2>1, <2>4, <3>1 DEF T
  <2> QED
    BY <2>3, <2>4
<1>7. ASSUME NEW s \in SessionId
      PROVE  /\ KeptOf(new, s) = IF s = t THEN Among(ran, CommandsOf(s)) ELSE KeptOf(old, s)
             /\ Begins(KeptOf(new, s), KeptOf(old, s))
             /\ TakenOf(new, s) = TakenOf(old, s)
  <2> DEFINE T == CommandsOf(s)
  <2>1. /\ Among(ran \o left, T) = Among(ran, T) \o Among(left, T)
        /\ Among(ran \o all, T) = Among(ran, T) \o Among(all, T)
    BY <1>1, <1>3, AmongConcat, SMTT(40)
  <2>2. Among(ran, T) \in Seq(CommandRecord) /\ Among(all, T) \in Seq(CommandRecord)
    BY <1>1, AmongProperties
  <2>3. KeptOf(new, s) = Among(ran \o left, T) /\ KeptOf(old, s) = Among(ran \o all, T)
    BY <1>2 DEF KeptOf, ran, all
  <2>4. Begins(Among(ran, T), Among(ran, T) \o Among(all, T))
    BY <2>2, BeginsProperties
  <2>5. KeptOf(old, s) \in Seq(CommandRecord)
    BY CommandsType
  <2>6. Begins(KeptOf(old, s), KeptOf(old, s))
    BY <2>5, BeginsProperties
  <2>7. CASE s = t
    <3>1. Among(ran, T) \o <<>> = Among(ran, T)
      BY <2>2, ConcatEmptySeq
    <3> QED
      BY <1>2, <1>6, <2>1, <2>3, <2>4, <2>7, <3>1 DEF TakenOf
  <2>8. CASE s # t
    <3>1. KeptOf(new, s) = KeptOf(old, s)
      BY <1>6, <2>1, <2>3, <2>8
    <3> QED
      BY <1>2, <2>6, <2>8, <3>1 DEF TakenOf
  <2> QED
    BY <2>7, <2>8
<1>8. ASSUME ShortMatch(old) PROVE ShortMatch(new)
  <2>1. ASSUME NEW s \in SessionId PROVE Pending(new, s) <= MaxPendingPerSession
    <3>1. /\ Pending(old, s) = Len(Among(all, CommandsOf(s)))
          /\ Pending(new, s) = Len(Among(left, CommandsOf(s)))
      BY <1>2, <1>5, CommandsType DEF all
    <3>2. CASE s = t
      <4>1. Pending(new, s) = 0
        BY <1>6, <3>1, <3>2, EmptySeq
      <4> QED
        BY <4>1, BackendAssumption
    <3>3. CASE s # t
      BY <1>6, <1>8, <3>1, <3>3 DEF ShortMatch
    <3> QED
      BY <3>2, <3>3
  <2>2. Len(new.queue) <= MaxPendingPerMatch
    <3>1. Len(all) <= MaxPendingPerMatch /\ Len(all) \in Nat /\ Len(left) \in Nat
      BY <1>1, <1>3, <1>8, LenProperties DEF ShortMatch, all
    <3> QED
      BY <1>2, <1>3, <3>1, BackendAssumption
  <2> QED
    BY <2>1, <2>2 DEF ShortMatch
<1>9. ASSUME NEW s \in SessionId, OrderedFor(old, s, gone) PROVE OrderedFor(new, s, after)
  <2>1. /\ TakenOf(new, s) \in Seq(CommandRecord) /\ KeptOf(new, s) \in Seq(CommandRecord)
        /\ KeptOf(old, s) \in Seq(CommandRecord)
    BY <1>5, CommandsType
  <2>2. Begins(KeptOf(new, s), TakenOf(new, s))
    <3>1. Begins(KeptOf(new, s), KeptOf(old, s)) /\ Begins(KeptOf(old, s), TakenOf(new, s))
      BY <1>7, <1>9 DEF OrderedFor
    <3> QED
      BY <2>1, <3>1, BeginsProperties
  <2>3. s \notin after => KeptOf(new, s) = TakenOf(new, s)
    BY <1>7, <1>9 DEF OrderedFor
  <2> QED
    BY <1>2, <1>7, <1>9, <2>2, <2>3 DEF OrderedFor
<1> QED
  BY <1>8, <1>9 DEF new
=============================================================================
