------------------------- MODULE MatchManagerProofs -------------------------
(***************************************************************************)
(* What TLAPS proves of MatchManager, for any number of sessions, matches  *)
(* and commands and any limits.  What each call does to a backend is in    *)
(* BackendProofs; here the calls are put together: they leave it sound,    *)
(* its queues short, its commands in order and its streams of events whole.*)
(***************************************************************************)
EXTENDS MatchManager, BackendProofs

\* The inductive invariant.
IInv == Sound(b)

\* The empty backend is sound.
LEMMA InitSound == Init => IInv
BY NoBackendSound DEF Init, IInv

\* Every call leaves a sound backend.
LEMMA NextSound == IInv /\ [Next]_vars => IInv'
<1> SUFFICES ASSUME Sound(b), [Next]_vars PROVE Sound(b')
  BY DEF IInv
<1>1. CASE Connect
  BY <1>1, CreateSessionSound DEF Connect
<1>2. ASSUME NEW s \in DOMAIN b.sessions, Login(s) PROVE Sound(b')
  BY <1>2, AuthenticateSound DEF Login
<1>3. ASSUME NEW s \in DOMAIN b.sessions, Create(s) PROVE Sound(b')
  BY <1>3, CreateMatchSound DEF Create
<1>4. ASSUME NEW s \in DOMAIN b.sessions, Send(s) PROVE Sound(b')
  BY <1>4, FlushSound DEF Send
<1>5. ASSUME NEW s \in DOMAIN b.sessions, Leave(s) PROVE Sound(b')
  BY <1>5, DisconnectSound DEF Leave
<1>6. ASSUME NEW s \in DOMAIN b.sessions, NEW m \in DOMAIN b.matches, Join(s, m)
      PROVE  Sound(b')
  BY <1>6, JoinMatchSound DEF Join
<1>7. ASSUME NEW s \in DOMAIN b.sessions, NEW m \in DOMAIN b.matches, StartNext(s, m)
      PROVE  Sound(b')
  BY <1>7, StartNextMatchSound DEF StartNext
<1>8. ASSUME NEW s \in DOMAIN b.sessions, NEW m \in DOMAIN b.matches, NEW seq \in Seqs,
             Submit(s, m, seq)
      PROVE  Sound(b')
  BY <1>8, SubmitCommandSound, ManagerAssumption DEF Submit
<1>9. ASSUME NEW m \in DOMAIN b.matches, Tick(m) PROVE Sound(b')
  <2>1. PICK over \in BOOLEAN, snapshot \in BOOLEAN : b' = TickMatch(b, m, over, snapshot)
    BY <1>9 DEF Tick
  <2>2. MayTick(b, m)
    BY <1>9 DEF Tick
  <2> QED
    BY <2>1, <2>2, TickMatchSound
<1>10. CASE UNCHANGED vars
  BY <1>10 DEF vars
<1> QED
  BY <1>1, <1>2, <1>3, <1>4, <1>5, <1>6, <1>7, <1>8, <1>9, <1>10 DEF Next

\* The backend is sound in every reachable state.
THEOREM InductiveInvariant == Spec => []IInv
BY InitSound, NextSound, PTL DEF Spec

\* The backend's sessions, matches and counts have their types, and no more of them are
\* ever made than the limits allow (createSession, createMatch, startNextMatch).
THEOREM TypeCorrect == Spec => []TypeOK
<1>1. IInv => TypeOK
  BY DEF IInv, Sound, Typed, TypeOK
<1> QED
  BY <1>1, InductiveInvariant, PTL

\* No session is counted closed twice, however it came to be closed.
THEOREM SessionsAlwaysCounted == Spec => []SessionsAreCounted
<1>1. IInv => SessionsAreCounted
  BY DEF IInv, Sound, Counted, ClosedSessions, SessionsAreCounted
<1> QED
  BY <1>1, InductiveInvariant, PTL

\* Nothing of a session that was disconnected waits in any match, ever again.
THEOREM GoneForEver == Spec => []GoneIsGone
<1>1. IInv => GoneIsGone
  BY DEF IInv, Sound, GoneStay, GoneIsGone
<1> QED
  BY <1>1, InductiveInvariant, PTL

\* Matches have a player in common only as rematches of one another.
THEOREM MatchesAlwaysApart == Spec => []MatchesShareOnlyByRematch
<1>1. IInv => MatchesShareOnlyByRematch
  BY DEF IInv, Sound, Together, Formed, FollowsFinished, ShareByRematch, MatchesShareOnlyByRematch
<1> QED
  BY <1>1, InductiveInvariant, PTL

(***************************************************************************)
(* Matches only advance.                                                   *)
(***************************************************************************)
Advances(old, new) ==
  /\ new.tick \in {old.tick, old.tick + 1}
  /\ old.finished => new.finished /\ new.tick = old.tick
  /\ old.started => new.started /\ new.players = old.players

MatchesAdvance(c, d) == \A m \in DOMAIN c.matches : Advances(c.matches[m], d.matches[m])

\* A match that is left alone, and one of several that is not.
LEMMA OneAdvances ==
  ASSUME NEW c, Sound(c), NEW m \in DOMAIN c.matches, NEW match, Advances(c.matches[m], match)
  PROVE  \A n \in DOMAIN c.matches :
           Advances(c.matches[n], [c.matches EXCEPT ![m] = match][n])
BY DEF Advances

\* What is appended disturbs no match that is there.
LEMMA AppendAdvances ==
  ASSUME NEW c, Sound(c), NEW match \in MatchRecord
  PROVE  \A n \in DOMAIN c.matches : Advances(c.matches[n], Append(c.matches, match)[n])
<1>1. c.matches \in Seq(MatchRecord) /\ DOMAIN c.matches = 1 .. Len(c.matches)
  BY TypedParts DEF Sound
<1>2. \A n \in DOMAIN c.matches : Append(c.matches, match)[n] = c.matches[n]
  BY <1>1
<1> QED
  BY <1>2 DEF Advances

\* No call takes a match back.
LEMMA NextAdvances ==
  ASSUME Sound(b), [Next]_vars
  PROVE  MatchesAdvance(b, b')
<1> USE DEF MatchesAdvance
<1>0. b \in BackendRecord /\ \A m \in DOMAIN b.matches : b.matches[m] \in MatchRecord
  BY TypedParts DEF Sound, Typed
<1>1. ASSUME b'.matches = b.matches PROVE MatchesAdvance(b, b')
  BY <1>1 DEF Advances
<1>2. CASE Connect
  <2>1. b'.matches = b.matches
    BY <1>0, <1>2 DEF Connect, CreateSession, BackendRecord
  <2> QED
    BY <1>1, <2>1
<1>3. ASSUME NEW s \in DOMAIN b.sessions, Login(s) \/ Send(s) PROVE MatchesAdvance(b, b')
  <2>1. b'.matches = b.matches
    BY <1>0, <1>3 DEF Login, Authenticate, Send, Flush, BackendRecord
  <2> QED
    BY <1>1, <2>1
<1>4. ASSUME NEW s \in DOMAIN b.sessions, Create(s) PROVE MatchesAdvance(b, b')
  <2>1. b'.matches = Append(b.matches, NewMatch(<<s>>, FALSE, 0))
    BY <1>0, <1>4 DEF Create, CreateMatch, BackendRecord
  <2>2. <<s>> \in Seq(SessionId) /\ FALSE \in BOOLEAN /\ 0 \in {0} \cup MatchId
    BY TypedParts DEF Sound
  <2>3. NewMatch(<<s>>, FALSE, 0) \in MatchRecord
    BY <2>2, NewMatchType
  <2> QED
    BY <2>1, <2>3, AppendAdvances
<1>5. ASSUME NEW s \in DOMAIN b.sessions, NEW m \in DOMAIN b.matches, StartNext(s, m)
      PROVE  MatchesAdvance(b, b')
  <2> DEFINE players == b.matches[m].players
  <2>1. b'.matches = Append(b.matches, NewMatch(players, TRUE, m))
    BY <1>0, <1>5 DEF StartNext, StartNextMatch, BackendRecord
  <2>2. players \in Seq(SessionId) /\ TRUE \in BOOLEAN /\ m \in {0} \cup MatchId
    BY <1>0, TypedParts DEF Sound, MatchRecord
  <2> HIDE DEF players
  <2>3. NewMatch(players, TRUE, m) \in MatchRecord
    BY <2>2, NewMatchType
  <2> QED
    BY <2>1, <2>3, AppendAdvances
<1>6. ASSUME NEW s \in DOMAIN b.sessions, NEW m \in DOMAIN b.matches, Join(s, m)
      PROVE  MatchesAdvance(b, b')
  <2>1. b'.matches = [b.matches EXCEPT ![m] = Joined(b.matches[m], s)]
    BY <1>0, <1>6 DEF Join, JoinMatch, BackendRecord
  <2>2. ~b.matches[m].started /\ ~b.matches[m].finished
    BY <1>6 DEF Join, MayJoinMatch, Sound, Settled
  <2>3. Advances(b.matches[m], Joined(b.matches[m], s))
    BY <1>0, <2>2 DEF Joined, MatchRecord, Advances
  <2> QED
    BY <2>1, <2>3, OneAdvances
<1>7. ASSUME NEW s \in DOMAIN b.sessions, NEW m \in DOMAIN b.matches, NEW seq \in Seqs,
             Submit(s, m, seq)
      PROVE  MatchesAdvance(b, b')
  <2> DEFINE command == [session |-> s, seq |-> seq]
  <2>1. b'.matches = [b.matches EXCEPT ![m] = Submitted(b.matches[m], command)]
    BY <1>0, <1>7 DEF Submit, SubmitCommand, BackendRecord
  <2>2. Advances(b.matches[m], Submitted(b.matches[m], command))
    BY <1>0 DEF Submitted, MatchRecord, Advances
  <2> QED
    BY <2>1, <2>2, OneAdvances
<1>8. ASSUME NEW m \in DOMAIN b.matches, Tick(m) PROVE MatchesAdvance(b, b')
  <2>1. PICK over \in BOOLEAN, snapshot \in BOOLEAN : b' = TickMatch(b, m, over, snapshot)
    BY <1>8 DEF Tick
  <2>2. MayTick(b, m)
    BY <1>8 DEF Tick
  <2>3. b'.matches = [b.matches EXCEPT ![m] = Advanced(b.matches[m], over)]
    BY <2>1, <2>2, TickMatchSound
  <2>4. ~b.matches[m].finished => b.matches[m].tick < MaxTicks
    BY DEF Sound, Settled
  <2>5. Advances(b.matches[m], Advanced(b.matches[m], over))
    BY <1>0, <2>4, AdvancedType DEF SamePlayers, Advances
  <2> QED
    BY <2>3, <2>5, OneAdvances
<1>9. ASSUME NEW s \in DOMAIN b.sessions, Leave(s) PROVE MatchesAdvance(b, b')
  <2>1. b' = Disconnect(b, s) /\ CloseSession(b, s) \in BackendRecord
    BY <1>9, CloseSessionSound DEF Leave, Sound, Typed
  <2>2. b'.matches = [m \in DOMAIN b.matches |-> WithoutCommandsOf(b.matches[m], s)]
    BY <2>1 DEF Disconnect, BackendRecord
  <2>3. \A m \in DOMAIN b.matches : Advances(b.matches[m], WithoutCommandsOf(b.matches[m], s))
    BY <1>0 DEF WithoutCommandsOf, MatchRecord, Advances
  <2> QED
    BY <2>2, <2>3
<1>10. CASE UNCHANGED vars
  BY <1>1, <1>10 DEF vars
<1> QED
  BY <1>2, <1>3, <1>4, <1>5, <1>6, <1>7, <1>8, <1>9, <1>10 DEF Next

\* A match goes forward tick by tick and ends once; nobody joins one that has begun.
THEOREM MatchesNeverGoBack == Spec => MatchesOnlyAdvance
<1>1. IInv /\ [Next]_vars
        => [\A m \in DOMAIN b.matches :
              LET old == b.matches[m]
                  new == b'.matches[m]
              IN  /\ new.tick \in {old.tick, old.tick + 1}
                  /\ old.finished => new.finished /\ new.tick = old.tick
                  /\ old.started => new.started /\ new.players = old.players]_vars
  BY NextAdvances DEF IInv, MatchesAdvance, Advances
<1> QED
  BY <1>1, InductiveInvariant, PTL DEF Spec, MatchesOnlyAdvance

(***************************************************************************)
(* What each call leaves of the commands, and what each session is told.   *)
(***************************************************************************)
\* The queues are short, and the commands are kept in order.
Short == /\ \A s \in DOMAIN b.sessions : ShortSession(b.sessions[s])
         /\ \A m \in DOMAIN b.matches : ShortMatch(b.matches[m])

Ordered == \A m \in DOMAIN b.matches : \A s \in SessionId : OrderedFor(b.matches[m], s, b.gone)

\* What session s is told of the events of match m: each tick's, in order, and all of them
\* if it is an open player.  Nothing is told of a match that is not there, or to others.
Stream(c, s, m) ==
  LET told == Told(c.sessions[s], EventsOf(m))
  IN  /\ \A i \in 1 .. Len(told) : told[i].tick = i
      /\ IF m \in DOMAIN c.matches
         THEN /\ Len(told) <= c.matches[m].tick
              /\ s \in Players(c.matches[m])
                   => (c.sessions[s].auth # "Closed" => Len(told) = c.matches[m].tick)
              /\ s \notin Players(c.matches[m]) => told = <<>>
         ELSE told = <<>>

\* A match that has not begun has not been ticked.
Unbegun(c) == \A m \in DOMAIN c.matches : ~c.matches[m].started => c.matches[m].tick = 0

Streaming(c) == Unbegun(c) /\ \A s \in DOMAIN c.sessions, m \in MatchId : Stream(c, s, m)

Streams == Streaming(b)

(***************************************************************************)
(* Every call but a tick changes the matches and what is told quietly: a   *)
(* match is joined, takes a command in, loses those of a session that is   *)
(* gone or is new, and nobody is told of events.                           *)
(***************************************************************************)
Takes(match, command, gone) ==
  /\ command.session \notin gone /\ command.seq > match.lastSeq[command.session]
  /\ Len(match.queue) < MaxPendingPerMatch
  /\ Pending(match, command.session) < MaxPendingPerSession

QuietMatch(old, new, gone, after) ==
  \/ new = old
  \/ ~old.started /\ \E s \in SessionId : new = Joined(old, s)
  \/ \E command \in CommandRecord : Takes(old, command, gone) /\ new = Submitted(old, command)
  \/ \E s \in after \cap SessionId : new = WithoutCommandsOf(old, s)

FreshMatch(match) ==
  \E players \in Seq(SessionId), started \in BOOLEAN, rematchOf \in {0} \cup MatchId :
    match = NewMatch(players, started, rematchOf)

QuietSession(old, new) ==
  /\ new \in SessionRecord /\ (ShortSession(old) => ShortSession(new))
  /\ \A m \in MatchId : Fades(old, new, EventsOf(m))

FreshSession == [auth |-> "Connected", queue |-> <<>>, wire |-> <<>>]

QuietSessions(c, d) ==
  /\ DOMAIN c.sessions \subseteq DOMAIN d.sessions
  /\ \A s \in DOMAIN c.sessions : QuietSession(c.sessions[s], d.sessions[s])
  /\ \A s \in DOMAIN d.sessions \ DOMAIN c.sessions : d.sessions[s] = FreshSession

QuietMatches(c, d) ==
  /\ c.gone \subseteq d.gone
  /\ DOMAIN c.matches \subseteq DOMAIN d.matches
  /\ \A m \in DOMAIN c.matches : QuietMatch(c.matches[m], d.matches[m], c.gone, d.gone)
  /\ \A m \in DOMAIN d.matches \ DOMAIN c.matches : FreshMatch(d.matches[m])

\* Sessions that are not touched.
LEMMA SameSessionsQuiet ==
  ASSUME NEW c, Sound(c), NEW d, d.sessions = c.sessions
  PROVE  QuietSessions(c, d)
<1>1. ASSUME NEW s \in DOMAIN c.sessions PROVE QuietSession(c.sessions[s], c.sessions[s])
  <2>1. c.sessions[s] \in SessionRecord
    BY TypedParts DEF Sound
  <2> QED
    BY <2>1, FadesSteps DEF QuietSession
<1> QED
  BY <1>1 DEF QuietSessions

\* One session that changes quietly.
LEMMA OneSessionQuiet ==
  ASSUME NEW c, Sound(c), NEW d, NEW s \in DOMAIN c.sessions, NEW session,
         QuietSession(c.sessions[s], session),
         d.sessions = [c.sessions EXCEPT ![s] = session]
  PROVE  QuietSessions(c, d)
<1>1. ASSUME NEW t \in DOMAIN c.sessions PROVE QuietSession(c.sessions[t], d.sessions[t])
  <2>1. c.sessions[t] \in SessionRecord
    BY TypedParts DEF Sound
  <2>2. QuietSession(c.sessions[t], c.sessions[t])
    BY <2>1, FadesSteps DEF QuietSession
  <2> QED
    BY <2>2
<1> QED
  BY <1>1 DEF QuietSessions

\* Matches that are not touched, and one that changes quietly, and a new one.
LEMMA SameMatchesQuiet ==
  ASSUME NEW c, NEW d, d.matches = c.matches, d.gone = c.gone
  PROVE  QuietMatches(c, d)
BY DEF QuietMatches, QuietMatch

\* A step that changes one match quietly changes all of them quietly.
LEMMA OneMatchQuiet ==
  ASSUME NEW c, NEW d, NEW m \in DOMAIN c.matches, NEW match, d.gone = c.gone,
         QuietMatch(c.matches[m], match, c.gone, c.gone),
         d.matches = [c.matches EXCEPT ![m] = match]
  PROVE  QuietMatches(c, d)
<1>1. ASSUME NEW n \in DOMAIN c.matches
      PROVE  QuietMatch(c.matches[n], d.matches[n], c.gone, c.gone)
  <2>1. CASE n = m
    BY <2>1
  <2>2. CASE n # m
    BY <2>2 DEF QuietMatch
  <2> QED
    BY <2>1, <2>2
<1> QED
  BY <1>1 DEF QuietMatches

\* A match that is added is fresh, and those before it are as they were.
LEMMA AppendMatchQuiet ==
  ASSUME NEW c, Sound(c), NEW d, NEW match \in MatchRecord, d.gone = c.gone, FreshMatch(match),
         d.matches = Append(c.matches, match)
  PROVE  QuietMatches(c, d)
<1>1. c.matches \in Seq(MatchRecord) /\ DOMAIN c.matches = 1 .. Len(c.matches)
      /\ Len(c.matches) \in Nat
  BY TypedParts DEF Sound
<1>2. /\ DOMAIN d.matches = 1 .. Len(c.matches) + 1
      /\ \A n \in DOMAIN c.matches : d.matches[n] = c.matches[n]
      /\ d.matches[Len(c.matches) + 1] = match
  BY <1>1
<1>3. DOMAIN d.matches \ DOMAIN c.matches = {Len(c.matches) + 1}
      /\ DOMAIN c.matches \subseteq DOMAIN d.matches
  BY <1>1, <1>2
<1> QED
  BY <1>2, <1>3 DEF QuietMatches, QuietMatch

\* Every call but a tick is quiet.
LEMMA NextQuietOrTick ==
  ASSUME Sound(b), [Next]_vars
  PROVE  \/ QuietSessions(b, b') /\ QuietMatches(b, b')
         \/ \E m \in DOMAIN b.matches : Tick(m)
<1>0. b \in BackendRecord /\ b.matches \in Seq(MatchRecord) /\ b.sessions \in Seq(SessionRecord)
      /\ (\A m \in DOMAIN b.matches : b.matches[m] \in MatchRecord)
      /\ (\A s \in DOMAIN b.sessions : b.sessions[s] \in SessionRecord /\ s \in SessionId)
  BY TypedParts DEF Sound, Typed
<1>1. CASE Connect
  <2>1. b'.sessions = Append(b.sessions, FreshSession) /\ b'.matches = b.matches
        /\ b'.gone = b.gone
    BY <1>0, <1>1 DEF Connect, CreateSession, BackendRecord, FreshSession
  <2>2. /\ DOMAIN b.sessions = 1 .. Len(b.sessions) /\ Len(b.sessions) \in Nat
        /\ DOMAIN b'.sessions = 1 .. Len(b.sessions) + 1
        /\ \A s \in DOMAIN b.sessions : b'.sessions[s] = b.sessions[s]
        /\ b'.sessions[Len(b.sessions) + 1] = FreshSession
    BY <1>0, <2>1
  <2>3. DOMAIN b'.sessions \ DOMAIN b.sessions = {Len(b.sessions) + 1}
        /\ DOMAIN b.sessions \subseteq DOMAIN b'.sessions
    BY <2>2
  <2>4. \A s \in DOMAIN b.sessions : QuietSession(b.sessions[s], b.sessions[s])
    BY <1>0, FadesSteps DEF QuietSession
  <2>5. QuietSessions(b, b')
    BY <2>2, <2>3, <2>4 DEF QuietSessions
  <2> QED
    BY <2>1, <2>5, SameMatchesQuiet
<1>2. ASSUME NEW s \in DOMAIN b.sessions, Login(s)
      PROVE  QuietSessions(b, b') /\ QuietMatches(b, b')
  <2> DEFINE old == b.sessions[s]
             session == [old EXCEPT !.auth = "Authenticated"]
  <2>1. b'.sessions = [b.sessions EXCEPT ![s] = session] /\ b'.matches = b.matches
        /\ b'.gone = b.gone
    BY <1>0, <1>2 DEF Login, Authenticate, BackendRecord
  <2>2. /\ session \in SessionRecord /\ session.auth = "Authenticated"
        /\ session.queue = old.queue /\ session.wire = old.wire /\ old.auth # "Closed"
    BY <1>0, <1>2 DEF SessionRecord, Login, Open
  <2> HIDE DEF session
  <2>3. \A T : Told(session, T) = Told(old, T)
    BY <2>2 DEF Told
  <2>4. \A T : Fades(session, session, T)
    BY <2>2, FadesSteps
  <2>5. QuietSession(old, session)
    BY <2>2, <2>3, <2>4 DEF QuietSession, Fades, ShortSession
  <2> QED
    BY <2>1, <2>5, OneSessionQuiet, SameMatchesQuiet
<1>3. ASSUME NEW s \in DOMAIN b.sessions, Send(s)
      PROVE  QuietSessions(b, b') /\ QuietMatches(b, b')
  <2>1. PICK sent \in 0 .. Len(b.sessions[s].queue) : b' = Flush(b, s, sent)
    BY <1>3 DEF Send
  <2> DEFINE old == b.sessions[s]
             session == FlushOutbound(old, sent)
  <2>2. b'.sessions = [b.sessions EXCEPT ![s] = session] /\ b'.matches = b.matches
        /\ b'.gone = b.gone
    BY <1>0, <2>1 DEF Flush, BackendRecord
  <2>3. QuietSession(old, session)
    <3>1. session \in SessionRecord
      BY <1>0, FlushOutboundType
    <3>2. \A m : EventsOf(m) \in SUBSET Remembered
      BY EventsType
    <3> QED
      BY <1>0, <3>1, <3>2, FlushOutboundTold DEF QuietSession
  <2> HIDE DEF session
  <2> QED
    BY <2>2, <2>3, OneSessionQuiet, SameMatchesQuiet
<1>4. ASSUME NEW s \in DOMAIN b.sessions, Leave(s)
      PROVE  QuietSessions(b, b') /\ QuietMatches(b, b')
  <2> DEFINE closed == CloseSession(b, s)
  <2>1. /\ b' = Disconnect(b, s) /\ closed \in BackendRecord
        /\ closed.matches = b.matches /\ closed.gone = b.gone
    BY <1>4, CloseSessionSound DEF Leave, Sound, Typed
  <2>2. /\ b'.matches = [m \in DOMAIN b.matches |-> WithoutCommandsOf(b.matches[m], s)]
        /\ b'.sessions = closed.sessions /\ b'.gone = b.gone \cup {s}
    BY <2>1 DEF Disconnect, BackendRecord
  <2>3. closed.sessions = IF Open(b, s)
                          THEN [b.sessions EXCEPT ![s] = ClosedSession(b.sessions[s])]
                          ELSE b.sessions
    BY <1>0 DEF CloseSession, BackendRecord
  <2>4. QuietSessions(b, b')
    <3>1. CASE Open(b, s)
      <4>1. QuietSession(b.sessions[s], ClosedSession(b.sessions[s]))
        BY <1>0, ClosedSessionTold, ClosedSessionType DEF QuietSession
      <4>2. b'.sessions = [b.sessions EXCEPT ![s] = ClosedSession(b.sessions[s])]
        BY <2>2, <2>3, <3>1
      <4> QED
        BY <4>1, <4>2, OneSessionQuiet
    <3>2. CASE ~Open(b, s)
      BY <2>2, <2>3, <3>2, SameSessionsQuiet
    <3> QED
      BY <3>1, <3>2
  <2>5. s \in b'.gone \cap SessionId
    BY <1>0, <2>2
  <2>6. QuietMatches(b, b')
    BY <2>2, <2>5 DEF QuietMatches, QuietMatch
  <2> QED
    BY <2>4, <2>6
<1>5. ASSUME NEW s \in DOMAIN b.sessions, Create(s)
      PROVE  QuietSessions(b, b') /\ QuietMatches(b, b')
  <2> DEFINE match == NewMatch(<<s>>, FALSE, 0)
  <2>1. b'.matches = Append(b.matches, match) /\ b'.sessions = b.sessions /\ b'.gone = b.gone
    BY <1>0, <1>5 DEF Create, CreateMatch, BackendRecord
  <2>2. <<s>> \in Seq(SessionId) /\ FALSE \in BOOLEAN /\ 0 \in {0} \cup MatchId
    BY <1>0
  <2>3. match \in MatchRecord
    BY <2>2, NewMatchType
  <2>4. FreshMatch(match)
    BY <2>2 DEF FreshMatch
  <2> HIDE DEF match
  <2> QED
    BY <2>1, <2>3, <2>4, AppendMatchQuiet, SameSessionsQuiet
<1>6. ASSUME NEW s \in DOMAIN b.sessions, NEW m \in DOMAIN b.matches, StartNext(s, m)
      PROVE  QuietSessions(b, b') /\ QuietMatches(b, b')
  <2> DEFINE players == b.matches[m].players
             match == NewMatch(players, TRUE, m)
             message == Message("joined", Len(b.matches) + 1, 0)
             all == Players(b.matches[m])
  <2>1. b'.matches = Append(b.matches, match) /\ b'.gone = b.gone
        /\ b'.sessions = SentTo(b, all, message)
    BY <1>0, <1>6 DEF StartNext, StartNextMatch, BackendRecord
  <2>2. players \in Seq(SessionId) /\ TRUE \in BOOLEAN /\ m \in {0} \cup MatchId
    BY <1>0, TypedParts DEF Sound, MatchRecord
  <2> HIDE DEF players, all
  <2>3. match \in MatchRecord
    BY <2>2, NewMatchType
  <2>4. FreshMatch(match)
    BY <2>2 DEF FreshMatch
  <2>5. message \in MessageRecord
    <3>1. Len(b.matches) + 1 \in MatchId /\ 0 \in 0 .. MaxTicks
      BY <1>0, <1>6, BackendAssumption DEF StartNext, MayStartNextMatch, MatchId
    <3> QED
      BY <3>1 DEF Message, MessageRecord
  <2>6. \A n : message \notin EventsOf(n)
    BY EventsType
  <2> HIDE DEF match, message
  <2>7. ASSUME NEW t \in DOMAIN b.sessions PROVE QuietSession(b.sessions[t], b'.sessions[t])
    BY <2>1, <2>5, <2>6, SentToTold DEF Sound, QuietSession
  <2>8. DOMAIN b'.sessions = DOMAIN b.sessions
    BY <2>1 DEF SentTo
  <2>9. QuietSessions(b, b')
    BY <2>7, <2>8 DEF QuietSessions
  <2> QED
    BY <2>1, <2>3, <2>4, <2>9, AppendMatchQuiet
<1>7. ASSUME NEW s \in DOMAIN b.sessions, NEW m \in DOMAIN b.matches, Join(s, m)
      PROVE  QuietSessions(b, b') /\ QuietMatches(b, b')
  <2> DEFINE match == Joined(b.matches[m], s)
  <2>1. b'.matches = [b.matches EXCEPT ![m] = match] /\ b'.sessions = b.sessions
        /\ b'.gone = b.gone
    BY <1>0, <1>7 DEF Join, JoinMatch, BackendRecord
  <2>2. QuietMatch(b.matches[m], match, b.gone, b.gone)
    BY <1>0, <1>7 DEF Join, MayJoinMatch, QuietMatch
  <2> HIDE DEF match
  <2> QED
    BY <2>1, <2>2, OneMatchQuiet, SameSessionsQuiet
<1>8. ASSUME NEW s \in DOMAIN b.sessions, NEW m \in DOMAIN b.matches, NEW seq \in Seqs,
             Submit(s, m, seq)
      PROVE  QuietSessions(b, b') /\ QuietMatches(b, b')
  <2> DEFINE command == [session |-> s, seq |-> seq]
             match == Submitted(b.matches[m], command)
  <2>1. b'.matches = [b.matches EXCEPT ![m] = match] /\ b'.sessions = b.sessions
        /\ b'.gone = b.gone
    BY <1>0, <1>8 DEF Submit, SubmitCommand, BackendRecord
  <2>2. command \in CommandRecord
    BY <1>0, <1>8, ManagerAssumption DEF Submit, MaySubmitCommand, CommandRecord
  <2>3. s \notin b.gone
    BY <1>8 DEF Submit, MaySubmitCommand, Sound, GoneStay
  <2>4. Takes(b.matches[m], command, b.gone)
    BY <1>8, <2>3 DEF Submit, MaySubmitCommand, Takes
  <2>5. QuietMatch(b.matches[m], match, b.gone, b.gone)
    BY <2>2, <2>4 DEF QuietMatch
  <2> HIDE DEF match
  <2> QED
    BY <2>1, <2>5, OneMatchQuiet, SameSessionsQuiet
<1>9. CASE UNCHANGED vars
  BY <1>9, SameSessionsQuiet, SameMatchesQuiet DEF vars
<1> QED
  BY <1>1, <1>2, <1>3, <1>4, <1>5, <1>6, <1>7, <1>8, <1>9 DEF Next

(***************************************************************************)
(* Queues.                                                                 *)
(***************************************************************************)
\* A new match keeps nothing yet.
LEMMA FreshMatchKept ==
  ASSUME NEW match, FreshMatch(match)
  PROVE  /\ ShortMatch(match) /\ match.tick = 0
         /\ \A s \in SessionId : \A gone : OrderedFor(match, s, gone)
<1>1. /\ match.queue = <<>> /\ match.accepted = <<>> /\ match.applied = <<>> /\ match.tick = 0
  BY DEF FreshMatch, NewMatch
<1>2. <<>> \in Seq(CommandRecord) /\ Len(<<>>) = 0 /\ <<>> \o <<>> = <<>>
  BY ConcatEmptySeq
<1>3. ShortMatch(match)
  <2>1. ASSUME NEW s \in SessionId PROVE Pending(match, s) = 0
    <3>1. {i \in DOMAIN <<>> : <<>>[i].session = s} = {}
      OBVIOUS
    <3>2. {i \in DOMAIN match.queue : match.queue[i].session = s} = {}
      BY <1>1, <3>1
    <3> QED
      BY <3>2, FS_EmptySet DEF Pending
  <2> QED
    BY <1>1, <1>2, <2>1, BackendAssumption DEF ShortMatch
<1>4. ASSUME NEW s \in SessionId, NEW gone PROVE OrderedFor(match, s, gone)
  <2>1. TakenOf(match, s) = <<>> /\ KeptOf(match, s) = <<>>
    BY <1>1, <1>2, AmongEmpty DEF TakenOf, KeptOf
  <2>2. Begins(<<>>, <<>>)
    BY <1>2, BeginsProperties
  <2> QED
    BY <1>2, <2>1, <2>2 DEF OrderedFor
<1> QED
  BY <1>1, <1>3, <1>4

\* What a tick does to the matches: one is advanced.
LEMMA TickParts ==
  ASSUME Sound(b), NEW m \in DOMAIN b.matches, Tick(m)
  PROVE  \E over, snapshot \in BOOLEAN :
           /\ b' = TickMatch(b, m, over, snapshot) /\ MayTick(b, m)
           /\ b'.matches = [b.matches EXCEPT ![m] = Advanced(b.matches[m], over)]
           /\ b'.gone = b.gone /\ DOMAIN b'.sessions = DOMAIN b.sessions
           /\ b.matches[m] \in MatchRecord
           /\ ~b.matches[m].finished => b.matches[m].tick < MaxTicks
<1>1. PICK over \in BOOLEAN, snapshot \in BOOLEAN : b' = TickMatch(b, m, over, snapshot)
  BY DEF Tick
<1>2. MayTick(b, m)
  BY DEF Tick
<1>3. b'.matches = [b.matches EXCEPT ![m] = Advanced(b.matches[m], over)]
  BY <1>1, <1>2, TickMatchSound
<1>4. b.matches[m] \in MatchRecord /\ (~b.matches[m].finished => b.matches[m].tick < MaxTicks)
  BY TypedParts DEF Sound, Settled
<1>5. b'.gone = b.gone
  <2>1. \A c, n, message : c \in BackendRecord => Broadcast(c, n, message).gone = c.gone
    BY DEF Broadcast, BackendRecord
  <2> DEFINE ticked == [b EXCEPT !.matches[m] = Advanced(b.matches[m], over)]
             now == ticked.matches[m].tick
             reported == IF b.matches[m].finished THEN ticked
                         ELSE Broadcast(ticked, m, Message("events", m, now))
  <2>2. b' = IF snapshot THEN Broadcast(reported, m, Message("snapshot", m, now)) ELSE reported
    BY <1>1 DEF TickMatch
  <2>3. ticked.gone = b.gone
    BY DEF Sound, Typed, BackendRecord
  <2>4. reported.gone = ticked.gone
    BY DEF Broadcast
  <2>5. b'.gone = reported.gone
    BY <2>2 DEF Broadcast
  <2> QED
    BY <2>3, <2>4, <2>5
<1>6. DOMAIN b'.sessions = DOMAIN b.sessions
  <2>1. CASE DOMAIN b.sessions = {}
    <3>1. Formed(b.matches[m]) /\ b.matches[m].players \in Seq(SessionId)
      BY <1>4 DEF Sound, Together, MatchRecord
    <3>2. 1 \in DOMAIN b.matches[m].players
      BY <3>1 DEF Formed
    <3>3. b.matches[m].players[1] \in Players(b.matches[m])
      BY <3>2 DEF Players
    <3> QED
      BY <2>1, <3>3 DEF Sound, Settled
  <2>2. CASE DOMAIN b.sessions # {}
    BY <1>1, <1>2, <2>2, TickMatchTold
  <2> QED
    BY <2>1, <2>2
<1> QED
  BY <1>1, <1>2, <1>3, <1>4, <1>5, <1>6

\* Calls and ticks leave the queues short.
LEMMA NextShort == IInv /\ Short /\ [Next]_vars => Short'
<1> SUFFICES ASSUME Sound(b), Short, [Next]_vars PROVE Short'
  BY DEF IInv
<1>0. \A m \in DOMAIN b.matches : b.matches[m] \in MatchRecord
  BY TypedParts DEF Sound
<1>1. CASE QuietSessions(b, b') /\ QuietMatches(b, b')
  <2>1. ASSUME NEW s \in DOMAIN b'.sessions PROVE ShortSession(b'.sessions[s])
    <3>1. CASE s \in DOMAIN b.sessions
      BY <1>1, <3>1 DEF QuietSessions, QuietSession, Short
    <3>2. CASE s \notin DOMAIN b.sessions
      <4>1. b'.sessions[s].queue = <<>> /\ b'.sessions[s].auth # "Closed" /\ Len(<<>>) = 0
        BY <1>1, <3>2 DEF QuietSessions, FreshSession
      <4> QED
        BY <4>1, BackendAssumption DEF ShortSession
    <3> QED
      BY <3>1, <3>2
  <2>2. ASSUME NEW m \in DOMAIN b'.matches PROVE ShortMatch(b'.matches[m])
    <3>1. CASE m \notin DOMAIN b.matches
      BY <1>1, <3>1, FreshMatchKept DEF QuietMatches
    <3>2. CASE m \in DOMAIN b.matches
      <4> DEFINE old == b.matches[m]
                 new == b'.matches[m]
      <4>1. old \in MatchRecord /\ ShortMatch(old) /\ QuietMatch(old, new, b.gone, b'.gone)
            /\ b.gone \subseteq b'.gone
        BY <1>0, <1>1, <3>2 DEF Short, QuietMatches
      <4> HIDE DEF old, new
      <4>2. CASE \E s \in SessionId : new = Joined(old, s)
        <5>1. new.queue = old.queue
          BY <4>1, <4>2 DEF Joined, MatchRecord
        <5> QED
          BY <4>1, <5>1 DEF ShortMatch, Pending, new
      <4>3. CASE \E command \in CommandRecord :
                   Takes(old, command, b.gone) /\ new = Submitted(old, command)
        BY <4>1, <4>3, SubmittedCommands DEF Takes, new
      <4>4. CASE \E s \in b'.gone \cap SessionId : new = WithoutCommandsOf(old, s)
        <5>1. PICK s \in b'.gone \cap SessionId : new = WithoutCommandsOf(old, s)
          BY <4>4
        <5> QED
          BY <4>1, <5>1, WithoutCommands DEF new
      <4> QED
        BY <4>1, <4>2, <4>3, <4>4 DEF QuietMatch, new
    <3> QED
      BY <3>1, <3>2
  <2> QED
    BY <2>1, <2>2 DEF Short
<1>2. ASSUME NEW m \in DOMAIN b.matches, Tick(m) PROVE Short'
  <2>1. PICK over \in BOOLEAN, snapshot \in BOOLEAN :
           /\ b' = TickMatch(b, m, over, snapshot) /\ MayTick(b, m)
           /\ b'.matches = [b.matches EXCEPT ![m] = Advanced(b.matches[m], over)]
           /\ DOMAIN b'.sessions = DOMAIN b.sessions
           /\ ~b.matches[m].finished => b.matches[m].tick < MaxTicks
    BY <1>2, TickParts
  <2>2. ASSUME NEW s \in DOMAIN b.sessions PROVE ShortSession(b'.sessions[s])
    BY <2>1, TickMatchTold DEF Short
  <2>3. ShortMatch(Advanced(b.matches[m], over))
    BY <1>0, <2>1, AdvancedCommands DEF Short
  <2>4. \A n \in DOMAIN b.matches : ShortMatch(b'.matches[n])
    BY <2>1, <2>3 DEF Short
  <2> QED
    BY <2>1, <2>2, <2>4 DEF Short
<1> QED
  BY <1>1, <1>2, NextQuietOrTick

\* The queues of sessions and of matches keep to their limits, whatever is sent and however
\* few commands a tick takes; a closed session keeps no message (enqueueOutbound, submitCommand).
THEOREM QueuesAlwaysBounded == Spec => []QueuesAreBounded
<1>1. Init => Short
  <2>1. DOMAIN NoBackend.sessions = {} /\ DOMAIN NoBackend.matches = {}
    BY DEF NoBackend
  <2> QED
    BY <2>1 DEF Init, Short
<1>2. Short => QueuesAreBounded
  BY DEF Short, ShortSession, ShortMatch, QueuesAreBounded, Open
<1> QED
  BY <1>1, <1>2, NextShort, InductiveInvariant, PTL DEF Spec

(***************************************************************************)
(* Commands.                                                               *)
(***************************************************************************)
\* More sessions are gone: fewer commands need be kept.
LEMMA OrderedForMore ==
  ASSUME NEW match, NEW s, NEW gone, NEW after, gone \subseteq after, OrderedFor(match, s, gone)
  PROVE  OrderedFor(match, s, after)
BY DEF OrderedFor

\* Calls and ticks keep the commands in order.
LEMMA NextOrdered == IInv /\ Ordered /\ [Next]_vars => Ordered'
<1> SUFFICES ASSUME Sound(b), Ordered, [Next]_vars PROVE Ordered'
  BY DEF IInv
<1>0. \A m \in DOMAIN b.matches : b.matches[m] \in MatchRecord
  BY TypedParts DEF Sound
<1>1. CASE QuietMatches(b, b')
  <2>1. ASSUME NEW m \in DOMAIN b'.matches, NEW s \in SessionId
        PROVE  OrderedFor(b'.matches[m], s, b'.gone)
    <3>1. CASE m \notin DOMAIN b.matches
      BY <1>1, <3>1, FreshMatchKept DEF QuietMatches
    <3>2. CASE m \in DOMAIN b.matches
      <4> DEFINE old == b.matches[m]
                 new == b'.matches[m]
      <4>1. /\ old \in MatchRecord /\ OrderedFor(old, s, b.gone)
            /\ QuietMatch(old, new, b.gone, b'.gone) /\ b.gone \subseteq b'.gone
        BY <1>0, <1>1, <3>2 DEF Ordered, QuietMatches
      <4> HIDE DEF old, new
      <4>2. CASE \E t \in SessionId : new = Joined(old, t)
        <5>1. /\ new.queue = old.queue /\ new.accepted = old.accepted
              /\ new.applied = old.applied /\ new.lastSeq = old.lastSeq
          BY <4>1, <4>2 DEF Joined, MatchRecord
        <5>2. OrderedFor(new, s, b.gone)
          BY <4>1, <5>1 DEF OrderedFor, TakenOf, KeptOf
        <5> QED
          BY <4>1, <5>2, OrderedForMore DEF new
      <4>3. CASE \E command \in CommandRecord :
                   Takes(old, command, b.gone) /\ new = Submitted(old, command)
        <5>1. OrderedFor(new, s, b.gone)
          BY <4>1, <4>3, SubmittedCommands DEF Takes
        <5> QED
          BY <4>1, <5>1, OrderedForMore DEF new
      <4>4. CASE \E t \in b'.gone \cap SessionId : new = WithoutCommandsOf(old, t)
        <5>1. PICK t \in b'.gone \cap SessionId : new = WithoutCommandsOf(old, t)
          BY <4>4
        <5> QED
          BY <4>1, <5>1, WithoutCommands DEF new
      <4>5. CASE new = old
        BY <4>1, <4>5, OrderedForMore DEF new
      <4> QED
        BY <4>1, <4>2, <4>3, <4>4, <4>5 DEF QuietMatch, new
    <3> QED
      BY <3>1, <3>2
  <2> QED
    BY <2>1 DEF Ordered
<1>2. ASSUME NEW m \in DOMAIN b.matches, Tick(m) PROVE Ordered'
  <2>1. PICK over \in BOOLEAN, snapshot \in BOOLEAN :
           /\ b'.matches = [b.matches EXCEPT ![m] = Advanced(b.matches[m], over)]
           /\ b'.gone = b.gone
           /\ ~b.matches[m].finished => b.matches[m].tick < MaxTicks
    BY <1>2, TickParts
  <2>2. ASSUME NEW s \in SessionId PROVE OrderedFor(Advanced(b.matches[m], over), s, b.gone)
    BY <1>0, <2>1, AdvancedCommands DEF Ordered
  <2>3. \A n \in DOMAIN b.matches : \A s \in SessionId : OrderedFor(b'.matches[n], s, b'.gone)
    BY <2>1, <2>2 DEF Ordered
  <2> QED
    BY <2>1, <2>3 DEF Ordered
<1> QED
  BY <1>1, <1>2, NextQuietOrTick

\* A command that was taken in runs once, in the order of its sender's numbers, and only a
\* sender that is gone loses any (submitCommand, tick, disconnect).
THEOREM CommandsAlwaysRunInOrder == Spec => []CommandsRunOnceInOrder
<1>1. Init => Ordered
  <2>1. DOMAIN NoBackend.matches = {}
    BY DEF NoBackend
  <2> QED
    BY <2>1 DEF Init, Ordered
<1>2. IInv /\ Ordered => CommandsRunOnceInOrder
  <2> SUFFICES ASSUME Sound(b), Ordered, NEW m \in DOMAIN b.matches, NEW s \in SessionId
               PROVE  LET match == b.matches[m]
                          taken == BySession(match.accepted, s)
                          kept  == BySession(match.applied \o match.queue, s)
                      IN  /\ \A i, j \in DOMAIN taken : i < j => taken[i].seq < taken[j].seq
                          /\ kept = SubSeq(taken, 1, Len(kept))
                          /\ s \notin b.gone => kept = taken
    BY DEF IInv, CommandsRunOnceInOrder
  <2> DEFINE match == b.matches[m]
             taken == TakenOf(match, s)
             kept == KeptOf(match, s)
  <2>1. BySession(match.accepted, s) = taken /\ BySession(match.applied \o match.queue, s) = kept
    BY DEF BySession, TakenOf, KeptOf, CommandsOf
  <2>2. taken \in Seq(CommandRecord) /\ kept \in Seq(CommandRecord)
    BY CommandsType, TypedParts DEF Sound
  <2>3. /\ \A i, j \in 1 .. Len(taken) : i < j => taken[i].seq < taken[j].seq
        /\ Begins(kept, taken) /\ (s \notin b.gone => kept = taken)
    BY DEF Ordered, OrderedFor
  <2> HIDE DEF taken, kept
  <2>4. DOMAIN taken = 1 .. Len(taken) /\ kept = SubSeq(taken, 1, Len(kept))
    BY <2>2, <2>3, BeginsProperties
  <2> QED
    BY <2>1, <2>3, <2>4
<1> QED
  BY <1>1, <1>2, NextOrdered, InductiveInvariant, PTL DEF Spec

(***************************************************************************)
(* Events.                                                                 *)
(***************************************************************************)
\* A session that is told nothing of a match keeps its stream of it, if the match stands
\* still, or has not been ticked yet, while the session is an open player.
LEMMA StreamFades ==
  ASSUME NEW c, NEW d, NEW s, NEW m,
         Stream(c, s, m), c.sessions[s] \in SessionRecord, d.sessions[s] \in SessionRecord,
         Fades(c.sessions[s], d.sessions[s], EventsOf(m)),
         m \in DOMAIN d.matches => d.matches[m].tick \in Nat,
         m \in DOMAIN d.matches /\ m \notin DOMAIN c.matches => d.matches[m].tick = 0,
         m \in DOMAIN c.matches
           => /\ m \in DOMAIN d.matches
              /\ c.matches[m].tick \in Nat /\ c.matches[m].tick <= d.matches[m].tick
              /\ Players(c.matches[m]) \subseteq Players(d.matches[m])
              /\ (s \in Players(d.matches[m]) /\ d.sessions[s].auth # "Closed")
                   => d.matches[m].tick = c.matches[m].tick
              /\ s \in Players(d.matches[m]) \ Players(c.matches[m]) => d.matches[m].tick = 0
  PROVE  Stream(d, s, m)
<1> DEFINE before == Told(c.sessions[s], EventsOf(m))
           told == Told(d.sessions[s], EventsOf(m))
<1>1. before \in Seq(MessageRecord) /\ told \in Seq(MessageRecord)
  BY ToldType
<1>2. /\ Begins(told, before)
      /\ d.sessions[s].auth # "Closed" => c.sessions[s].auth # "Closed" /\ told = before
  BY DEF Fades
<1>3. /\ \A i \in 1 .. Len(before) : before[i].tick = i
      /\ m \in DOMAIN c.matches
           => /\ Len(before) <= c.matches[m].tick
              /\ s \in Players(c.matches[m])
                   => (c.sessions[s].auth # "Closed" => Len(before) = c.matches[m].tick)
              /\ s \notin Players(c.matches[m]) => before = <<>>
      /\ m \notin DOMAIN c.matches => before = <<>>
  BY DEF Stream
<1> HIDE DEF before, told
<1>4. Len(before) \in Nat /\ Len(told) \in Nat
  BY <1>1
<1>5. Len(told) <= Len(before) /\ \A i \in 1 .. Len(told) : told[i].tick = i
  BY <1>2, <1>3, <1>4 DEF Begins
<1>6. before = <<>> => told = <<>>
  BY <1>1, <1>4, <1>5
<1>7. CASE m \notin DOMAIN d.matches
  BY <1>3, <1>5, <1>6, <1>7 DEF Stream, told
<1>8. CASE m \in DOMAIN d.matches /\ m \notin DOMAIN c.matches
  <2>1. told = <<>> /\ Len(told) = 0 /\ d.matches[m].tick = 0
    BY <1>3, <1>6, <1>8
  <2> QED
    BY <1>5, <1>8, <2>1 DEF Stream, told
<1>9. CASE m \in DOMAIN c.matches
  <2>1. m \in DOMAIN d.matches /\ Len(told) <= d.matches[m].tick
    BY <1>3, <1>4, <1>5, <1>9
  <2>2. s \notin Players(d.matches[m]) => told = <<>>
    BY <1>3, <1>6, <1>9
  <2>3. ASSUME s \in Players(d.matches[m]), d.sessions[s].auth # "Closed"
        PROVE  Len(told) = d.matches[m].tick
    <3>1. CASE s \in Players(c.matches[m])
      BY <1>2, <1>3, <1>9, <2>3, <3>1
    <3>2. CASE s \notin Players(c.matches[m])
      <4>1. told = <<>> /\ d.matches[m].tick = 0
        BY <1>3, <1>6, <1>9, <2>3, <3>2
      <4> QED
        BY <4>1
    <3> QED
      BY <3>1, <3>2
  <2> QED
    BY <1>5, <2>1, <2>2, <2>3 DEF Stream, told
<1> QED
  BY <1>7, <1>8, <1>9

\* A player that is told of a tick has been told of all of them.
LEMMA StreamGrows ==
  ASSUME NEW c, NEW d, NEW s, NEW m,
         Stream(c, s, m), c.sessions[s] \in SessionRecord, d.sessions[s] \in SessionRecord,
         m \in DOMAIN c.matches, m \in DOMAIN d.matches,
         c.matches[m].tick \in Nat, d.matches[m].tick = c.matches[m].tick + 1,
         Players(d.matches[m]) = Players(c.matches[m]), s \in Players(c.matches[m]),
         Message("events", m, d.matches[m].tick) \in MessageRecord,
         Grows(c.sessions[s], d.sessions[s], EventsOf(m),
               Message("events", m, d.matches[m].tick))
  PROVE  Stream(d, s, m)
<1> DEFINE before == Told(c.sessions[s], EventsOf(m))
           told == Told(d.sessions[s], EventsOf(m))
           message == Message("events", m, d.matches[m].tick)
           more == Append(before, message)
           now == d.matches[m].tick
<1>1. before \in Seq(MessageRecord) /\ told \in Seq(MessageRecord)
  BY ToldType
<1>2. /\ c.sessions[s].auth # "Closed" /\ Begins(told, more)
      /\ d.sessions[s].auth # "Closed" => told = more
  BY DEF Grows
<1>3. /\ \A i \in 1 .. Len(before) : before[i].tick = i
      /\ Len(before) + 1 = now
  BY <1>2 DEF Stream
<1>4. message.tick = now
  BY DEF Message
<1>5. message \in MessageRecord
  OBVIOUS
<1> HIDE DEF before, told, message, now
<1>6. /\ more \in Seq(MessageRecord) /\ Len(more) = now /\ now \in Nat
      /\ \A i \in 1 .. Len(more) : more[i].tick = i
  <2>1. /\ Len(before) \in Nat /\ Len(more) = Len(before) + 1 /\ more \in Seq(MessageRecord)
        /\ \A i \in 1 .. Len(before) : more[i] = before[i]
        /\ more[Len(before) + 1] = message
    BY <1>1, <1>5
  <2> HIDE DEF more
  <2>2. ASSUME NEW i \in 1 .. Len(more) PROVE more[i].tick = i
    <3>1. CASE i = Len(before) + 1
      BY <1>3, <1>4, <2>1, <3>1
    <3>2. CASE i # Len(before) + 1
      BY <1>3, <2>1, <3>2
    <3> QED
      BY <3>1, <3>2
  <2> QED
    BY <1>3, <2>1, <2>2
<1> HIDE DEF more
<1>7. /\ Len(told) \in Nat /\ Len(told) <= now
      /\ \A i \in 1 .. Len(told) : told[i].tick = i
      /\ d.sessions[s].auth # "Closed" => Len(told) = now
  BY <1>1, <1>2, <1>6 DEF Begins
<1> QED
  BY <1>7 DEF Stream, told, now

\* What a quiet call leaves of a match as the streams see it: a match that is joined has not
\* been ticked, and any other keeps its players and its tick.
LEMMA QuietMatchStream ==
  ASSUME NEW old \in MatchRecord, NEW new, NEW gone, NEW after,
         QuietMatch(old, new, gone, after), ~old.started => old.tick = 0
  PROVE  /\ new.tick = old.tick /\ Players(old) \subseteq Players(new)
         /\ new.started \/ new.started = old.started
         /\ ~old.started \/ Players(new) = Players(old)
<1>1. CASE new = old
  BY <1>1
<1>2. CASE ~old.started /\ \E s \in SessionId : new = Joined(old, s)
  <2>1. PICK s \in SessionId : new = Joined(old, s)
    BY <1>2
  <2>2. /\ new.tick = old.tick /\ new.started /\ new.players = Append(old.players, s)
        /\ old.players \in Seq(SessionId)
    BY <2>1 DEF Joined, MatchRecord
  <2>3. ASSUME NEW p \in Players(old) PROVE p \in Players(new)
    <3>1. PICK i \in DOMAIN old.players : p = old.players[i]
      BY DEF Players
    <3>2. i \in DOMAIN new.players /\ new.players[i] = p
      BY <2>2, <3>1
    <3> QED
      BY <3>2 DEF Players
  <2> QED
    BY <1>2, <2>2, <2>3
<1>3. CASE \E command \in CommandRecord : Takes(old, command, gone) /\ new = Submitted(old, command)
  <2>1. SamePlayers(old, new) /\ new.tick = old.tick
    BY <1>3, SubmittedType
  <2> QED
    BY <2>1 DEF SamePlayers, Players
<1>4. CASE \E s \in after \cap SessionId : new = WithoutCommandsOf(old, s)
  <2>1. new.players = old.players /\ new.tick = old.tick /\ new.started = old.started
    BY <1>4 DEF WithoutCommandsOf, MatchRecord
  <2> QED
    BY <2>1 DEF Players
<1> QED
  BY <1>1, <1>2, <1>3, <1>4 DEF QuietMatch

\* Calls and ticks keep the streams of events.
LEMMA NextStreams == IInv /\ Streams /\ [Next]_vars => Streams'
<1> SUFFICES ASSUME Sound(b), Streaming(b), [Next]_vars PROVE Streaming(b')
  BY DEF IInv, Streams
<1>0. /\ \A m \in DOMAIN b.matches : /\ b.matches[m] \in MatchRecord /\ m \in MatchId
                                     /\ b.matches[m].tick \in 0 .. MaxTicks
      /\ \A s \in DOMAIN b.sessions : b.sessions[s] \in SessionRecord
      /\ MaxTicks \in Nat
  BY TypedParts, BackendAssumption DEF Sound, MatchRecord
<1>1. Sound(b')
  BY NextSound DEF IInv
<1>2. /\ \A m \in DOMAIN b'.matches : /\ b'.matches[m] \in MatchRecord /\ m \in MatchId
                                      /\ b'.matches[m].tick \in 0 .. MaxTicks
      /\ \A s \in DOMAIN b'.sessions : b'.sessions[s] \in SessionRecord
  BY <1>1, TypedParts DEF Sound, MatchRecord
<1>3. ASSUME QuietSessions(b, b'), QuietMatches(b, b') PROVE Streaming(b')
  <2>1. ASSUME NEW m \in DOMAIN b.matches
        PROVE  /\ m \in DOMAIN b'.matches
               /\ b'.matches[m].tick = b.matches[m].tick
               /\ Players(b.matches[m]) \subseteq Players(b'.matches[m])
               /\ b'.matches[m].started \/ b'.matches[m].started = b.matches[m].started
               /\ ~b.matches[m].started \/ Players(b'.matches[m]) = Players(b.matches[m])
               /\ ~b.matches[m].started => b.matches[m].tick = 0
    <3>1. m \in DOMAIN b'.matches /\ QuietMatch(b.matches[m], b'.matches[m], b.gone, b'.gone)
      BY <1>3 DEF QuietMatches
    <3>2. ~b.matches[m].started => b.matches[m].tick = 0
      BY DEF Streaming, Unbegun
    <3> QED
      BY <1>0, <3>1, <3>2, QuietMatchStream
  <2>2. ASSUME NEW m \in DOMAIN b'.matches, m \notin DOMAIN b.matches
        PROVE  b'.matches[m].tick = 0
    BY <1>3, <2>2, FreshMatchKept DEF QuietMatches
  <2>3. Unbegun(b')
    <3> SUFFICES ASSUME NEW m \in DOMAIN b'.matches, ~b'.matches[m].started
                 PROVE  b'.matches[m].tick = 0
      BY DEF Unbegun
    <3> QED
      BY <2>1, <2>2
  <2>4. ASSUME NEW s \in DOMAIN b'.sessions, NEW m \in MatchId PROVE Stream(b', s, m)
    <3>1. CASE s \in DOMAIN b.sessions
      <4>1. Stream(b, s, m)
        BY <3>1 DEF Streaming
      <4>2. /\ Fades(b.sessions[s], b'.sessions[s], EventsOf(m))
            /\ b'.sessions[s] \in SessionRecord
        BY <1>3, <3>1 DEF QuietSessions, QuietSession
      <4>3. m \in DOMAIN b'.matches => b'.matches[m].tick \in Nat
        BY <1>2
      <4>4. m \in DOMAIN b.matches
             => /\ m \in DOMAIN b'.matches
                /\ b.matches[m].tick \in Nat /\ b.matches[m].tick <= b'.matches[m].tick
                /\ Players(b.matches[m]) \subseteq Players(b'.matches[m])
                /\ b'.matches[m].tick = b.matches[m].tick
                /\ s \in Players(b'.matches[m]) \ Players(b.matches[m])
                     => b'.matches[m].tick = 0
        BY <1>0, <2>1
      <4> QED
        BY <1>0, <2>2, <3>1, <4>1, <4>2, <4>3, <4>4, StreamFades
    <3>2. CASE s \notin DOMAIN b.sessions
      <4>1. b'.sessions[s] = FreshSession
        BY <1>3, <3>2 DEF QuietSessions
      <4>2. Told(b'.sessions[s], EventsOf(m)) = <<>>
        BY <4>1, AmongEmpty, ConcatEmptySeq DEF Told, FreshSession
      <4>3. ASSUME m \in DOMAIN b'.matches, s \in Players(b'.matches[m])
            PROVE  b'.matches[m].tick = 0
        <5>1. CASE m \notin DOMAIN b.matches
          BY <2>2, <4>3, <5>1
        <5>2. CASE m \in DOMAIN b.matches
          <6>1. s \notin Players(b.matches[m])
            BY <3>2, <5>2 DEF Sound, Settled
          <6> QED
            BY <2>1, <4>3, <5>2, <6>1
        <5> QED
          BY <5>1, <5>2
      <4>4. m \in DOMAIN b'.matches => b'.matches[m].tick \in Nat
        BY <1>2
      <4>5. Len(<<>>) = 0 /\ 1 .. 0 = {}
        OBVIOUS
      <4> QED
        BY <4>2, <4>3, <4>4, <4>5 DEF Stream
    <3> QED
      BY <3>1, <3>2
  <2> QED
    BY <2>3, <2>4 DEF Streaming
<1>4. ASSUME NEW n \in DOMAIN b.matches, Tick(n) PROVE Streaming(b')
  <2>1. PICK over \in BOOLEAN, snapshot \in BOOLEAN :
           /\ b' = TickMatch(b, n, over, snapshot) /\ MayTick(b, n)
           /\ b'.matches = [b.matches EXCEPT ![n] = Advanced(b.matches[n], over)]
           /\ DOMAIN b'.sessions = DOMAIN b.sessions
           /\ ~b.matches[n].finished => b.matches[n].tick < MaxTicks
    BY <1>4, TickParts
  <2> DEFINE old == b.matches[n]
             new == b'.matches[n]
  <2>2. /\ DOMAIN b'.matches = DOMAIN b.matches /\ new = Advanced(old, over)
        /\ \A m \in DOMAIN b.matches : m # n => b'.matches[m] = b.matches[m]
    BY <2>1
  <2>3. /\ SamePlayers(old, new) /\ old.started
        /\ new.tick = IF old.finished THEN old.tick ELSE old.tick + 1
    <3>1. SamePlayers(old, new)
      BY <1>0, <2>1, <2>2, AdvancedType
    <3>2. new.tick = IF old.finished THEN old.tick ELSE old.tick + 1
      BY <1>0, <2>2 DEF Advanced, MatchRecord
    <3> QED
      BY <2>1, <3>1, <3>2 DEF MayTick
  <2>4. new.started /\ Players(new) = Players(old)
    BY <2>3 DEF SamePlayers, Players
  <2> HIDE DEF old, new
  <2>5. Unbegun(b')
    BY <2>2, <2>4 DEF Streaming, Unbegun, new
  <2>6. ASSUME NEW s \in DOMAIN b.sessions, NEW m \in MatchId PROVE Stream(b', s, m)
    <3>1. Stream(b, s, m) /\ b.sessions[s] \in SessionRecord /\ b'.sessions[s] \in SessionRecord
      BY <1>0, <1>2, <2>1 DEF Streaming
    <3>2. \/ /\ Fades(b.sessions[s], b'.sessions[s], EventsOf(m))
             /\ \/ m # n \/ old.finished \/ s \notin Players(old)
                \/ b'.sessions[s].auth = "Closed"
          \/ /\ m = n /\ ~old.finished /\ s \in Players(old)
             /\ Grows(b.sessions[s], b'.sessions[s], EventsOf(m), Message("events", n, new.tick))
      BY <2>1, TickMatchTold DEF old, new
    <3>3. CASE /\ Fades(b.sessions[s], b'.sessions[s], EventsOf(m))
               /\ \/ m # n \/ old.finished \/ s \notin Players(old)
                  \/ b'.sessions[s].auth = "Closed"
      <4>1. m \in DOMAIN b.matches
             => /\ b.matches[m].tick \in Nat /\ b.matches[m].tick <= b'.matches[m].tick
                /\ Players(b.matches[m]) = Players(b'.matches[m])
                /\ (s \in Players(b'.matches[m]) /\ b'.sessions[s].auth # "Closed")
                     => b'.matches[m].tick = b.matches[m].tick
        <5>1. CASE m = n
          BY <1>0, <2>3, <2>4, <3>3, <5>1 DEF old, new
        <5>2. CASE m # n
          BY <1>0, <2>2, <5>2
        <5> QED
          BY <5>1, <5>2
      <4>2. m \in DOMAIN b'.matches => b'.matches[m].tick \in Nat
        BY <1>2
      <4> QED
        BY <2>2, <3>1, <3>3, <4>1, <4>2, StreamFades
    <3>4. CASE /\ m = n /\ ~old.finished /\ s \in Players(old)
               /\ Grows(b.sessions[s], b'.sessions[s], EventsOf(m),
                        Message("events", n, new.tick))
      <4>1. new.tick \in 0 .. MaxTicks /\ old.tick \in Nat /\ new.tick = old.tick + 1
        BY <1>0, <1>2, <2>2, <2>3, <3>4 DEF old, new
      <4>2. Message("events", m, new.tick) \in MessageRecord
        BY <4>1 DEF Message, MessageRecord
      <4> QED
        BY <2>2, <2>4, <3>1, <3>4, <4>1, <4>2, StreamGrows DEF old, new
    <3> QED
      BY <3>2, <3>3, <3>4
  <2> QED
    BY <2>1, <2>5, <2>6 DEF Streaming
<1> QED
  BY <1>3, <1>4, NextQuietOrTick

\* No tick is hidden from a player and none is told twice, whenever it reads and whatever
\* else it is sent; one that was closed was told of the first ticks (tick, broadcast,
\* flushOutbound).
THEOREM EventStreamsAlwaysWhole == Spec => []EventStreamsAreWhole
<1>1. Init => Streams
  <2>1. DOMAIN NoBackend.sessions = {} /\ DOMAIN NoBackend.matches = {}
    BY DEF NoBackend
  <2> QED
    BY <2>1 DEF Init, Streams, Streaming, Unbegun
<1>2. IInv /\ Streams => EventStreamsAreWhole
  <2> SUFFICES ASSUME Sound(b), Streaming(b),
                      NEW s \in DOMAIN b.sessions, NEW m \in DOMAIN b.matches
               PROVE  LET session == b.sessions[s]
                          told    == OfMatch(session.wire \o session.queue, m, "events")
                      IN  /\ \A i \in DOMAIN told : told[i].tick = i
                          /\ Len(told) <= b.matches[m].tick
                          /\ (Open(b, s) /\ s \in Players(b.matches[m]))
                               => Len(told) = b.matches[m].tick
                          /\ s \notin Players(b.matches[m]) => told = <<>>
    BY DEF IInv, Streams, EventStreamsAreWhole
  <2> DEFINE session == b.sessions[s]
             told == Told(session, EventsOf(m))
  <2>1. OfMatch(session.wire \o session.queue, m, "events") = told
    BY DEF OfMatch, Told, EventsOf
  <2>2. told \in Seq(MessageRecord) /\ m \in MatchId
    BY TypedParts, ToldType DEF Sound
  <2>3. DOMAIN told = 1 .. Len(told)
    BY <2>2
  <2>4. Stream(b, s, m)
    BY <2>2 DEF Streaming
  <2> HIDE DEF told
  <2> QED
    BY <2>1, <2>3, <2>4 DEF Stream, Open, told
<1> QED
  BY <1>1, <1>2, NextStreams, InductiveInvariant, PTL DEF Spec
=============================================================================
