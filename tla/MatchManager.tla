---------------------------- MODULE MatchManager ----------------------------
(***************************************************************************)
(* The backend on its own (src/battle_backend): whoever holds it may make  *)
(* any of its calls, on any session and match, in any order.               *)
(***************************************************************************)
EXTENDS BackendState

CONSTANT Seqs    \* the sequence numbers a client may use

ASSUME ManagerAssumption == Seqs \subseteq Nat

VARIABLE b
vars == <<b>>

Init == b = NoBackend

Connect ==
  /\ MayCreateSession(b)
  /\ b' = CreateSession(b)

Login(s) ==
  /\ Open(b, s)
  /\ b' = Authenticate(b, s)

Create(s) ==
  /\ MayCreateMatch(b, s)
  /\ b' = CreateMatch(b, s)

Join(s, m) ==
  /\ MayJoinMatch(b, s, m)
  /\ b' = JoinMatch(b, s, m)

StartNext(s, m) ==
  /\ MayStartNextMatch(b, s, m)
  /\ b' = StartNextMatch(b, m)

Submit(s, m, seq) ==
  /\ MaySubmitCommand(b, s, m, seq)
  /\ b' = SubmitCommand(b, s, m, seq)

Tick(m) ==
  /\ MayTick(b, m)
  /\ \E over, snapshot \in BOOLEAN : b' = TickMatch(b, m, over, snapshot)

Send(s) ==
  \E sent \in 0 .. Len(b.sessions[s].queue) : b' = Flush(b, s, sent)

Leave(s) == b' = Disconnect(b, s)

Next ==
  \/ Connect
  \/ \E s \in DOMAIN b.sessions :
       \/ Login(s) \/ Create(s) \/ Send(s) \/ Leave(s)
       \/ \E m \in DOMAIN b.matches :
            \/ Join(s, m) \/ StartNext(s, m)
            \/ \E seq \in Seqs : Submit(s, m, seq)
  \/ \E m \in DOMAIN b.matches : Tick(m)

Spec == Init /\ [][Next]_vars

----------------------------------------------------------------------------
(***************************************************************************)
(* Types and sizes.                                                        *)
(***************************************************************************)
TypeOK ==
  /\ b \in BackendRecord
  /\ Len(b.sessions) <= MaxSessions /\ Len(b.matches) <= MaxMatches

(***************************************************************************)
(* A match has one or two players, never the same one twice; it has begun  *)
(* exactly when it has two; and two matches have a player in common only   *)
(* when they are the same two players' and all but the first of them is a  *)
(* rematch of a finished one (createMatch, joinMatch, startNextMatch).     *)
(***************************************************************************)
MatchesShareOnlyByRematch ==
  /\ \A i \in DOMAIN b.matches :
       LET match == b.matches[i]
       IN  /\ Cardinality(Players(match)) = Len(match.players)
           /\ Len(match.players) \in 1 .. 2
           /\ match.started <=> Len(match.players) = 2
           /\ match.rematchOf # 0
                => /\ match.rematchOf < i
                   /\ b.matches[match.rematchOf].finished
                   /\ b.matches[match.rematchOf].players = match.players
  /\ \A i, j \in DOMAIN b.matches :
       (i < j /\ Players(b.matches[i]) \cap Players(b.matches[j]) # {})
         => b.matches[i].players = b.matches[j].players /\ b.matches[j].rematchOf # 0

OfMatch(messages, m, kind) ==
  Among(messages, {message \in MessageRecord : message.match = m /\ message.kind = kind})

(***************************************************************************)
(* No tick is hidden from a player and none is told twice: what was sent   *)
(* to it and what still waits for it hold, in order, the events of every   *)
(* tick of its matches from the first; for a session that was closed, from *)
(* the first up to some tick (tick, broadcast, flushOutbound).             *)
(***************************************************************************)
EventStreamsAreWhole ==
  \A s \in DOMAIN b.sessions, m \in DOMAIN b.matches :
    LET session == b.sessions[s]
        told    == OfMatch(session.wire \o session.queue, m, "events")
    IN  /\ \A i \in DOMAIN told : told[i].tick = i
        /\ Len(told) <= b.matches[m].tick
        /\ (Open(b, s) /\ s \in Players(b.matches[m])) => Len(told) = b.matches[m].tick
        /\ s \notin Players(b.matches[m]) => told = <<>>

BySession(commands, s) == Among(commands, {command \in CommandRecord : command.session = s})

(***************************************************************************)
(* A command that was accepted is handed to the engine once, in the order  *)
(* of its sender's sequence numbers, and is lost only when its sender      *)
(* leaves (submitCommand, tick, disconnect).                               *)
(***************************************************************************)
CommandsRunOnceInOrder ==
  \A m \in DOMAIN b.matches :
    LET match == b.matches[m]
    IN  \A s \in SessionId :
          LET taken == BySession(match.accepted, s)
              kept  == BySession(match.applied \o match.queue, s)
          IN  /\ \A i, j \in DOMAIN taken : i < j => taken[i].seq < taken[j].seq
              /\ kept = SubSeq(taken, 1, Len(kept))
              /\ s \notin b.gone => kept = taken

(***************************************************************************)
(* After a disconnect no command of the session waits in any match, the    *)
(* ones it shares by a rematch included, and none ever comes again: what   *)
(* it had run by then is all that it ever runs (disconnect).               *)
(***************************************************************************)
GoneIsGone ==
  \A s \in b.gone :
    /\ ~Open(b, s)
    /\ \A m \in DOMAIN b.matches :
         \A i \in DOMAIN b.matches[m].queue : b.matches[m].queue[i].session # s

(***************************************************************************)
(* The queues keep to their limits, also when a tick takes fewer commands  *)
(* than wait, and a closed session keeps no message (enqueueOutbound,      *)
(* submitCommand).                                                         *)
(***************************************************************************)
QueuesAreBounded ==
  /\ \A s \in DOMAIN b.sessions :
       Len(b.sessions[s].queue) <= IF Open(b, s) THEN MaxPendingOutbound ELSE 0
  /\ \A m \in DOMAIN b.matches :
       /\ Len(b.matches[m].queue) <= MaxPendingPerMatch
       /\ \A s \in SessionId : Pending(b.matches[m], s) <= MaxPendingPerSession

(***************************************************************************)
(* No session is counted closed twice, in either count: every session is   *)
(* counted as active or as closed, and every open one as active            *)
(* (createSession, closeSession, disconnect, broadcast).                   *)
(***************************************************************************)
SessionsAreCounted ==
  /\ b.activeSessions + b.totalClosed = Len(b.sessions)
  /\ b.activeSessions >= Cardinality(OpenSessions(b))
  /\ b.disconnects <= Cardinality(DOMAIN b.sessions \ OpenSessions(b))

(***************************************************************************)
(* A match goes forward tick by tick, a finished one stands still, and     *)
(* nobody joins a match that has begun (tick, joinMatch).                  *)
(***************************************************************************)
MatchesOnlyAdvance ==
  [][\A m \in DOMAIN b.matches :
       LET old == b.matches[m]
           new == b'.matches[m]
       IN  /\ new.tick \in {old.tick, old.tick + 1}
           /\ old.finished => new.finished /\ new.tick = old.tick
           /\ old.started => new.started /\ new.players = old.players]_vars

=============================================================================
