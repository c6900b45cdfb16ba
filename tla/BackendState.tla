---------------------------- MODULE BackendState ----------------------------
(***************************************************************************)
(* What the backend keeps (sessions and matches) and what each of its      *)
(* calls does to it: SessionRegistry, BackendSession and MatchManager      *)
(* (src/battle_backend/BackendFoundation.cpp).                             *)
(*                                                                         *)
(* The backend is one record, and a call is an operator from a backend to  *)
(* the next one, so that the server can make several calls in one step.    *)
(* "May..." is the condition under which a call is accepted; a rejected    *)
(* call changes nothing but a counter, and those counters are left out.    *)
(*                                                                         *)
(* Sessions and matches are never erased and are numbered in order, so an  *)
(* id is a place in a sequence.  A player is its session, as the server    *)
(* authenticates it.  Of a payload its kind, match and tick are kept, of a *)
(* command its session and sequence number, of the engine its clock and    *)
(* whether it has finished (BattleEngine.tla models the rest).  The byte   *)
(* limit of an outbound queue acts as its message limit does.              *)
(***************************************************************************)
EXTENDS Selections, FiniteSets

CONSTANTS
  MaxSessions, MaxMatches,
  MaxPendingOutbound,        \* messages waiting for one session
  MaxPendingPerMatch, MaxPendingPerSession,   \* commands waiting in one match
  MaxPerSessionPerTick,      \* commands taken from one session between two ticks
  MaxPerTick,                \* commands one tick hands to the engine
  MaxTicks                   \* after which the engine ends a match

ASSUME BackendAssumption ==
  /\ MaxSessions \in Nat /\ MaxMatches \in Nat /\ MaxTicks \in Nat \ {0}
  /\ MaxPendingOutbound \in Nat /\ MaxPendingPerMatch \in Nat
  /\ MaxPendingPerSession \in Nat /\ MaxPerSessionPerTick \in Nat /\ MaxPerTick \in Nat

SessionId == 1 .. MaxSessions
MatchId == 1 .. MaxMatches

Message(kind, match, tick) == [kind |-> kind, match |-> match, tick |-> tick]
MessageRecord == [kind : {"joined", "events", "snapshot"}, match : MatchId, tick : 0 .. MaxTicks]
CommandRecord == [session : SessionId, seq : Nat \ {0}]

(***************************************************************************)
(* wire is all that was handed to the transport for a session; snapshots,  *)
(* of which nothing depends on an earlier one, are not remembered there.   *)
(***************************************************************************)
SessionRecord ==
  [auth : {"Connected", "Authenticated", "Closed"},
   queue : Seq(MessageRecord), wire : Seq(MessageRecord)]

(***************************************************************************)
(* players holds the owner, who is Blue, and then the one who joined, who  *)
(* is Red.  accepted and applied remember the commands taken and those     *)
(* handed to the engine; rematchOf is the match this one follows, or 0.    *)
(***************************************************************************)
MatchRecord ==
  [players : Seq(SessionId), started : BOOLEAN, tick : 0 .. MaxTicks, finished : BOOLEAN,
   lastSeq : [SessionId -> Nat], thisTick : [SessionId -> Nat],
   queue : Seq(CommandRecord), accepted : Seq(CommandRecord), applied : Seq(CommandRecord),
   rematchOf : {0} \cup MatchId]

(***************************************************************************)
(* gone holds the sessions that disconnect was called for.                 *)
(***************************************************************************)
BackendRecord ==
  [sessions : Seq(SessionRecord), matches : Seq(MatchRecord),
   activeSessions : Int, totalClosed : Nat, disconnects : Nat, gone : SUBSET SessionId]

NoBackend ==
  [sessions |-> <<>>, matches |-> <<>>,
   activeSessions |-> 0, totalClosed |-> 0, disconnects |-> 0, gone |-> {}]

Open(b, s) == b.sessions[s].auth # "Closed"
OpenSessions(b) == {s \in DOMAIN b.sessions : Open(b, s)}
HasPlayer(b, s) == b.sessions[s].auth = "Authenticated"
Players(m) == {m.players[i] : i \in DOMAIN m.players}
\* Mutant of InAnyMatch: a finished match no longer holds its players.
InLiveMatch(b, s) ==
  \E i \in DOMAIN b.matches : ~b.matches[i].finished /\ s \in Players(b.matches[i])

InAnyMatch(b, s) == \E i \in DOMAIN b.matches : s \in Players(b.matches[i])

----------------------------------------------------------------------------
(***************************************************************************)
(* Sessions.                                                               *)
(***************************************************************************)
MayCreateSession(b) == Len(b.sessions) < MaxSessions

CreateSession(b) ==
  [b EXCEPT
     !.sessions = Append(@, [auth |-> "Connected", queue |-> <<>>, wire |-> <<>>]),
     !.activeSessions = @ + 1]

Authenticate(b, s) == [b EXCEPT !.sessions[s].auth = "Authenticated"]

ClosedSession(session) == [session EXCEPT !.auth = "Closed", !.queue = <<>>]

\* Mutant of CloseSession: a session that has closed already is counted again.
CloseSessionAgain(b, s) ==
  [b EXCEPT !.sessions[s] = ClosedSession(@),
            !.activeSessions = @ - 1,
            !.totalClosed = @ + 1]

CloseSession(b, s) ==
  IF Open(b, s)
  THEN [b EXCEPT !.sessions[s] = ClosedSession(@),
                 !.activeSessions = @ - 1,
                 !.totalClosed = @ + 1]
  ELSE b

Overflows(session) ==
  session.auth # "Closed" /\ Len(session.queue) >= MaxPendingOutbound

\* A full queue closes its session; the registry is not told.
EnqueueOutbound(session, message) ==
  IF session.auth = "Closed" THEN session
  ELSE IF Overflows(session) THEN ClosedSession(session)
  ELSE [session EXCEPT !.queue = Append(@, message)]

(***************************************************************************)
(* The transport may fail after any number of messages it has sent.        *)
(***************************************************************************)
Remembered == {message \in MessageRecord : message.kind # "snapshot"}

\* Mutant of FlushOutbound: what was sent stays in the queue.
FlushKeepingQueue(session, sent) ==
  IF session.auth = "Closed" THEN session
  ELSE LET told   == Among(SubSeq(session.queue, 1, sent), Remembered)
           handed == [session EXCEPT !.wire = @ \o told]
       IN  IF sent < Len(session.queue) THEN ClosedSession(handed) ELSE handed

FlushOutbound(session, sent) ==
  IF session.auth = "Closed" THEN session
  ELSE LET told   == Among(SubSeq(session.queue, 1, sent), Remembered)
           handed == [session EXCEPT !.wire = @ \o told]
       IN  IF sent < Len(session.queue) THEN ClosedSession(handed)
           ELSE [handed EXCEPT !.queue = <<>>]

Flush(b, s, sent) == [b EXCEPT !.sessions[s] = FlushOutbound(@, sent)]

----------------------------------------------------------------------------
(***************************************************************************)
(* Matches.                                                                *)
(***************************************************************************)
NewMatch(players, started, rematchOf) ==
  [players |-> players, started |-> started, tick |-> 0, finished |-> FALSE,
   lastSeq |-> [s \in SessionId |-> 0], thisTick |-> [s \in SessionId |-> 0],
   queue |-> <<>>, accepted |-> <<>>, applied |-> <<>>, rematchOf |-> rematchOf]

MayCreateMatch(b, s) ==
  /\ HasPlayer(b, s)
  /\ Len(b.matches) < MaxMatches
  /\ ~InAnyMatch(b, s)

CreateMatch(b, s) == [b EXCEPT !.matches = Append(@, NewMatch(<<s>>, FALSE, 0))]

MayJoinMatch(b, s, m) ==
  /\ HasPlayer(b, s)
  /\ ~InAnyMatch(b, s)
  /\ Len(b.matches[m].players) < 2 /\ ~b.matches[m].started

\* The second player starts the match.
Joined(match, s) == [match EXCEPT !.players = Append(@, s), !.started = TRUE]

JoinMatch(b, s, m) == [b EXCEPT !.matches[m] = Joined(@, s)]

(***************************************************************************)
(* Every player of match m is sent the message, and is closed instead if   *)
(* its queue is full.                                                      *)
(***************************************************************************)
SentTo(b, players, message) ==
  [s \in DOMAIN b.sessions |->
     IF s \in players THEN EnqueueOutbound(b.sessions[s], message) ELSE b.sessions[s]]

Broadcast(b, m, message) ==
  LET players == Players(b.matches[m])
  IN  [b EXCEPT
         !.sessions = SentTo(b, players, message),
         !.disconnects = @ + Cardinality({s \in players : Overflows(b.sessions[s])})]

MayStartNextMatch(b, s, m) ==
  /\ Open(b, s)
  /\ s \in Players(b.matches[m])
  /\ b.matches[m].started /\ b.matches[m].finished
  /\ Len(b.matches) < MaxMatches

\* The same players, in the same teams, start again from nothing.
StartNextMatch(b, m) ==
  LET players == b.matches[m].players
      next    == Len(b.matches) + 1
  IN  [b EXCEPT
         !.matches = Append(@, NewMatch(players, TRUE, m)),
         !.sessions = SentTo(b, Players(b.matches[m]), Message("joined", next, 0))]

Pending(match, s) == Cardinality({i \in DOMAIN match.queue : match.queue[i].session = s})

\* Mutant of MaySubmitCommand: the rate limit is trusted to keep the queue short.
MaySubmitAtRate(b, s, m, seq) ==
  LET match == b.matches[m]
  IN  /\ Open(b, s)
      /\ match.started
      /\ s \in Players(match)
      /\ seq # 0 /\ seq > match.lastSeq[s]
      /\ match.thisTick[s] < MaxPerSessionPerTick
      /\ Len(match.queue) < MaxPendingPerMatch

MaySubmitCommand(b, s, m, seq) ==
  LET match == b.matches[m]
  IN  /\ Open(b, s)
      /\ match.started
      /\ s \in Players(match)
      /\ seq # 0 /\ seq > match.lastSeq[s]
      /\ match.thisTick[s] < MaxPerSessionPerTick
      /\ Len(match.queue) < MaxPendingPerMatch
      /\ Pending(match, s) < MaxPendingPerSession

Submitted(match, command) ==
  [match EXCEPT
     !.lastSeq[command.session] = command.seq,
     !.thisTick[command.session] = @ + 1,
     !.queue = Append(@, command),
     !.accepted = Append(@, command)]

SubmitCommand(b, s, m, seq) ==
  [b EXCEPT !.matches[m] = Submitted(@, [session |-> s, seq |-> seq])]

(***************************************************************************)
(* A tick hands the oldest commands to the engine and lets it tick; over   *)
(* says that this tick decides the match.  A finished engine takes no      *)
(* commands in and has no events.                                          *)
(***************************************************************************)
Taken(match) == IF Len(match.queue) < MaxPerTick THEN Len(match.queue) ELSE MaxPerTick

\* Mutant of Advanced: the commands one tick could not take are dropped.
AdvancedClearingQueue(match, over) ==
  LET taken == Taken(match)
      now   == IF match.finished THEN match.tick ELSE match.tick + 1
  IN  [match EXCEPT
         !.queue = <<>>,
         !.applied = @ \o SubSeq(match.queue, 1, taken),
         !.tick = now,
         !.finished = @ \/ over \/ now = MaxTicks,
         !.thisTick = [s \in SessionId |-> 0]]

\* Mutant of Advanced: a finished match goes on.
AdvancedPastTheEnd(match, over) ==
  LET taken == Taken(match)
      now   == match.tick + 1
  IN  [match EXCEPT
         !.queue = SubSeq(@, taken + 1, Len(@)),
         !.applied = @ \o SubSeq(match.queue, 1, taken),
         !.tick = now,
         !.finished = @ \/ over \/ now = MaxTicks,
         !.thisTick = [s \in SessionId |-> 0]]

Advanced(match, over) ==
  LET taken == Taken(match)
      now   == IF match.finished THEN match.tick ELSE match.tick + 1
  IN  [match EXCEPT
         !.queue = SubSeq(@, taken + 1, Len(@)),
         !.applied = @ \o SubSeq(match.queue, 1, taken),
         !.tick = now,
         !.finished = @ \/ over \/ now = MaxTicks,
         !.thisTick = [s \in SessionId |-> 0]]

MayTick(b, m) == b.matches[m].started

TickMatch(b, m, over, snapshot) ==
  LET ticked   == [b EXCEPT !.matches[m] = Advanced(@, over)]
      now      == ticked.matches[m].tick
      reported == IF b.matches[m].finished THEN ticked
                  ELSE Broadcast(ticked, m, Message("events", m, now))
  IN  IF snapshot THEN Broadcast(reported, m, Message("snapshot", m, now)) ELSE reported

\* The commands of a session that is gone are taken out of every match.
WithoutCommandsOf(match, s) ==
  [match EXCEPT !.queue = Among(@, {command \in CommandRecord : command.session # s})]

\* Mutant of Disconnect: only the newest match is looked through.
DisconnectFromNewest(b, s) ==
  LET closed == CloseSession(b, s)
  IN  [closed EXCEPT
         !.disconnects = IF Open(b, s) THEN @ + 1 ELSE @,
         !.matches = [m \in DOMAIN b.matches |->
                        IF m = Len(b.matches) THEN WithoutCommandsOf(b.matches[m], s)
                        ELSE b.matches[m]],
         !.gone = @ \cup {s}]

Disconnect(b, s) ==
  LET closed == CloseSession(b, s)
  IN  [closed EXCEPT
         !.disconnects = IF Open(b, s) THEN @ + 1 ELSE @,
         !.matches = [m \in DOMAIN b.matches |-> WithoutCommandsOf(b.matches[m], s)],
         !.gone = @ \cup {s}]
=============================================================================
