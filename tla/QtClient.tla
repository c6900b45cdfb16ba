------------------------------ MODULE QtClient ------------------------------
(***************************************************************************)
(* The desktop client (src/battle_qt_client): its network client, the      *)
(* window that offers the player what may be done next and turns keys into *)
(* commands, and the other end of its connection: the handler that serves  *)
(* it and what the backend keeps of its matches (Server.tla and            *)
(* BackendState.tla have all of that; here is what one client can see).    *)
(*                                                                         *)
(* A connection is a new session, and nothing of the one before reaches    *)
(* it, so what the old connection leaves at the server is forgotten when   *)
(* the client's socket closes.  Frames arrive whole (TcpConnection.tla).   *)
(* Events, the ping's latency and what is only shown are left out.         *)
(***************************************************************************)
EXTENDS Protocol, MovementInput, Sequences, FiniteSets

CONSTANTS
  Keys,           \* the movement keys there are
  Names,          \* lengths in bytes of display names of up to 64 characters
  Codes,          \* lengths in bytes of what is written as a match code
  PerTick,        \* commands of one session that are taken between two ticks
  MaxMatches,     \* of one session
  MaxActs,        \* bound of this model: inputs in the first match; one less in each later one
  Pinging,        \* bound of this model: the phases in which pings are sent
  MaxUp, MaxDown  \* bounds of this model: messages on their way, from and to the client

ASSUME QtClientAssumption ==
  /\ Keys \subseteq {"W", "A", "S", "D"} /\ Names \subseteq Nat \ {0} /\ Codes \subseteq Nat
  /\ PerTick \in Nat \ {0} /\ MaxMatches \in Nat /\ MaxActs \in Nat
  /\ Pinging \subseteq Phases
  /\ MaxUp \in Nat \ {0} /\ MaxDown \in Nat /\ MaxDown >= 2

VARIABLES
  client,      \* what NetworkClient, MainWindow and MovementInputController keep
  socket,      \* the client's: "Unconnected", "Connecting", "Connected" or "Closing"
  up, down,    \* messages sent and not yet read, to and from the server
  handler,     \* the server's: a phase, "None" or "Ended"
  matches      \* of this session, in the order of their ids
vars == <<client, socket, up, down, handler, matches>>

States == {"Disconnected", "Connecting", "Connected", "Authenticated", "InMatch",
           "Disconnecting", "Error"}

(***************************************************************************)
(* match is the id of the match joined last, or 0; seq the next sequence   *)
(* number; over whether the last snapshot was of a finished match; keys    *)
(* the movement keys held; name the length of the display name.            *)
(***************************************************************************)
ClientRecord ==
  [state : States, phase : Phases, match : 0 .. MaxMatches, seq : Nat \ {0},
   over : BOOLEAN, keys : SUBSET Keys, ctl : ControllerRecord, name : Nat]

(***************************************************************************)
(* taken counts the commands since the last tick, and asked is the         *)
(* direction of the last move or stop that was taken.                      *)
(***************************************************************************)
MatchRecord ==
  [started : BOOLEAN, over : BOOLEAN, ticking : BOOLEAN, lastSeq : Nat, taken : Nat,
   asked : Direction]

NewMatch(started) ==
  [started |-> started, over |-> FALSE, ticking |-> started, lastSeq |-> 0, taken |-> 0,
   asked |-> Still]

(***************************************************************************)
(* What a client sends, and its payload.                                   *)
(***************************************************************************)
Sends(type, bytes, match) ==
  [type |-> type, bytes |-> bytes, match |-> match, seq |-> NoSeq, kind |-> NoCommand, dir |-> Still]

InputCommand(match, seq, kind, dir) ==
  [type |-> "InputCommand", bytes |-> 0, match |-> match, seq |-> seq, kind |-> kind, dir |-> dir]

CommandFields(message) ==
  IF message.kind \in {"move", "attack"}
  THEN [kind |-> Text(message.kind, 4),
        direction |-> Object([x |-> Number(message.dir[1]), y |-> Number(message.dir[2])])]
  ELSE [kind |-> Text(message.kind, 4)]

Payload(message) ==
  CASE message.type = "AuthRequest" ->
         [mode |-> Text("demo", 4), displayName |-> Text("name", message.bytes)]
    [] message.type = "CreateMatch" ->
         [mode |-> Text("objective_run", 13), scenario |-> Text("arena_small_objective_run", 25)]
    [] message.type = "JoinMatch" -> [matchCode |-> Text("code", message.bytes)]
    [] message.type = "StartNextMatch" -> [matchId |-> Text("id", 1)]
    [] message.type = "InputCommand" ->
         [matchId |-> Text("id", 1), command |-> Object(CommandFields(message))]
    [] OTHER -> NoFields

IsValid(message, phase) ==
  Verdict(message.type, message.seq, Payload(message), phase) = "None"

\* What the server sends; what is said of the match: it is over, the command is accepted.
Says(type, match, yes) == [type |-> type, match |-> match, yes |-> yes]
ServerError == Says("Error", 0, FALSE)

Init ==
  /\ client = [state |-> "Disconnected", phase |-> "Connected", match |-> 0, seq |-> 1,
               over |-> FALSE, keys |-> {}, ctl |-> Reset, name |-> 0]
  /\ socket = "Unconnected" /\ handler = "None"
  /\ up = <<>> /\ down = <<>> /\ matches = <<>>

----------------------------------------------------------------------------
(***************************************************************************)
(* The network client and the window that follows it.                      *)
(***************************************************************************)
\* setState, and refreshControls after it: leaving a match forgets its keys.
WithState(c, state) ==
  [c EXCEPT !.state = state,
            !.over  = IF state = "InMatch" THEN @ ELSE FALSE,
            !.keys  = IF c.state = "InMatch" /\ state # "InMatch" THEN {} ELSE @,
            !.ctl   = IF c.state = "InMatch" /\ state # "InMatch" THEN Reset ELSE @]

\* Mutant of Sent: only the server validates.
SentUnvalidated(c, message) == IF socket = "Connected" THEN <<message>> ELSE <<>>

\* sendEnvelope: what is sent of a message.
Sent(c, message) ==
  IF socket = "Connected" /\ IsValid(message, c.phase) THEN <<message>> ELSE <<>>

CanSendIntent(c) == c.state = "InMatch" /\ c.match # 0

\* Mutant of SendIntent: the number is used up by what moves the hero.
SendIntentNumbered(c, kind, dir) ==
  /\ client' = IF CanSendIntent(c) /\ kind = "move" THEN [c EXCEPT !.seq = @ + 1] ELSE c
  /\ up' = IF CanSendIntent(c) THEN up \o Sent(c, InputCommand(c.match, c.seq, kind, dir)) ELSE up

SendIntent(c, kind, dir) ==
  /\ client' = IF CanSendIntent(c) THEN [c EXCEPT !.seq = @ + 1] ELSE c
  /\ up' = IF CanSendIntent(c) THEN up \o Sent(c, InputCommand(c.match, c.seq, kind, dir)) ELSE up

\* The socket is closed, and the connection gone.
Unconnected ==
  /\ socket' = "Unconnected"
  /\ handler' = "None" /\ up' = <<>> /\ down' = <<>> /\ matches' = <<>>

Fail ==
  /\ client' = WithState(client, "Error")
  /\ Unconnected

MaySend == Len(up) < MaxUp
MayAct == MaySend /\ client.match + client.seq <= MaxActs + 1

----------------------------------------------------------------------------
(***************************************************************************)
(* The player.                                                             *)
(***************************************************************************)
\* Mutant of Connect: the phase is that of the connection before.
ConnectInPhase(name) ==
  /\ client.state \in {"Disconnected", "Error"}
  /\ client' = WithState([client EXCEPT !.match = 0, !.seq = 1, !.name = name], "Connecting")
  /\ socket' = "Connecting"
  /\ UNCHANGED <<up, down, handler, matches>>

Connect(name) ==
  /\ client.state \in {"Disconnected", "Error"}
  /\ client' = WithState([client EXCEPT !.match = 0, !.seq = 1, !.phase = "Connected",
                                        !.name = name], "Connecting")
  /\ socket' = "Connecting"
  /\ UNCHANGED <<up, down, handler, matches>>

\* The button, or the escape key whenever it is pressed.
DisconnectFromServer ==
  /\ client' = WithState(client,
                 IF socket = "Unconnected" THEN "Disconnected" ELSE "Disconnecting")
  /\ socket' = IF socket = "Connected" THEN "Closing" ELSE socket
  /\ UNCHANGED <<up, down, handler, matches>>

Request(message) ==
  /\ MaySend
  /\ up' = up \o Sent(client, message)
  /\ UNCHANGED <<client, socket, down, handler, matches>>

CreateMatch == client.state = "Authenticated" /\ Request(Sends("CreateMatch", 0, 0))

JoinMatch(code) ==
  client.state = "Authenticated" /\ Request(Sends("JoinMatch", code, 0))

NextIsOffered == client.state = "InMatch" /\ client.over

StartNextMatch ==
  NextIsOffered /\ client.match # 0 /\ Request(Sends("StartNextMatch", 0, client.match))

\* A movement key goes down or up, in a match or not; the direction may stay the same.
KeysChange(keys) ==
  \E due \in BOOLEAN :
    LET dir     == MoveDirection(keys)
        command == DesiredCommand(client.ctl, dir, due)
        changed == [client EXCEPT !.keys = keys, !.ctl = UpdateDesired(@, dir, due)]
    IN  /\ MayAct
        /\ IF command = NoCommand THEN client' = changed /\ up' = up
           ELSE SendIntent(changed, command, dir)
        /\ UNCHANGED <<socket, down, handler, matches>>

PressKey(key) == key \notin client.keys /\ KeysChange(client.keys \cup {key})
ReleaseKey(key) == key \in client.keys /\ KeysChange(client.keys \ {key})

\* The timer that runs in a match sends the held direction again.
PollHeldMovement ==
  /\ client.state = "InMatch"
  /\ MayAct
  /\ \E due \in BOOLEAN : PollSends(client.ctl, due)
  /\ SendIntent([client EXCEPT !.ctl = Polled(@)], "move", client.ctl.desired)
  /\ UNCHANGED <<socket, down, handler, matches>>

\* Attack and dash.
SendAction ==
  /\ MayAct
  /\ SendIntent(client, "attack", <<0, -1>>)
  /\ UNCHANGED <<socket, down, handler, matches>>

SendPing ==
  /\ client.state \in Pinging
  /\ up = <<>>
  /\ Request(Sends("Ping", 0, 0))

----------------------------------------------------------------------------
(***************************************************************************)
(* The client's socket.                                                    *)
(***************************************************************************)
\* onConnected.  A disconnect that was asked for meanwhile takes effect after it.
Established ==
  /\ socket = "Connecting"
  /\ socket' = IF client.state = "Disconnecting" THEN "Closing" ELSE "Connected"
  /\ client' = WithState(client, "Connected")
  /\ LET auth == Sends("AuthRequest", client.name, 0)
     IN  up' = IF IsValid(auth, client.phase) THEN <<auth>> ELSE <<>>
  /\ \/ handler' = "Connected" /\ down' = <<>>
     \/ handler' = "Ended" /\ down' = <<ServerError>>       \* capacity_reached
  /\ UNCHANGED matches

\* onSocketError, which a client that is disconnecting ignores.
ConnectFails ==
  /\ socket = "Connecting"
  /\ client' = IF client.state = "Disconnecting" THEN client ELSE WithState(client, "Error")
  /\ Unconnected

\* The connection breaks, or the server has closed it and all is read.
ConnectionEnds == socket = "Connected" /\ Fail

\* What was written is flushed: onDisconnected.
SocketCloses ==
  /\ socket = "Closing"
  /\ client' = IF client.state = "Error" THEN client ELSE WithState(client, "Disconnected")
  /\ Unconnected

----------------------------------------------------------------------------
(***************************************************************************)
(* What the client reads.                                                  *)
(***************************************************************************)
Reads(type) ==
  /\ socket \in {"Connected", "Closing"}
  /\ down # <<>> /\ Head(down).type = type

Hears(type) == Reads(type) /\ down' = Tail(down) /\ UNCHANGED <<socket, handler, matches>>

ReadAuthResult ==
  /\ Hears("AuthResult")
  /\ client' = WithState([client EXCEPT !.phase = "Authenticated"], "Authenticated")
  /\ UNCHANGED up

\* Mutant of InJoined: what was shown of the match before still counts.
InJoinedStillOver(c, m) ==
  [WithState(c, "InMatch") EXCEPT !.phase = "InMatch", !.match = m, !.seq = 1,
                                  !.keys = {}, !.ctl = Reset]

InJoined(c, m) ==
  [WithState(c, "InMatch") EXCEPT !.phase = "InMatch", !.match = m, !.seq = 1,
                                  !.over = FALSE, !.keys = {}, !.ctl = Reset]

ReadMatchJoined ==
  /\ Hears("MatchJoined")
  /\ client' = InJoined(client, Head(down).match)
  /\ UNCHANGED up

\* A snapshot of whichever match.
ReadSnapshot ==
  /\ Hears("Snapshot")
  /\ client' = [client EXCEPT !.over = Head(down).yes]
  /\ UNCHANGED up

ReadInputAck ==
  /\ Hears("InputAck")
  /\ client' = IF Head(down).yes THEN client ELSE [client EXCEPT !.ctl = MarkRejected(@)]
  /\ UNCHANGED up

ReadPing ==
  /\ Hears("Ping")
  /\ up' = up \o Sent(client, Sends("Pong", 0, 0))
  /\ UNCHANGED client

ReadPong == Hears("Pong") /\ UNCHANGED <<client, up>>

\* Any error of the server, also one after which it would go on, ends the connection.
ReadError == Reads("Error") /\ Fail

ClientReads ==
  \/ ReadAuthResult \/ ReadMatchJoined \/ ReadSnapshot \/ ReadInputAck
  \/ ReadPing \/ ReadPong \/ ReadError

----------------------------------------------------------------------------
(***************************************************************************)
(* The server's end.  Matches are ticked by any handler at any time.       *)
(***************************************************************************)
Tells(messages) ==
  /\ Len(down) + Len(messages) <= MaxDown
  /\ down' = down \o messages

Serves(type) ==
  /\ handler \in Phases /\ up # <<>>
  /\ Head(up).type = type /\ IsValid(Head(up), handler)
  /\ up' = Tail(up)
  /\ UNCHANGED <<client, socket>>

ServeAuth ==
  /\ Serves("AuthRequest")
  /\ handler' = "Authenticated"
  /\ Tells(<<Says("AuthResult", 0, TRUE)>>)
  /\ UNCHANGED matches

\* What a player is told of a match that begins.
Begins(m) == <<Says("MatchJoined", m, TRUE), Says("Snapshot", m, FALSE)>>

NextMatch == Len(matches) + 1

\* A request that is rejected, for a wrong code or for capacity: the handler goes on.
Rejects == Tells(<<ServerError>>) /\ UNCHANGED <<handler, matches>>

ServeCreate ==
  /\ Serves("CreateMatch")
  /\ \/ /\ NextMatch <= MaxMatches
        /\ handler' = "InMatch"
        /\ matches' = Append(matches, NewMatch(FALSE))
        /\ Tells(<<Says("MatchJoined", NextMatch, TRUE)>>)
     \/ Rejects

ServeJoin ==
  /\ Serves("JoinMatch")
  /\ \/ /\ NextMatch <= MaxMatches
        /\ handler' = "InMatch"
        /\ matches' = Append(matches, NewMatch(TRUE))
        /\ Tells(Begins(NextMatch))
     \/ Rejects

Rematch(m) ==
  /\ NextMatch <= MaxMatches
  /\ m \in DOMAIN matches /\ matches[m].started /\ matches[m].over
  /\ matches' = Append([matches EXCEPT ![m].ticking = FALSE], NewMatch(TRUE))
  /\ Tells(Begins(NextMatch))

ServeStartNext ==
  /\ Serves("StartNextMatch")
  /\ \/ Rematch(Head(up).match) /\ UNCHANGED handler
     \/ Rejects

\* The command is taken.
Accepts(command) ==
  LET match == matches[command.match]
  IN  match.started /\ command.seq > match.lastSeq /\ match.taken < PerTick

Asked(match, command) ==
  IF match.over \/ command.kind = "attack" THEN match.asked
  ELSE IF command.kind = "stop" THEN Still ELSE command.dir

ServeInput ==
  LET command == Head(up)
      m       == command.match
  IN  /\ Serves("InputCommand")
      /\ matches' = IF Accepts(command)
                    THEN [matches EXCEPT ![m].lastSeq = command.seq,
                                         ![m].taken   = @ + 1,
                                         ![m].asked   = Asked(matches[m], command)]
                    ELSE matches
      /\ Tells(<<Says("InputAck", m, Accepts(command))>>)
      /\ UNCHANGED handler

ServePing ==
  /\ Serves("Ping")
  /\ Tells(<<Says("Pong", 0, TRUE)>>)
  /\ UNCHANGED <<handler, matches>>

ServePong == Serves("Pong") /\ UNCHANGED <<down, handler, matches>>

\* The handler says why, or not, and closes the connection.  (MaxDown leaves room for it.)
Ends(messages) ==
  /\ handler \in Phases
  /\ handler' = "Ended" /\ up' = <<>>
  /\ down' = down \o messages
  /\ UNCHANGED <<client, socket, matches>>

Refuse == handler \in Phases /\ up # <<>> /\ ~IsValid(Head(up), handler) /\ Ends(<<ServerError>>)

\* Mutant of HandshakeTimeout: the clients that did authenticate are timed.
HandshakeTimeoutTooLate ==
  /\ handler = "Authenticated" /\ up = <<>>
  /\ Ends(<<ServerError>>)

HandshakeTimeout ==
  /\ handler = "Connected" /\ up = <<>>
  /\ Ends(<<ServerError>>)

\* Its time is up, or its queue is full.
CloseSession == \E messages \in {<<ServerError>>, <<>>} : Ends(messages)

PingIdle ==
  /\ handler \in Pinging /\ up = <<>>
  /\ Tells(<<Says("Ping", 0, TRUE)>>)
  /\ UNCHANGED <<client, socket, up, handler, matches>>

TickMatch(m) ==
  /\ handler \in Phases /\ matches[m].ticking
  /\ \E over, snapshot \in BOOLEAN :
       LET now == matches[m].over \/ over
       IN  /\ matches' = [matches EXCEPT ![m].over = now, ![m].taken = 0]
           /\ Tells(IF snapshot THEN <<Says("Snapshot", m, now)>> ELSE <<>>)
  /\ UNCHANGED <<client, socket, up, handler>>

OpponentJoins(m) ==
  /\ handler \in Phases /\ ~matches[m].started
  /\ matches' = [matches EXCEPT ![m].started = TRUE, ![m].ticking = TRUE]
  /\ Tells(<<Says("Snapshot", m, FALSE)>>)
  /\ UNCHANGED <<client, socket, up, handler>>

OpponentStartsNext(m) ==
  /\ handler \in Phases
  /\ Rematch(m)
  /\ UNCHANGED <<client, socket, up, handler>>

HandlerReads ==
  \/ ServeAuth \/ ServeCreate \/ ServeJoin \/ ServeStartNext \/ ServeInput
  \/ ServePing \/ ServePong \/ Refuse

----------------------------------------------------------------------------
Player ==
  \/ \E name \in Names : Connect(name)
  \/ DisconnectFromServer \/ CreateMatch \/ StartNextMatch
  \/ \E code \in Codes : JoinMatch(code)
  \/ \E key \in Keys : PressKey(key) \/ ReleaseKey(key)
  \/ SendAction

Timers == PollHeldMovement \/ SendPing
Network == Established \/ ConnectFails \/ ConnectionEnds \/ SocketCloses

Server ==
  \/ HandlerReads \/ HandshakeTimeout \/ CloseSession \/ PingIdle
  \/ \E m \in DOMAIN matches : TickMatch(m) \/ OpponentJoins(m) \/ OpponentStartsNext(m)

Next == Player \/ Timers \/ Network \/ ClientReads \/ Server

Spec == Init /\ [][Next]_vars

(***************************************************************************)
(* The client's event loop and the handler go on: what there is to read is *)
(* read, a connection is made or refused, and its end is noticed.  The     *)
(* handshake's timer is looked at again and again, for a client's pings    *)
(* are far apart.  Nothing is asked of the player.                         *)
(***************************************************************************)
ServerHasClosed == handler = "Ended" /\ down = <<>>

EventLoop ==
  \/ ClientReads \/ Established \/ ConnectFails \/ SocketCloses
  \/ ServerHasClosed /\ ConnectionEnds

FairSpec == Spec /\ WF_vars(EventLoop) /\ WF_vars(HandlerReads) /\ SF_vars(HandshakeTimeout)

----------------------------------------------------------------------------
MessageRecord ==
  [type : ClientTypes, bytes : Nat, match : 0 .. MaxMatches, seq : Nat \cup {NoSeq},
   kind : {NoCommand, "move", "stop", "attack"}, dir : Direction]
ServerRecord ==
  [type : ServerTypes \cup {"Ping", "Pong"}, match : 0 .. MaxMatches, yes : BOOLEAN]

(***************************************************************************)
(* Types.                                                                  *)
(***************************************************************************)
TypeOK ==
  /\ client \in ClientRecord
  /\ socket \in {"Unconnected", "Connecting", "Connected", "Closing"}
  /\ up \in Seq(MessageRecord) /\ down \in Seq(ServerRecord)
  /\ handler \in Phases \cup {"None", "Ended"}
  /\ matches \in Seq(MatchRecord) /\ Len(matches) <= MaxMatches

Inputs(m) == {i \in DOMAIN up : up[i].type = "InputCommand" /\ up[i].match = m}

(***************************************************************************)
(* No command is refused for its sequence number: those on their way to a  *)
(* match are above the last one that was taken there and in order, the     *)
(* next one is above them all, and a rematch, after which the client       *)
(* counts from one again, counts for itself (sendIntent, validateServer-   *)
(* Message, submitCommand).                                                *)
(***************************************************************************)
SequenceNumbersAreFresh ==
  \A m \in DOMAIN matches :
    /\ \A i \in Inputs(m) :
         /\ up[i].seq > matches[m].lastSeq
         /\ \A j \in Inputs(m) : i < j => up[i].seq < up[j].seq
         /\ client.match = m => up[i].seq < client.seq
    /\ client.match = m => client.seq > matches[m].lastSeq

(***************************************************************************)
(* The client and its handler keep a phase each and validate the same      *)
(* messages with it; the only message that the client finds valid and the  *)
(* handler does not is a second request for a match, made before the first *)
(* was answered (validateClientEnvelope on both ends).                     *)
(***************************************************************************)
OnlyAskingTwiceIsRefused ==
  (handler \in Phases /\ up # <<>> /\ ~IsValid(Head(up), handler))
    => Head(up).type \in {"CreateMatch", "JoinMatch"} /\ handler = "InMatch"

(***************************************************************************)
(* Every connection asks to be authenticated, or is being ended, unless    *)
(* the display name is longer than 64 bytes: the client cuts it at 64      *)
(* characters (connectTo, onConnected).                                    *)
(***************************************************************************)
AuthenticationIsAskedFor ==
  (client.state = "Connected" /\ client.name <= 64)
    => \/ \E i \in DOMAIN up : up[i].type = "AuthRequest"
       \/ \E i \in DOMAIN down : down[i].type \in {"AuthResult", "Error"}
       \/ handler = "Ended"

TickingMatches == {m \in DOMAIN matches : matches[m].ticking}

(***************************************************************************)
(* The next match is offered only when the client's match is over: asked   *)
(* for too early it is rejected, and the rejection ends the connection.    *)
(* Two rematches of one match are the exception: both send snapshots, and  *)
(* the client takes those of one for the other's (startNextMatch,          *)
(* deactivateTcpMatchTicker, snapshotReceived).                            *)
(***************************************************************************)
OfferedOnlyWhenOver ==
  (NextIsOffered /\ socket = "Connected" /\ Cardinality(TickingMatches) <= 1)
    => matches[client.match].over

\* Nothing is on its way that would still change what the hero or the client does.
Settled ==
  /\ socket = "Connected" /\ client.state = "InMatch" /\ handler = "InMatch"
  /\ \A i \in DOMAIN up : up[i].type # "InputCommand"
  /\ \A i \in DOMAIN down : down[i].type \notin {"InputAck", "MatchJoined"}
  /\ matches[client.match].started /\ ~matches[client.match].over

(***************************************************************************)
(* The hero follows the keys, or a command was rejected since: then a      *)
(* direction that is held is sent again, but nothing is when none is       *)
(* (updateDesired, poll, markRejected).                                    *)
(***************************************************************************)
HeroFollowsUnlessRejected ==
  Settled => \/ matches[client.match].asked = MoveDirection(client.keys)
             \/ client.ctl.last = NotSent

Asks == \E i \in DOMAIN up : up[i].type \in {"CreateMatch", "JoinMatch"}
IsAnswered == \E i \in DOMAIN down : down[i].type \in {"MatchJoined", "Error"}

Waits ==
  \/ client.state \in {"Connecting", "Connected"}
  \/ client.state = "Authenticated" /\ (Asks \/ IsAnswered)

(***************************************************************************)
(* Nobody waits for ever: a client that connects comes to be authenticated *)
(* or hears why not, also when it could not ask to be, and a request for a *)
(* match is answered or ends the connection (handshake timeout, requests   *)
(* that are rejected).                                                     *)
(***************************************************************************)
WaitingEnds == Waits ~> ~Waits

----------------------------------------------------------------------------
(***************************************************************************)
(* What the documentation says and the code does not do: stop is sent on   *)
(* key release, so that the hero of a player who holds no key stands still.*)
(***************************************************************************)
ReleasedKeysStopTheHero ==
  (Settled /\ client.keys = {} /\ client.ctl.desired = Still)
    => matches[client.match].asked = Still
=============================================================================
