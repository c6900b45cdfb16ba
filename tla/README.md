# Verification of IF Arena

This directory holds TLA+ models of IF Arena's server, of its transports and of its desktop client, the TLC
configurations that check them on small instances, and TLAPS proofs of what matters most in them. Source
files are named without their directories where the name says enough; documents are below `docs/`.

The models are read off the code, not off the documents. Where a document and the code disagree, the
model does what the code does and the disagreement is listed under [Findings](#6-findings).

## 1. The system

One authoritative C++20 server runs matches between two players. Clients (Qt, CLI, load generator) speak
length-prefixed JSON over TCP; the Telegram mini app speaks JSON over WebSocket. A server process runs one of
the two listeners.

```
 clients ──bytes──▶ battle_transport_tcp / _ws ──frames──▶ battle_protocol ──envelopes──▶
   battle_server_app (a thread per connection, one mutex) ──calls──▶ battle_backend
     (sessions, matches, queues) ──commands, ticks──▶ battle_core (the engine)
 clients ◀──bytes── outbound queue of each session ◀──events, snapshots── battle_backend
```

### Components

| Component | State | Operations | Hard part | Correct when |
|---|---|---|---|---|
| `battle_core` engine (`BattleEngine.cpp`) | heroes, objective, hazards, score, clock, pending commands, events waiting to be reported | `submit`, `tick`, `dropObjective` | a tick has seven phases that all touch the objective; commands are judged when submitted and run later | objective, carrier, position and timers always agree; points only by captures; cooldowns and defeat hold within a tick; the events tell the whole story |
| `battle_core` geometry (same file) | none | movement, collision, dash, reach, crow patrol | discrete steps over obstacles, rounding that is not symmetric | nothing is crossed; both teams have the same game |
| `battle_core` arena (`ArenaConfig.hpp`) | none | `validateArenaConfig`, Red's view and input | fairness follows from many small checks together | an accepted arena is the same for both |
| `battle_backend` sessions (`Session.hpp`, `BackendFoundation.cpp`) | session state, outbound queue, counters | create, authenticate, enqueue, flush, close | a queue overflows in the middle of a broadcast; a send fails halfway | every tick's events reach each player once and in order, or the player is closed; nobody is counted twice |
| `battle_backend` matches (`MatchLoop.hpp`, `BackendFoundation.cpp`) | players, command queue, sequence numbers, rate counters, the engine | create, join, start next, submit, tick, disconnect | rematches put a session into several matches; commands wait over ticks | accepted commands run once in order; limits hold; the gone are gone |
| `battle_backend` scenario loader (`ScenarioConfig.cpp`) | none (a file becomes a scenario) | `parseScenarioConfig` | five places check numbers that others wrote; integers are cut to their width; milliseconds become ticks | what is accepted at the start can be played, with the numbers that were written |
| `battle_server_app` configuration and start (`main.cpp`) | configuration, scenario | `validateConfig`, `--check-config`, making of limits and intervals | the same | the same; rates and intervals fit each other |
| `battle_server_app` handlers and clock (`main.cpp`) | a phase per handler, a ticker per match | the handlers, the catch-up clock | no thread ticks matches, handlers do; several may at once; late matches are made up for | no match runs ahead of the clock; each running match has its ticker; handlers and backend agree; matches end |
| `battle_protocol` (`Protocol.cpp`) | none | parse, serialise, validate an envelope for a phase | both ends validate the same messages, each with a phase of its own | what one end finds valid the other does |
| `battle_transport_tcp` | decoder buffer, decoded frames, socket | `sendFrame`, `readFrame`, `feed`, `encodeFrame` | pieces of frames; two writing threads; half-sent frames | whole frames, once, in order |
| `battle_transport_ws` | decoder buffer, socket; adapter with phase and timers | `readText`, `sendText`, `feed`, adapter calls | pieces, control frames, several frames in a read; timers that look at the clock only after a silent read | whole messages, once, in order; nobody is given up who has spoken, and the silent are |
| `battle_qt_client` | connection state, phase, match, sequence number, keys, last movement sent, what may be asked next | connect, requests, keys, reading | rematches while messages are on their way; two phases that must agree; refused commands | numbers are fresh; nothing is asked that must be refused; nobody waits for ever; the hero follows the keys |
| `battle_cli_client`, mini app | view state | as the Qt client | – | – |
| tools, deployment, vendored snapshot | – | – | – | – |

### How they interact

* A handler thread reads a frame, validates it against the handler's own **phase**, takes the one mutex and makes all
  backend calls of the request under it. Replies go straight to the connection; events and snapshots go
  through the session's **outbound queue**, which some handler flushes, not necessarily the session's own.
* **Time** is driven by handlers: a handler whose read timed out, or whose command was accepted, ticks
  every match that is due, up to four ticks at once, and gives up what is late beyond that.
* A full outbound queue or a failed send closes the session from inside the backend; its handler notices
  later and then disconnects it as well.
* Sessions and matches are never erased, so ids are stable and a session may be in several matches, by
  rematches only.
* The **engine is built when the second player joins**, from numbers that the loader checked at the start. Its
  constructor throws for what it does not like, and nothing catches that.
* The desktop client validates what it sends with the server's own code and a **phase of its own**, which follows the
  server's answers. A rematch, which the other player may ask for, starts its sequence numbers again.

## 2. Modules

| Module | Models | State and actions |
|---|---|---|
| `BattleEngine` | `BattleEngine.cpp/.hpp` | `world` is `BattleSnapshot`, `pending` the queue of `PlayerCommand`s, `systemEvents` and `events` the two event lists. `Submit`, `Tick`, `TickFinished`, `DropObjective` are the public calls. `AdvanceTick` composes the tick from the code's phases, in its order |
| `ArenaGeometry` | the geometric helpers of `BattleEngine.cpp` | operators only; coordinates are counted in fractions of a cell so that comparisons of squared distances are exact |
| `ArenaConfig` | `ArenaConfig.hpp` | operators only; `ValidateArena` is `validateArenaConfig` |
| `ScenarioConfig` | `ScenarioConfig.cpp` | operators only; `Accepts` and `ParsedScenario` are the two outcomes of the loader. A field is there or `Absent`; conversions wrap at `UintMax` |
| `ServerStart` | `main` and its loaders, `makeMatchConfig`, the engine's constructor, the snapshot and the client's reading of it | `Refuse`, `Load`, `Join`, `JoinThrows`; then a hero walks (`Walk`, `Dash`) the arena that was loaded |
| `BackendState` | `Session.hpp`, `MatchLoop.hpp`, `BackendFoundation.cpp` | the backend is a record, each call an operator from a backend to the next; `May...` are the conditions for its acceptance |
| `Selections` | – | what is left of a sequence (`Among`) |
| `MatchManager` | the backend, driven freely | one action per public call |
| `Server` | `main.cpp` with `BackendState` | one action per request a handler serves, plus `TimedOut`, `End`, `Accept` and the passing of time, `Elapse` |
| `Protocol` | `Protocol.cpp` | operators only; `Verdict` is `validateClientEnvelope`, on JSON objects as functions from fields to values |
| `MovementInput` | `MovementInputController.cpp` | operators only, on the controller's two directions |
| `QtClient` | `NetworkClient.cpp`, `MainWindow.cpp`, with the handler at the other end | `client` is what the client keeps, `up` and `down` the messages on their way, `handler` the server's phase, `matches` what the backend keeps of this session's matches. One action per slot, handler and request |
| `MessageChannel` | (abstract) | what a connection promises |
| `ByteStream` | what both kinds of connection have | the bytes on their way, what the decoder holds, what was sent and delivered, the sizes of a piece |
| `TcpConnection` | `TcpFrameCodec.cpp/.hpp`, `TcpBackendOutbound` | one direction of a connection: two senders, the byte stream, decoder and `readFrame` |
| `WebSocketConnection` | `WebSocketSession.cpp/.hpp`: the receiving end | the frames of a client in pieces, `tryDecode`, `feed`, `readText` |
| `WebSocketSession` | `handleWebSocketClient` and `WebSocketSessionAdapter` on top of it | `adapter` is the adapter's phase and timers. `ReadText`, `TimedOut`, `Fails`, `Elapse`, `Send` |
| `BattleEngineProofs`, `MatchManagerProofs`, `ServerProofs`, `ServerStartProofs`, `QtClientProofs` | – | the theorems about the module of that name |
| `ConnectionProofs` | – | the theorems about `TcpConnection` and about `WebSocketSession` |
| `BackendProofs` | – | lemmas: each of `BackendState`'s calls leaves a sound backend |
| `Runs` | – | lemmas about loops |
| `MC...` | – | finite instances |

`BattleEngine` takes its map as constants: where a step or a dash from a place leads, what an attack reaches, where
the bases and hazards are. `MCBattleEngine` computes them with `ArenaGeometry`; the theorems hold for any map.
`ServerStart` uses the same geometry for the arena that was loaded. `Server` composes handlers and clock with `BackendState`,
which keeps of an engine its clock and whether it has finished. `QtClient` composes the client with one handler and
uses `Protocol` on both ends, as the code does; `WebSocketSession` composes the adapter's timers, the phases of `Protocol` and the
decoder. `TcpConnection` and `WebSocketConnection` implement `MessageChannel` (`INSTANCE MessageChannel WITH
broken <- torn`, and `WITH broken <- FALSE`).

Every operator named as a mutant in a comment is a plausible bug of the definition that follows it; it
is used by no specification. `PROJECT.json` says which property finds which mutant.

## 3. Runs

All runs use two workers and end within about three minutes. Deadlock checking is off where
the system may stop: matches end, queues fill, all sessions are used up, a player asks for nothing.

| Run | Question | Bounds |
|---|---|---|
| `EngineMatch` | Does the state stay consistent, do points come only from captures, does a lock hold, do the events alone tell who has the objective and that the match is over? | corridor of 3 cells in quarters, a carrier at half speed, a mine and a crow, 7 ticks, 2 points to win, one pending command, 2 hit points |
| `EngineBurst` | Do cooldowns and defeat hold for several commands between two ticks? Does a match that is ticked end? | 2 pending commands, 3 ticks, 1 point to win, no hazards |
| `EngineDeadCarrier` | finding: see below | the same corridor, a mine that only damages |
| `ScenarioPlays` | Can what is accepted be played, and do the clients understand it? Are written times kept? Do both teams have the same game? Is nothing ever crossed? | arenas of 5 by 3 cells with every choice of up to two obstacles and six sets of hazards, most of them refused; every number of a scenario at, below and above its limits, left out and wide enough to wrap (an `int` of 11 bits and its unsigned); 19 configurations, ports, a host, a path and a token that are refused among them; crows with the seeds whose 32-bit sum wraps while they are looked at; heroes walk and dash to every place they can reach |
| `ManagerMatches` | Who may be in which match; is no event lost, doubled or out of order; is nothing of the gone left? | 2 sessions, 2 matches of 2 ticks, queues of one message |
| `ManagerCommands` | Does an accepted command run once and in order? Do limits hold? | 2 sessions, 1 match, 3 sequence numbers, 2 waiting commands, one of each session and one taken per tick |
| `ServerMatches` | Does no match run ahead of the clock? Do handlers and backend agree? Is each match announced first, has each running match its clock? Do matches end? | 2 connections, 2 matches of 2 ticks, queues of 3, one of them sends commands, the same one's transport may give up on an answer, 4 intervals late, 2 made up for at once |
| `ServerStarved` | finding | as `ServerMatches`, 1 match, no commands |
| `TcpStream` | Whole frames, once, in order, all of them? | 2 threads, 2 frames of one or two bytes, reads of 1 to 7 bytes, sends in pieces of three bytes, two illegal headers, a buffer of 12 bytes |
| `WsStream` | The same for a browser's frames; is no text lost; is nobody given up who was heard, and everybody who is silent? | 2 frames of 11 kinds, reads of 1 to 16 bytes, messages of up to 5 bytes, handshake in 2 intervals, idle after 1 |
| `ClientPlays` | Are numbers fresh; does the server refuse only what is asked twice; is the next match offered when it should be; does the hero follow the keys; does waiting end? | one key, names of 8 and 128 bytes, codes of 0 and 2 bytes, 3 matches, 2 inputs in the first match and one less in each later one, one command per tick, 2 messages on their way in each direction, pings before a match only |
| `ClientStops` | finding | as `ClientPlays`, 1 match, no pings |

**Why the bounds are enough.** The engine's corridor is long enough for both bases, a fight, a dash past the middle, a
drop, a lock that expires and a capture; seven ticks allow two captures, or a capture, a respawn and a fight. Two
obstacles and one mirrored pair of hazards decide the validator's checks, which look at pairs; an odd number
is refused, cut or played on its own, so one at a time is enough. Two matches are what a
rematch needs, two requests for it included, and the client's third match makes two rematches of one match visible to it; a queue
of one message overflows with the first event and snapshot of one tick. In `ServerMatches` the lag goes past what
is made up for, so the giving up happens. There `Slow` holds one of the two connections, which may be the one that
creates a match and the one that joins it; with both, the invariants hold as well, in twice the states, and liveness takes too long. The TCP
receiver's read is larger than one frame and smaller than two, and frames are at least five bytes, so
that reads end inside headers, inside payloads and between frames, and one read completes two frames. A WebSocket read of 16 bytes
holds two frames, so that one is left in the decoder. Two inputs suffice for a key that goes down and up, with the stop refused
after the move was taken.
In `ScenarioPlays` a crow is looked at in six ticks, a whole round; unsigned numbers have 12 bits, and 2^12 leaves the
same rest modulo the six cells of a crow's round as the code's 2^32, so a sum that wraps makes the same leap.
`MaxLag`, `MaxSent`, `Pieces`, `MaxActs`, `MaxUp`, `MaxDown`, `Pinging`, `Slow` and the sets `Seqs` and `WatchedTicks` bound the models and not the program;
each is named so where it is declared. Where a theorem covers the property, the bound does not matter to it.

## 4. Fairness and liveness

* `MatchEnds` (engine): weak fairness of ticking. It says that the engine ends a match that is ticked, whatever is
  submitted, not that anybody ticks it.
* `MatchesEnd` (server): weak fairness of time, and strong fairness of each handler's timed-out read, because a handler
  whose socket times out again and again gets the mutex again and again. No client need ever send
  anything. The property is conditional: again and again, some connected client is silent for a whole interval.
  Without the condition it is false (`ServerStarved`).
* `EveryFrameArrives` (TCP): weak fairness of reading while there is something to read, as handlers
  read in a loop, and of a socket that takes bytes while its reader reads. Closing is never required.
* `SilentClientsAreLetGo` (WebSocket): weak fairness of time, of reading while there is something to read, and of the timed-out
  read, for the bounded number of frames do not keep every read from timing out. Nothing is asked of the client.
* `WaitingEnds` (client): weak fairness of the client's event loop (there is something to read, a connection is made or refused,
  its end is noticed) and of the handler's reading; strong fairness of the handshake's timer, which is looked at
  after every silent read while a client's pings are three seconds apart. Nothing is asked of the player.

## 5. What is proved

Each theorem holds for every value of the constants that its module's assumptions allow, and with them for any number of
players' inputs, sessions, matches, messages and bytes.

**`BattleEngineProofs`**, for every map, every set of hazards and every value of the rules:

| Theorem | Statement |
|---|---|
| `InductiveInvariant` | the strengthened invariant holds in every reachable state |
| `TypeCorrect` | `[]TypeOK` |
| `ObjectiveAlwaysConsistent` | state, carrier, position and timers of the objective agree |
| `ResultAlwaysConsistent` | a match is over exactly when it is won or out of time; never do both win |
| `CarrierAlwaysAlive` | if every hazard drops the objective, no defeated hero carries it |
| `HazardsAlwaysConsistent` | if every hazard has a cooldown, it is shown as spent exactly while it cools down |
| `NothingElseWaits` | between two calls nothing waits but one untold drop, and one attack of each player whose cooldown has run out (`BetweenTicks`) |
| `OnlyCapturesScore` | `ScoresOnlyByCapture`: a point is made only by a carrier in the own base, one per tick, and is reported; if a captured objective stays away for at least a tick |
| `LockHolds` | `LockedObjectiveStays`: nobody takes the objective while its lock runs, which it does by one each tick |
| `DefeatedStayDefeated` | `DefeatIsFinal`: a defeated hero stays where it fell, acts and scores no more |
| `AttacksAlwaysCool` | `AttacksRespectCooldown`: one attack in a tick, and only after the cooldown |
| `EventsAlwaysTell` | `EventsTellTheMatch`: the events alone tell who has the objective and whether the match is over |

*Assumptions.* Those declared in `BattleEngine` on its constants, and the three hypotheses above, which are needed:
`EngineDeadCarrier` shows the carrier's theorem false without its hypothesis, a hazard without a cooldown
is shown as spent for ever, and an objective that is back in the tick of its capture can be captured again in it by the other
player. The loader gives the last one: `msToTicks` makes at least one tick of any delay (`ScenarioConfig.cpp:341`).

*Argument.* The invariants are not inductive one by one: whether the objective is consistent after a hazard strikes
depends on the carrier being alive before, whether the result is consistent after the clock on no score being
past the limit. The invariant is therefore their conjunction with the types, and with a result that is
settled between two calls. A tick is a composition, so each phase (a command, a hero's movement, the
cooldowns, the objective's timers, a hazard, the clock) has two lemmas: what fields it changes, and that it
keeps the conjunction. Phases that go through players, commands or hazards are recursive functions, and
an induction over the position in the list carries the conjunction through them. The theorem about a
step has one case per action.

The last five properties compare the two ends of a tick. `Story` says of any point within a tick how the world there, the
events reported and the commands run so far follow from the world the tick began with: what the events tell is what the world
is, each defeat is told once and followed by no act, a player whose attack hit is among those whose command was run, and so
on. Each phase has a third lemma, that it carries the story on; the story of a whole tick then gives each property. It
begins right because of `BetweenTicks`: an attack that waits was submitted when the cooldown had run out and nobody else's
call can start it again, and a drop made between two ticks is told by the next one before anybody picks the objective up.

**`MatchManagerProofs`**, for any number of sessions, matches and sequence numbers and for all limits:

| Theorem | Statement |
|---|---|
| `InductiveInvariant` | the backend is `Sound` in every reachable state |
| `TypeCorrect` | `[]TypeOK`, the limits on sessions and matches included |
| `SessionsAlwaysCounted` | no session is counted closed twice |
| `GoneForEver` | no command of a disconnected session waits in any match |
| `MatchesAlwaysApart` | matches share players only as rematches |
| `MatchesNeverGoBack` | no step takes a match's clock, result, start or players back |
| `QueuesAlwaysBounded` | `[]QueuesAreBounded`: all queues keep to their limits |
| `CommandsAlwaysRunInOrder` | `[]CommandsRunOnceInOrder`: an accepted command runs once, in order, unless its sender is gone |
| `EventStreamsAlwaysWhole` | `[]EventStreamsAreWhole`: every player is told every tick's events, once and in order, until it is closed |

*Assumptions.* The limits are naturals, the longest match has at least one tick, sequence numbers are naturals.

*Argument.* `Sound` adds to the invariants what they rest on: the players of a match have sessions, a finished match has
begun, a match that is not finished has ticks left, and who is gone had a session. With these, a match that
others follow has two players, so nobody joins it and `MatchesShareOnlyByRematch` survives `joinMatch`; and the players that a
broadcast closes were open, so it counts each once. The calls are operators from a backend to a backend, so the lemmas of
`BackendProofs` say of each operator, whoever calls it, that it leaves a sound backend. A call made of others (`TickMatch`,
`StartNextMatch`, `Disconnect`) is proved from the lemmas of its parts. `ClosingKeepsCounted` is the arithmetic common to
all that close sessions; what is left of a queue after a disconnect or a flush (`Among`) is an induction over the queue.

The last three properties are about histories: what was sent and run, and what waits. For them a call is *quiet* or a tick
(`NextQuietOrTick`). A quiet call changes a match in one of four ways (it is joined, takes one command in, loses those of a session
that is gone, or is new) and tells nobody of any events, though it may close sessions, which then keep a beginning of what they
were told. A tick changes one match and tells each of its open players of one more tick, or closes it (`TickMatchTold`,
an induction over the players and over what each is told). The invariants that survive this are `Short`, `Ordered` (the
commands of each session that a match has run or keeps are a beginning of those it took, whose numbers grow up to `lastSeq`) and
`Streams`, which the property needs in two points more than it says: a match that has not begun has not been ticked
(`Unbegun`), so who joins it has missed nothing, and nobody was told of a match that is not there yet. The lemmas on
sequences (`Runs`: what is among a concatenation, what begins with what) are shared by all of them.

**`ServerProofs`**, for any number of connections and matches, any limits, any `CatchUp` and any lag:

| Theorem | Statement |
|---|---|
| `InductiveInvariant` | backend, clocks and handlers are right together (`ServerSound`) in every reachable state |
| `TypeCorrect` | `[]TypeOK` |
| `HandlersAlwaysAgree` | `[]PhasesAgree`: a handler's phase and the backend's sessions and matches agree |
| `RunningMatchesAlwaysTicked` | `[]RunningMatchHasItsTicker`: exactly one clock for each running match |
| `NeverEarly` | `[]NeverAheadOfTheClock` |
| `MatchesAlwaysAnnouncedFirst` | `[]EveryMatchIsAnnouncedFirst`: nobody is told anything of a match before being told to be in it, but for a player whose own connection gave up on the answer to its request to create or join that match (`untold`) |

*Assumptions.* The backend's, and those on intervals and catching up in `Server`.

*Argument.* A request makes several backend calls under the mutex and then ticks what is due, so the lemmas of `BackendProofs`
are composed within a step. The clocks need more than the property says: each ticker's match has
begun, and its ticks never exceed its age by more than the time its next tick is away (`OnTime`); with it, a late match that is
made up for in pieces cannot get ahead. The handlers need that backend calls only ever close a session and never take it out of a match
(`AgreementStays`), for other handlers' steps; and that a session in no match is taken into none by a rematch. Announcements
need that every open player of a match already has its own, or is `untold` (`Announced`): a broadcast may then tell it anything of the match,
and a flush moves a message from the queue to what was sent without changing their order. Replies that go past the queue
(`Create`, `Join`) are the delicate ones: the queue of a session in no match has nothing in it of the new one. The transport may
give up on such a reply, any connection's here (`Slow` is any set), and the handler goes on; `untold` grows by that one player and match
only, so everything proved of the others stays (`MoreInOrder`).

**`ServerStartProofs`**, for all files, configurations, arena sizes and integer widths:

| Theorem | Statement |
|---|---|
| `AcceptedScenariosAlwaysPlay` | `[]AcceptedScenariosPlay`: an accepted scenario never makes the second player's join throw, is played with its combat numbers as written, and is understood by every client unless its snapshot is too long |
| `WrittenTimesAlwaysKept` | `[]WrittenTimesAreKept`: times in milliseconds and seconds are kept to half a tick, or to the one tick that is the least; nobody sends more commands a second than the configuration says, but for the one per tick |
| `RedAlwaysPlaysTheSameGame` | `[]RedPlaysTheSameGame`: what Red sees of a step, a dash and a crow in the centre, whatever its seed and at any tick, is what Blue does, but for a crow in the three ticks in which its unsigned sum wraps |
| `NothingIsEverCrossed` | `NothingIsCrossed`: no place on a hero's way, of a step or of a dash, overlaps an obstacle |

*Assumptions.* `ScenarioAssumption` and `ServerStartAssumption`: widths, files with fields of their JSON types, and that the unit
positions are counted in divides a cell into quarters, which are what the code tries a dash in.
The property exempts scenarios with numbers that only the engine looks at (`OnlyTheEngineLooks`); those do end the server.

*Argument.* Each conjunct of the engine's constructor is traced to the check of the loader or the validator that gives
it: the obstacles inside the arena, spawns and the objective free of them. That no more hazards are placed than there are cells
follows by counting, since the validator wants them in different cells.

The times rest on two facts about division. With `interval * rate = 1000`, the ticks that are loaded are the quotient
for which `2000 * ticks <= 2 * ms * rate + 1000 < 2000 * ticks + 2000`, which is half an interval on either side; and a quotient
multiplied by its divisor is no more than what was divided. A conversion that goes through a narrower integer wraps only above
`UintMax`, where the property claims nothing.

For the two sides of the arena, `View` turns the arena half round. It keeps distances and bounds, and takes obstacles to obstacles, because
the validator wants each with its mirror (`ObstaclesMirrored`); therefore whether a step or a part of a dash is free looks the
same from both sides (`ViewInBounds`, `ViewObstacles`). A dash that is cut short ends with the last part that can be gone (`IsLast`), and
since there is exactly one, both sides choose the same. A crow's offsets three ticks apart are opposite (`OffsetsTurn`), if
its sum has grown by three between them, which it does unless it wraps (`PatrolSumsGrow`), so
it finds the same tries fine. All this needs that what is played in was accepted (`Plays`), which is also what keeps a hero in a
place.

That nothing is crossed needs the stronger `StandsClear`: a hero does not overlap an obstacle where it stands. It begins in a
cell that is free, and cells are further apart than what keeps it off. No place of a segment is nearer to an
obstacle than the one `Clamp` finds (`ClampIsNearest`), so a way that does not collide is clear; and the way of a dash that is
cut short is made of parts that are (`WaysJoin`, an induction over the parts).

**`QtClientProofs`**, for any keys, names, limits and number of messages on their way:

| Theorem | Statement |
|---|---|
| `TypeCorrect` | `[]TypeOK` |
| `NumbersAlwaysFresh` | `[]SequenceNumbersAreFresh`: no command is ever refused for its number, rematches included |
| `OnlySecondRequestsAreRefused` | `[]OnlyAskingTwiceIsRefused`: no request ends the session but one made twice before its answer |
| `AuthenticationAlwaysAskedFor` | `[]AuthenticationIsAskedFor`: who waits to be authenticated has asked for it, if the name fits into 64 bytes |
| `OfferedOnlyAfterTheEnd` | `[]OfferedOnlyWhenOver`: while at most one match ticks, the next is offered only when the client's own is over |
| `HeroAlwaysFollows` | `[]HeroFollowsUnlessRejected`: with no command on its way, the hero was last asked for the direction of the held keys, unless a command was refused |

*Assumptions.* `QtClientAssumption`.

*Argument.* Between client and server are two queues, and the invariant `NumbersInOrder` is about both at once: commands on
their way to a match are in order and above the last one taken there; of the client's own match they are below its next number;
matches the client has not heard of have taken no command; and announcements on their way come in the order of the matches, all
of them later than the client's. When the client starts to count again, no command can be in front of it.

The other three invariants rest on this one. `InStep`: the handler's phase is never behind the client's, nor behind what the
answers on their way say of it (`Behind`), and every message on its way is valid in the phase of its sender (`Fits`). A message's
type alone decides which phases allow it (`ValidElsewhere`), so the only one that is valid where it was sent and not where it is read
is a second request for a match. `OversKnown`: a final snapshot on its way is about a match that is over, or about one that another
match has taken the place of, and so is every match announced in front of it (`Elsewhere`); what has started is over or ticks
(`Begun`). When at most one match ticks, the client's own is therefore the one that is over. `FollowsKeys`: what the controller counts as
sent is what the keys say (`Held`), and the last command on its way that steers asks for it, or none steers and
the match was already asked for it, unless a refusal or another match is on its way (`Led`). A command that is served
hands this over from the first disjunct to the second, or sends the refusal; that nothing but a refusal breaks it
is what the finding of `ClientStops` amounts to.

**`ConnectionProofs`**, of TCP, for any senders, payloads, limits, sizes of reads and pieces of writes:

| Theorem | Statement |
|---|---|
| `InductiveInvariant` | what is held, on its way and still to be written is the stream of the frames to come, with at most one begun |
| `TypeCorrect` | `[]TypeOK` |
| `DecoderAlwaysBounded` | `[]DecoderIsBounded` |
| `BytesNeverLost` | `[]NoByteIsLost` |
| `AlwaysAChannel` | `Spec => ImplementsChannel`: the connection implements `MessageChannel` |

*Assumptions.* `TcpAssumption`; among it that `MaxFrameBytes` fits into the `uint32_t` that it is.

*Argument.* The stream of a concatenation is the concatenation of the streams (induction over the frames). `DecodeOne`, one
turn of the decoder's loop, keeps "frames decoded, then what is held, then what is to come" equal to the stream: it takes a frame
exactly when the length in front of it is there, because `PeekLength` undoes `Uint32Be`. Each turn takes at least five
bytes, so the turns that `Feed` is given are enough, and what is left is less than a frame. For each action the invariant names the frames to
come; for the refinement a `Receive` is a delivery or a stutter.

**`ConnectionProofs`**, of WebSocket, for any frames a client may send, limits, timers and sizes of reads:

| Theorem | Statement |
|---|---|
| `WsInductiveInvariant` | what the decoder holds and what is on its way are the frames of the texts to come, then a frame that ends the connection if there is one; and the timers say no more than what happened (`WsInv`) |
| `AlwaysHeard` | `[]NobodyIsGivenUpUnheard`: who is given up as idle was asked, had the whole idle time, and nothing it sent since has arrived; who is given up for the handshake never authenticated; and no text is lost |
| `TextsNeverLost` | `[]NothingIsLost`, the last part of it: a decoder that asks for more bytes has left no whole text behind, and one that is closed met a frame that ends the connection, with every text before it delivered |
| `TextsAreAChannel` | `WsSpec => ImplementsTextChannel`: the connection implements `MessageChannel` |

*Assumptions.* `WebSocketAssumption` and `WebSocketSessionAssumption`: limits are naturals, a frame is bytes with a mask of four, its
payload fits the form its length is written in, and its text has a type. The frames may be of any size, in a form longer than
needed, with any reserved bits and opcodes, unmasked, fragmented or too long.

*Argument.* Three facts about one frame: a mask put on twice is no mask (`XorTable`, bit by bit); the two and the eight
bytes of a length are read back as it (`BigEndian` as a run of values, and the arithmetic of quotients by 256); and so `DecodeFrame`
says what the decoder makes of bytes that begin a frame, wherever they were cut: it asks for more, refuses the frame, or returns
its opcode, its payload and what follows, the first where it can be told. What is to come is said
with a least set, `Coming(rest)`: the pairs of bytes and texts that hold `rest` without a text, and with
a pair also what one more legal frame puts in front of it. It stands in for a function on sequences of frames, and leaves them out of
the state: a write puts the frame behind `rest` (`TextsToCome`), one turn of the decoder takes it off the front. `WsFeed` is a run of
such turns, which ends with the first text, or where no whole frame is left. The timers need `Unanswered`: while a ping is out,
nothing was delivered that was sent after it, the time since is what the adapter counts as idle, and once all that was written has
been read nothing was sent after it; for a read that found no text has left none in the decoder, and one that found a text ended the
wait.

**Only model-checked.** Liveness under fairness (`MatchEnds`, `MatchesEnd`, `EveryFrameArrives`, `SilentClientsAreLetGo`,
`WaitingEnds`), which is out of the prover's reach. Every invariant, action property and refinement that a passing run checks is
the statement of a theorem.

## 6. Findings

| Run | Code | Document |
|---|---|---|
| `EngineDeadCarrier` | A hazard that damages without dropping can defeat the carrier, who keeps the objective to the last tick (`BattleEngine.cpp:685`). The shipped lane mines are such hazards | `docs/game/OBJECTIVE_RULES.md:34-37`: the carrier drops it when defeated |
| `ServerStarved` | Matches advance only when a read times out or a command is accepted; while every client sends anything else in each interval, none does, and rate-limited clients do exactly that (`main.cpp:1157`) | `battle_server_app/README.md:27`: matches advance at `server.tickRate` |
| `ClientStops` | A stop is sent once; if the server refuses it as `RateLimited`, nothing sends it again and the hero walks on until the next key (`MovementInputController.cpp:53`). The shipped configuration takes one command per tick, and a tapped key gives two | `docs/agent-tasks/0049-desktop-movement-reliability.md:84` and `:45`: stop is sent on key release; allow retry after rejection |

Seen while modelling, without a run of its own. The engine and the backend:

* A dash that ends in the own base does not score; only a later movement step in the base does
  (`BattleEngine.cpp:765`; `OBJECTIVE_RULES.md:58-61` says entering captures).
* Sessions and matches are never erased and closed ones count toward `maxSessions` and `maxMatches`
  (`BackendFoundation.cpp:414`; `TRANSPORT_ABSTRACTION.md:43` speaks of active sessions).
* A session closed by its own overflow or a failed send stays counted as active for ever
  (`BackendFoundation.cpp:366`).
* Both players may ask for a rematch of the same match, which starts two.
* Whether the answer to Create or Join was sent is ignored (`main.cpp:1232`, `:1254`). A player whose TCP send timed out is in the
  match without being told, or told of its join code, and is flushed the match's events; `untold` in `Server` marks it.

Configuration and scenario:

* `joinMatch` lets the engine's exception end the server (`BackendFoundation.cpp:588`) for a scenario that `--check-config` calls
  valid: the numbers are those of `OnlyTheEngineLooks`.
* A scenario's `tickRate` converts its milliseconds, the server's plays them; nobody compares the two
  (`ScenarioConfig.cpp:341`). Milliseconds that are negative or overflow become other times.
* Combat numbers are cut to their integer's width, so that 2^32 is read as 0.
* The phase of a crow is a 32-bit sum of seed, tick and index (`BattleEngine.cpp:821`). With a seed near 2^32, which the loader
  takes, it wraps during a match and the crow leaps, since 2^32 is no multiple of six; `RedPlaysTheSameGame` says when.
* The snapshot of a full arena can exceed the 60 KiB of a payload and is then sent without its contents.
* An `accept` that fails returns from the listener's loop with joinable threads, whose destructors end the process
  (`main.cpp:1678`).

Transports:

* A TCP reply that times out after part of its frame leaves the connection open with a torn stream, where the WebSocket
  sender closes (`TcpFrameCodec.cpp:452`); replies and flushes may also write into each other. `torn` in
  `TcpConnection` marks both, and the properties are about the time before.
* The TCP decoder's buffer holds twice `maxFrameBytes` (`main.cpp:1644`), which legal frames exceed when that
  is below 4099.
* Of several WebSocket messages in one read all but the first stay in the decoder until more bytes come
  (`WebSocketSession.cpp:797`; `PROTOCOL.md:61`, `TRANSPORT_ABSTRACTION.md:90`).
* WebSocket sessions are made with default limits, so configured timeouts do not reach them (`main.cpp:1452`).

The desktop client:

* The display name is cut at 64 characters and validated at 64 bytes, so a longer name in UTF-8 is never sent and the
  client waits for the handshake's timeout (`NetworkClient.cpp:178`).
* Snapshots are not told apart by match: after two rematches of one match, the one that is over enables the
  button for the one that is played (`MainWindow.cpp:293`).
* Create and Join stay enabled until the answer comes; a second request is refused, and any error of the server, also
  one after which the server goes on, ends the connection (`MainWindow.cpp:317`).
* Disconnecting while connecting leaves the client shown as disconnecting if the connection then fails.

## 7. Not modelled

* Diagonal movement: the code normalises it to an irrational step. Axis-parallel movement is exact.
* JSON text and wording (`Protocol` has the fields and their checks, not the parsing and formatting); metrics other than the
  counts of sessions; the byte limit of an outbound queue, which acts as its message limit does.
* The data race on a connection's socket handle between a handler and a flush that closes it.
* How long a send holds the mutex: a step of `Server` is atomic and delays show as lag. A reply that gives up half way is sent
  or not in `Server`; the torn frame it leaves is in `TcpConnection`.
* Listening, connecting, resolving and the HTTP upgrade, which are calls of the operating system and text; the sending side
  of WebSocket, which writes one frame under a mutex and closes on failure.
* The CLI client, which follows a script and waits for each answer; the mini app, TypeScript that repeats the desktop client;
  drawing, tools, scripts and deployment, vendored code.

## 8. Plan

Done: the engine, geometry and arena; the loader and the start; sessions and matches; the server; the envelope's validation;
both transports' streams and the WebSocket handler's timers; the desktop client. Proved: every safety property of the runs.
What could follow:

1. The sending side of WebSocket with its two writers, and the two writers of a connection in `Server`.
2. `ObjectiveRun`, an abstract specification (who has the objective, who has how many points) that
   `BattleEngine` implements, first checked and then proved.
3. The mini app's reconnect.
