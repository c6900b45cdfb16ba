------------------------------- MODULE Server -------------------------------
(***************************************************************************)
(* The running server (src/battle_server_app/main.cpp): one thread for     *)
(* each connection, which reads a message or times out and then does, under*)
(* the one mutex, everything the message asks for.  There is no thread for *)
(* the matches: a handler whose read timed out, or that took a command,    *)
(* ticks whatever matches are due.                                         *)
(*                                                                         *)
(* Time is counted in tick intervals.  The TCP and the WebSocket handler   *)
(* are the same in all that is modelled here.  What is sent past the       *)
(* outbound queue (acknowledgements, errors, pings) is left out, but for   *)
(* the message that a player has joined; nobody looks whether it was.      *)
(***************************************************************************)
EXTENDS BackendState

CONSTANTS
  Seqs,            \* the sequence numbers a client may use
  Commanders,      \* bound of this model: the connections that send commands
  Slow,            \* bound of this model: the connections whose transport may take no more
  SnapshotEvery,   \* the interval between snapshots, in ticks
  CatchUp,         \* ticks made up for at once: 4
  MaxLag           \* bound of this model: a match later than this is as late as this

ASSUME ServerAssumption ==
  /\ Seqs \subseteq Nat
  /\ SnapshotEvery \in Nat \ {0} /\ CatchUp \in Nat \ {0}
  /\ MaxLag \in Nat /\ MaxLag > CatchUp + SnapshotEvery

VARIABLES
  b,          \* the backend
  phase,      \* of each handler: "Connected", "Authenticated", "InMatch" or "Ended"
  line,       \* of each connection: "Heard" from in this interval, not yet ("Quiet"), or
              \* "Silent" for a whole one, so that the read times out
  tickers,    \* of the matches that run: when they are due, counted from now
  age,        \* of each match, the intervals since it began (to MaxTicks)
  untold      \* history, which no guard reads: <<player, match>> where the transport gave up
              \* on the message that the player has joined
vars == <<b, phase, line, tickers, age, untold>>

TickerRecord == [match : MatchId, tickIn : Int, snapshotIn : Int]

Running(s) == phase[s] # "Ended"

Init ==
  /\ b = NoBackend
  /\ phase = <<>> /\ line = <<>> /\ tickers = <<>>
  /\ age = [m \in MatchId |-> 0]
  /\ untold = {}

----------------------------------------------------------------------------
(***************************************************************************)
(* Sending.                                                                *)
(***************************************************************************)

(***************************************************************************)
(* The handler sends a message itself, past the queue.  The transport may  *)
(* give it up, having sent none or a part of it, when its client does not  *)
(* read: a send that timed out does not close a TCP connection, and the    *)
(* handler goes on as if it had been sent.                                 *)
(***************************************************************************)
SendDirectly(backend, s, message, taken) ==
  IF taken /\ Open(backend, s)
  THEN [backend EXCEPT !.sessions[s].wire = Append(@, message)] ELSE backend

\* Whether the transport takes a message.
Takes(s) == IF s \in Slow THEN BOOLEAN ELSE {TRUE}

NowUntold(s, m, taken) == IF taken THEN untold ELSE untold \cup {<<s, m>>}

\* Each session's transport takes all of its queue or fails on the way.
Flushes(backend) ==
  {sent \in [DOMAIN backend.sessions -> 0 .. MaxPendingOutbound] :
     \A s \in DOMAIN sent : sent[s] <= Len(backend.sessions[s].queue)}

FlushAll(backend, sent) ==
  [backend EXCEPT !.sessions = [s \in DOMAIN @ |-> FlushOutbound(@[s], sent[s])]]

FlushedTo(backend) == \E sent \in Flushes(backend) : b' = FlushAll(backend, sent)

----------------------------------------------------------------------------
(***************************************************************************)
(* Matches that are due.                                                   *)
(***************************************************************************)
\* Mutant of Activated: a match is due when it begins, as its first tick has not been counted.
ActivatedDue(ticking, m) ==
  IF \E i \in DOMAIN ticking : ticking[i].match = m THEN ticking
  ELSE Append(ticking, [match |-> m, tickIn |-> 0, snapshotIn |-> SnapshotEvery])

Activated(ticking, m) ==
  IF \E i \in DOMAIN ticking : ticking[i].match = m THEN ticking
  ELSE Append(ticking, [match |-> m, tickIn |-> 1, snapshotIn |-> SnapshotEvery])

Deactivated(ticking, m) == Among(ticking, {ticker \in TickerRecord : ticker.match # m})

Due(ticker) ==
  IF ticker.tickIn > 0 THEN 0
  ELSE IF 1 - ticker.tickIn < CatchUp THEN 1 - ticker.tickIn ELSE CatchUp

\* The first snapshot after a tick, by whole intervals from the one that was due.
NextSnapshot(at, tickAt) ==
  IF tickAt < at THEN at ELSE at + SnapshotEvery * ((tickAt - at) \div SnapshotEvery + 1)

(***************************************************************************)
(* A match is ticked for each interval it is late; what is late still      *)
(* after that is given up.  Tick number over, if any, decides it.          *)
(***************************************************************************)
CaughtUp(backend, ticker, over) ==
  LET done[k \in 0 .. Due(ticker)] ==
        IF k = 0 THEN [backend |-> backend, snapshotIn |-> ticker.snapshotIn]
        ELSE LET before == done[k - 1]
                 tickAt == ticker.tickIn + k - 1
                 at     == before.snapshotIn
             IN  [backend |-> TickMatch(before.backend, ticker.match, k = over, tickAt >= at),
                  snapshotIn |-> NextSnapshot(at, tickAt)]
      last   == done[Due(ticker)]
      tickIn == ticker.tickIn + Due(ticker)
  IN  [backend |-> last.backend,
       ticker |->
         [ticker EXCEPT
            !.tickIn = IF tickIn <= 0 THEN 1 ELSE tickIn,
            !.snapshotIn = IF tickIn <= 0 /\ last.snapshotIn <= 0 THEN SnapshotEvery
                           ELSE last.snapshotIn]]

\* The tickers one after the other.
Advance(backend, ticking, over) ==
  LET done[i \in 0 .. Len(ticking)] ==
        IF i = 0 THEN [backend |-> backend, ticking |-> <<>>]
        ELSE LET before == done[i - 1]
                 caught == CaughtUp(before.backend, ticking[i], over[i])
             IN  [backend |-> caught.backend,
                  ticking |-> Append(before.ticking, caught.ticker)]
  IN  done[Len(ticking)]

AdvanceDue(backend) ==
  \E over \in [DOMAIN tickers -> 0 .. CatchUp] :
    LET advanced == Advance(backend, tickers, over)
    IN  /\ \A i \in DOMAIN over : over[i] <= Due(tickers[i])
        /\ tickers' = advanced.ticking
        /\ IF \E i \in DOMAIN tickers : Due(tickers[i]) > 0
           THEN FlushedTo(advanced.backend)
           ELSE b' = advanced.backend

----------------------------------------------------------------------------
(***************************************************************************)
(* The handlers.                                                           *)
(***************************************************************************)
Hears(s) == line' = [line EXCEPT ![s] = "Heard"]

Accept ==
  /\ MayCreateSession(b)
  /\ b' = CreateSession(b)
  /\ phase' = Append(phase, "Connected")
  /\ line' = Append(line, "Quiet")
  /\ UNCHANGED <<tickers, age, untold>>

Auth(s) ==
  /\ phase[s] = "Connected" /\ Open(b, s)
  /\ b' = Authenticate(b, s)
  /\ phase' = [phase EXCEPT ![s] = "Authenticated"]
  /\ Hears(s)
  /\ UNCHANGED <<tickers, age, untold>>

Create(s) ==
  /\ phase[s] = "Authenticated"
  /\ MayCreateMatch(b, s)
  /\ \E taken \in Takes(s) :
       /\ b' = SendDirectly(CreateMatch(b, s), s, Message("joined", Len(b.matches) + 1, 0), taken)
       /\ untold' = NowUntold(s, Len(b.matches) + 1, taken)
  /\ phase' = [phase EXCEPT ![s] = "InMatch"]
  /\ Hears(s)
  /\ UNCHANGED <<tickers, age>>

\* Mutant of Join: the player is told only after the first tick.
JoinThenTell(s, m) ==
  /\ phase[s] = "Authenticated"
  /\ MayJoinMatch(b, s, m)
  /\ \E over \in BOOLEAN, taken \in Takes(s) :
       LET ticked == TickMatch(JoinMatch(b, s, m), m, over, TRUE)
       IN  /\ \E sent \in Flushes(ticked) :
                b' = SendDirectly(FlushAll(ticked, sent), s, Message("joined", m, 0), taken)
           /\ untold' = NowUntold(s, m, taken)
  /\ phase' = [phase EXCEPT ![s] = "InMatch"]
  /\ tickers' = Activated(tickers, m)
  /\ Hears(s)
  /\ UNCHANGED age

Join(s, m) ==
  /\ phase[s] = "Authenticated"
  /\ MayJoinMatch(b, s, m)
  /\ \E over \in BOOLEAN, taken \in Takes(s) :
       LET joined == SendDirectly(JoinMatch(b, s, m), s, Message("joined", m, 0), taken)
       IN  /\ FlushedTo(TickMatch(joined, m, over, TRUE))
           /\ untold' = NowUntold(s, m, taken)
  /\ phase' = [phase EXCEPT ![s] = "InMatch"]
  /\ tickers' = Activated(tickers, m)
  /\ Hears(s)
  /\ UNCHANGED age

\* Mutant of StartNext: the new match is deactivated in place of the old one.
StartNextStopped(s, m) ==
  /\ phase[s] = "InMatch"
  /\ MayStartNextMatch(b, s, m)
  /\ \E over \in BOOLEAN :
       FlushedTo(TickMatch(StartNextMatch(b, m), Len(b.matches) + 1, over, TRUE))
  /\ tickers' = Deactivated(Activated(tickers, Len(b.matches) + 1), Len(b.matches) + 1)
  /\ Hears(s)
  /\ UNCHANGED <<phase, age, untold>>

StartNext(s, m) ==
  /\ phase[s] = "InMatch"
  /\ MayStartNextMatch(b, s, m)
  /\ \E over \in BOOLEAN :
       FlushedTo(TickMatch(StartNextMatch(b, m), Len(b.matches) + 1, over, TRUE))
  /\ tickers' = Activated(Deactivated(tickers, m), Len(b.matches) + 1)
  /\ Hears(s)
  /\ UNCHANGED <<phase, age, untold>>

\* A command that is taken lets time catch up with the matches.
Input(s, m, seq) ==
  /\ phase[s] = "InMatch" /\ s \in Commanders
  /\ MaySubmitCommand(b, s, m, seq)
  /\ AdvanceDue(SubmitCommand(b, s, m, seq))
  /\ Hears(s)
  /\ UNCHANGED <<phase, age, untold>>

\* A ping, a pong, or a request that is rejected.
Chat(s) ==
  /\ Running(s)
  /\ Hears(s)
  /\ UNCHANGED <<b, phase, tickers, age, untold>>

\* Mutant of TimedOut: matches are ticked for commands only.
TimedOutIdly(s) ==
  /\ Running(s) /\ line[s] = "Silent"
  /\ line' = [line EXCEPT ![s] = "Quiet"]
  /\ UNCHANGED <<b, phase, tickers, age, untold>>

TimedOut(s) ==
  /\ Running(s) /\ line[s] = "Silent"
  /\ line' = [line EXCEPT ![s] = "Quiet"]
  /\ UNCHANGED <<phase, age, untold>>
  /\ AdvanceDue(b)

\* Mutant of End: the backend is not told.
EndUntold(s) ==
  /\ Running(s)
  /\ phase' = [phase EXCEPT ![s] = "Ended"]
  /\ line' = [line EXCEPT ![s] = "Quiet"]
  /\ UNCHANGED <<b, tickers, age, untold>>

(***************************************************************************)
(* The client closed, broke a rule or was silent for too long, or another  *)
(* handler closed the connection under this one.                           *)
(***************************************************************************)
End(s) ==
  /\ Running(s)
  /\ b' = Disconnect(b, s)
  /\ phase' = [phase EXCEPT ![s] = "Ended"]
  /\ line' = [line EXCEPT ![s] = "Quiet"]
  /\ UNCHANGED <<tickers, age, untold>>

Later(ticker) ==
  IF ticker.tickIn = -MaxLag THEN ticker
  ELSE [ticker EXCEPT !.tickIn = @ - 1, !.snapshotIn = @ - 1]

Elapse ==
  /\ line' = [s \in DOMAIN line |->
                CASE phase[s] = "Ended" -> line[s]
                  [] line[s] = "Heard"  -> "Quiet"
                  [] OTHER              -> "Silent"]
  /\ tickers' = [i \in DOMAIN tickers |-> Later(tickers[i])]
  /\ age' = [m \in MatchId |->
               IF m \in DOMAIN b.matches /\ b.matches[m].started /\ age[m] < MaxTicks
               THEN age[m] + 1 ELSE age[m]]
  /\ UNCHANGED <<b, phase, untold>>

Serve(s) ==
  \/ Auth(s) \/ Create(s) \/ Chat(s) \/ End(s) \/ TimedOut(s)
  \/ \E m \in DOMAIN b.matches :
       \/ Join(s, m) \/ StartNext(s, m)
       \/ \E seq \in Seqs : Input(s, m, seq)

Next == Accept \/ Elapse \/ \E s \in DOMAIN phase : Serve(s)

Spec == Init /\ [][Next]_vars

(***************************************************************************)
(* Time passes, and a handler whose read times out again and again gets    *)
(* the mutex: strong fairness of TimedOut(s), written out with its enabling*)
(* condition and with what sets its steps apart, which TLC evaluates       *)
(* faster.  No client need ever send anything.                             *)
(***************************************************************************)
Waits(s) == s \in DOMAIN phase /\ Running(s) /\ line[s] = "Silent"
Wakes(s) == Waits(s) /\ line'[s] = "Quiet" /\ phase'[s] = phase[s]

FairSpec ==
  /\ Spec
  /\ WF_vars(Elapse)
  /\ \A s \in SessionId : []<>Waits(s) => []<><<Wakes(s)>>_vars

----------------------------------------------------------------------------
(***************************************************************************)
(* Types.                                                                  *)
(***************************************************************************)
TypeOK ==
  /\ b \in BackendRecord
  /\ phase \in Seq({"Connected", "Authenticated", "InMatch", "Ended"})
  /\ line \in Seq({"Heard", "Quiet", "Silent"})
  /\ Len(phase) = Len(b.sessions) /\ Len(line) = Len(b.sessions)
  /\ tickers \in Seq(TickerRecord)
  /\ age \in [MatchId -> 0 .. MaxTicks]
  /\ untold \subseteq SessionId \X MatchId

(***************************************************************************)
(* A player is told that it is in a match before anything else of it, also *)
(* when it created the match, when the other asked for the rematch, and    *)
(* when the message went past its queue (Create, Join and StartNext send   *)
(* before they tick).  The one exception: a player whose own create or     *)
(* join was answered when its transport took nothing more may be sent the  *)
(* match's events all the same, but no other player and no rematch.        *)
(***************************************************************************)
EveryMatchIsAnnouncedFirst ==
  \A s \in DOMAIN b.sessions :
    LET told == b.sessions[s].wire \o b.sessions[s].queue
    IN  \A i \in DOMAIN told :
          (told[i].kind # "joined" /\ <<s, told[i].match>> \notin untold)
            => \E j \in 1 .. i - 1 : told[j] = Message("joined", told[i].match, 0)

(***************************************************************************)
(* The handler's idea of its client and the backend's agree: a client is   *)
(* in the phase of a match exactly when it is a player of one, and a       *)
(* handler that has ended leaves no open session behind.                   *)
(***************************************************************************)
PhasesAgree ==
  \A s \in DOMAIN phase :
    /\ phase[s] = "InMatch" => InAnyMatch(b, s)
    /\ phase[s] \in {"Connected", "Authenticated"} => ~InAnyMatch(b, s)
    /\ phase[s] = "Ended" => ~Open(b, s)
    /\ (phase[s] \in {"Authenticated", "InMatch"} /\ Open(b, s)) => HasPlayer(b, s)

(***************************************************************************)
(* A match that has begun and is not over is ticked by exactly one ticker, *)
(* and no match by two: neither a rematch nor the end of another match     *)
(* takes a running match's clock away (activate, deactivate).              *)
(***************************************************************************)
RunningMatchHasItsTicker ==
  /\ \A i, j \in DOMAIN tickers : i # j => tickers[i].match # tickers[j].match
  /\ \A m \in DOMAIN b.matches :
       b.matches[m].started /\ ~b.matches[m].finished
         => \E i \in DOMAIN tickers : tickers[i].match = m

(***************************************************************************)
(* However many handlers tick the matches, and however late, a match never *)
(* gets ahead of the clock: one tick when it begins and at most one for    *)
(* each interval since (advanceDueTcpMatches).                             *)
(***************************************************************************)
NeverAheadOfTheClock ==
  \A m \in DOMAIN b.matches : b.matches[m].tick <= age[m] + 1

SomebodyIsSilent == \E s \in DOMAIN line : line[s] = "Silent"
Begun(m) == m \in DOMAIN b.matches /\ b.matches[m].started
Over(m) == m \in DOMAIN b.matches /\ b.matches[m].finished

(***************************************************************************)
(* Every match that begins comes to its end if again and again some        *)
(* connected client, of whichever match, is silent for an interval: its    *)
(* handler's timed out read drives all matches.                            *)
(***************************************************************************)
MatchesEnd == []<>SomebodyIsSilent => \A m \in MatchId : Begun(m) ~> Over(m)

----------------------------------------------------------------------------
(***************************************************************************)
(* What the documentation says and the code does not do: while a client is *)
(* connected, every match that begins goes on at the tick rate, and so     *)
(* comes to its end.                                                       *)
(***************************************************************************)
SomebodyIsConnected == \E s \in DOMAIN phase : Running(s)

MatchesAdvanceAtTickRate ==
  []<>SomebodyIsConnected => \A m \in MatchId : Begun(m) ~> Over(m)
=============================================================================
