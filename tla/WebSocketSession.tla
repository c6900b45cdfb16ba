--------------------------- MODULE WebSocketSession ---------------------------
(***************************************************************************)
(* The handler of a WebSocket connection with its session adapter          *)
(* (handleWebSocketClient in src/battle_server_app/main.cpp and            *)
(* WebSocketSessionAdapter in src/battle_transport_ws): what it makes of   *)
(* the texts that WebSocketConnection.tla delivers, and when it gives a    *)
(* silent client up.                                                       *)
(*                                                                         *)
(* Time is counted in the intervals after which a read times out.  What    *)
(* the requests do is in Server.tla, whether they are well formed in       *)
(* Protocol.tla; here a text is of a type, or malformed.                   *)
(***************************************************************************)
EXTENDS WebSocketConnection

CONSTANTS
  TypeOf,             \* of each text a client may send, its message's type or "Malformed"
  HandshakeTimeout,   \* the adapter's own, whatever is configured
  IdleTimeout

ASSUME WebSocketSessionAssumption ==
  /\ \A frame \in ClientFrames : frame.first % 16 = Text => frame.payload \in DOMAIN TypeOf
  /\ HandshakeTimeout \in Nat \ {0} /\ IdleTimeout \in Nat \ {0}

Protocol == INSTANCE Protocol

VARIABLES
  adapter,     \* its phase, age, idle time and whether a ping is outstanding
  reason,      \* why the connection ended, or "None"
  asked        \* history: at the last ping, the texts sent before it and the time since
sessionVars == <<wsVars, adapter, reason, asked>>

WsInit ==
  /\ Opened
  /\ adapter = [phase |-> "Connected", age |-> 0, idle |-> 0, pingOutstanding |-> FALSE]
  /\ reason = "None"
  /\ asked = [before |-> 0, since |-> 0]

----------------------------------------------------------------------------
(***************************************************************************)
(* A text.                                                                 *)
(***************************************************************************)
Ended(why) == open' = FALSE /\ reason' = why
GoesOn == UNCHANGED <<open, reason>>

\* Mutant of Heard: only a pong answers a ping.
HeardOnlyPongs(type) ==
  [adapter EXCEPT !.idle = 0, !.pingOutstanding = @ /\ type # "Pong"]

\* receiveText, and markPongReceived after it.
Heard(type) == [adapter EXCEPT !.idle = 0, !.pingOutstanding = FALSE]

Handle(type) ==
  IF type = "Malformed" \/ ~Protocol!PhaseAllows(type, adapter.phase)
  THEN Ended("ProtocolError") /\ UNCHANGED adapter
  ELSE \/ /\ type = "AuthRequest"
          /\ adapter' = [Heard(type) EXCEPT !.phase = "Authenticated"] /\ GoesOn
       \/ type = "AuthRequest" /\ adapter' = Heard(type) /\ Ended("AuthFailed")
       \/ /\ type \in {"CreateMatch", "JoinMatch"}
          /\ adapter' = [Heard(type) EXCEPT !.phase = "InMatch"] /\ GoesOn
       \/ type # "AuthRequest" /\ adapter' = Heard(type) /\ GoesOn      \* also if it is rejected

ReadText ==
  \E n \in Receivable :
    LET read == Read(n)
    IN  /\ WsReceive(n)
        /\ IF HoldsText(read) THEN Handle(TypeOf[read.payload])
           ELSE /\ UNCHANGED adapter
                /\ IF KeepsReading(read) THEN GoesOn ELSE Ended("Closed")
        /\ UNCHANGED asked

----------------------------------------------------------------------------
(***************************************************************************)
(* A read that timed out.  (What is on the wire may be long on its way.)   *)
(***************************************************************************)
HandshakeIsLate == adapter.phase = "Connected" /\ adapter.age >= HandshakeTimeout
IsIdle == adapter.idle >= IdleTimeout

\* Mutant of SendPing: a ping is sent again and again.
SendPingAgain ==
  /\ ~HandshakeIsLate /\ IsIdle /\ ~adapter.pingOutstanding
  /\ adapter' = [adapter EXCEPT !.idle = 0]
  /\ asked' = [before |-> Len(sent), since |-> 0]
  /\ GoesOn

SendPing ==
  /\ ~HandshakeIsLate /\ IsIdle /\ ~adapter.pingOutstanding
  /\ adapter' = [adapter EXCEPT !.pingOutstanding = TRUE, !.idle = 0]
  /\ asked' = [before |-> Len(sent), since |-> 0]
  /\ GoesOn

CheckTimeout ==
  \/ HandshakeIsLate /\ Ended("HandshakeTimeout") /\ UNCHANGED <<adapter, asked>>
  \/ SendPing
  \/ /\ ~HandshakeIsLate /\ IsIdle /\ adapter.pingOutstanding
     /\ Ended("IdleTimeout") /\ UNCHANGED <<adapter, asked>>

TimedOut ==
  /\ open
  /\ CheckTimeout
  /\ UNCHANGED <<wire, buffer, closed, written, ended, sent, delivered>>

\* The connection fails, or is closed by another handler whose send to it failed.
Fails ==
  /\ Close
  /\ reason' = "Closed"
  /\ UNCHANGED <<adapter, asked>>

Later(time, limit) == IF time < limit THEN time + 1 ELSE time

Elapse ==
  /\ open
  /\ adapter' = [adapter EXCEPT !.age = Later(@, HandshakeTimeout), !.idle = Later(@, IdleTimeout)]
  /\ asked' = [asked EXCEPT !.since = Later(@, IdleTimeout)]
  /\ UNCHANGED <<wsVars, reason>>

Send ==
  /\ \E frame \in ClientFrames : ClientSends(frame)
  /\ UNCHANGED <<adapter, reason, asked>>

WsNext == ReadText \/ TimedOut \/ Fails \/ Elapse \/ Send

WsSpec == WsInit /\ [][WsNext]_sessionVars

(***************************************************************************)
(* Time passes, the handler reads whenever there is something to read, and *)
(* the pieces of the bounded number of frames do not keep every read from  *)
(* timing out for ever.  Nothing is asked of the client.                   *)
(***************************************************************************)
WsFairSpec == WsSpec /\ WF_sessionVars(Elapse) /\ WF_sessionVars(ReadText) /\ WF_sessionVars(TimedOut)

----------------------------------------------------------------------------
(***************************************************************************)
(* Nobody is given up unheard.  A client that is closed as idle was asked  *)
(* first, had the whole idle time to answer, and did not: every text of    *)
(* its that has arrived since, whichever and also behind a text that was   *)
(* left in the decoder, would have kept it.  One that is closed for its    *)
(* handshake never authenticated.  And no text is lost on the way, also of *)
(* a client whose last frame ends the connection (receiveText,             *)
(* checkTimeout, readText).                                                *)
(***************************************************************************)
NobodyIsGivenUpUnheard ==
  /\ reason = "IdleTimeout"
       => /\ asked.since = IdleTimeout
          /\ wire = <<>> => Len(sent) = asked.before
  /\ reason = "HandshakeTimeout" => adapter.phase = "Connected"
  /\ NothingIsLost

(***************************************************************************)
(* A client that falls silent, after however many frames and in the middle *)
(* of whatever, is let go in the end (checkTimeout after a read).          *)
(***************************************************************************)
SilentClientsAreLetGo ==
  \A n \in 0 .. MaxSent : written = n ~> (written # n \/ ~open)
=============================================================================
