------------------------- MODULE WebSocketConnection -------------------------
(***************************************************************************)
(* The receiving end of a WebSocket connection                             *)
(* (src/battle_transport_ws/WebSocketSession.cpp): masked client written,   *)
(* cut into pieces by the network, and the decoder that readText feeds.    *)
(* The browser that writes them is not code of this repository.            *)
(* WebSocketSession.tla adds the handler that calls readText.              *)
(*                                                                         *)
(* What TcpConnection.tla has under the same name begins with Ws here, so  *)
(* that the proofs may speak of both.                                      *)
(***************************************************************************)
EXTENDS ByteStream

CONSTANTS
  ClientFrames,       \* the frames a client may send: [first, flag, form, mask, payload]
  MaxMessageBytes

\* The number of bytes that follow the second byte says how long a payload can be.
FitsForm(size, form) ==
  CASE form = 0 -> size < 126
    [] form = 2 -> size \div 256 < 256
    [] form = 8 -> ((size \div 65536) \div 65536) \div 16777216 < 256

ASSUME WebSocketAssumption ==
  /\ MaxMessageBytes \in Nat /\ ReceiveBytes \in Nat \ {0} /\ MaxSent \in Nat
  /\ \A frame \in ClientFrames :
       /\ frame \in [first : Byte, flag : {0, 128}, form : {0, 2, 8},
                     mask : Seq(Byte), payload : Seq(Byte)]
       /\ Len(frame.mask) = 4
       /\ FitsForm(Len(frame.payload), frame.form)

Text == 1
CloseFrame == 8
PingFrame == 9
PongFrame == 10
Opcodes == {Text, CloseFrame, PingFrame, PongFrame}

VARIABLES
  closed,      \* the decoder is closed
  open,        \* the socket is valid
  written,     \* history: the number of frames written
  ended        \* history: one of them ends the connection
\* Sent are the texts written before that one.
wsVars == <<wire, buffer, closed, open, written, ended, sent, delivered>>

----------------------------------------------------------------------------
(***************************************************************************)
(* Frames.                                                                 *)
(***************************************************************************)
\* Bit by bit, in two halves of a byte.
XorTable ==
  [a \in 0 .. 15 |-> [b \in 0 .. 15 |->
     LET bit(unit) == unit * ((a \div unit + b \div unit) % 2)
     IN  bit(1) + bit(2) + bit(4) + bit(8)]]

Xor(a, b) == 16 * XorTable[a \div 16][b \div 16] + XorTable[a % 16][b % 16]

Masked(bytes, mask) == [i \in DOMAIN bytes |-> Xor(bytes[i], mask[((i - 1) % 4) + 1])]

BigEndian(bytes) ==
  LET upTo[i \in 0 .. Len(bytes)] == IF i = 0 THEN 0 ELSE upTo[i - 1] * 256 + bytes[i]
  IN  upTo[Len(bytes)]

(***************************************************************************)
(* What a client writes: first is the first byte (fin, the reserved bits   *)
(* and the opcode), flag the mask bit of the second, form the number of    *)
(* bytes that the length takes after it (0, 2 or 8).                       *)
(***************************************************************************)
LengthCode(size, form) == CASE form = 0 -> size [] form = 2 -> 126 [] form = 8 -> 127

Length(size, form) ==
  LET high == (size \div 65536) \div 65536
  IN  CASE form = 0 -> <<>>
        [] form = 2 -> <<size \div 256, size % 256>>
        [] form = 8 -> <<high \div 16777216, (high \div 65536) % 256, (high \div 256) % 256,
                         high % 256, (size \div 16777216) % 256, (size \div 65536) % 256,
                         (size \div 256) % 256, size % 256>>

Encode(frame) ==
  LET size == Len(frame.payload)
  IN  <<frame.first, frame.flag + LengthCode(size, frame.form)>> \o Length(size, frame.form)
        \o IF frame.flag = 0 THEN frame.payload
           ELSE frame.mask \o Masked(frame.payload, frame.mask)

(***************************************************************************)
(* tryDecode: "More" bytes are needed, the frame is "Bad", or it is read   *)
(* with its opcode and payload and the bytes after it are left.            *)
(***************************************************************************)
Outcome(status, opcode, payload, rest) ==
  [status |-> status, opcode |-> opcode, payload |-> payload, rest |-> rest]
More(bytes) == Outcome("More", 0, <<>>, bytes)
Bad == Outcome("Bad", 0, <<>>, <<>>)

LengthBytes(code) == CASE code = 126 -> 2 [] code = 127 -> 8 [] OTHER -> 0

\* Mutant of TryDecode: a message that is too long is skipped.
TryDecodeSkippingLong(bytes) ==
  IF Len(bytes) < 2 THEN More(bytes)
  ELSE IF bytes[1] < 128 \/ bytes[2] < 128 THEN Bad
  ELSE LET code   == bytes[2] - 128
           offset == 2 + LengthBytes(code)
           length == IF code < 126 THEN code ELSE BigEndian(SubSeq(bytes, 3, offset))
           end    == offset + 4 + length
       IN  IF Len(bytes) < offset \/ Len(bytes) < end THEN More(bytes)
           ELSE IF length > MaxMessageBytes THEN More(From(bytes, end + 1))
           ELSE IF bytes[1] % 16 \notin Opcodes THEN Bad
           ELSE Outcome("Frame", bytes[1] % 16,
                        Masked(SubSeq(bytes, offset + 5, end), SubSeq(bytes, offset + 1, offset + 4)),
                        From(bytes, end + 1))

TryDecode(bytes) ==
  IF Len(bytes) < 2 THEN More(bytes)
  ELSE IF bytes[1] < 128 \/ bytes[2] < 128 THEN Bad     \* a fragment, or not masked
  ELSE LET code   == bytes[2] - 128
           offset == 2 + LengthBytes(code)
           length == IF code < 126 THEN code ELSE BigEndian(SubSeq(bytes, 3, offset))
           end    == offset + 4 + length
       IN  IF Len(bytes) < offset THEN More(bytes)
           ELSE IF length > MaxMessageBytes THEN Bad
           ELSE IF Len(bytes) < end THEN More(bytes)
           ELSE IF bytes[1] % 16 \notin Opcodes THEN Bad
           ELSE Outcome("Frame", bytes[1] % 16,
                        Masked(SubSeq(bytes, offset + 5, end), SubSeq(bytes, offset + 1, offset + 4)),
                        From(bytes, end + 1))

Returned(outcome) == outcome.status = "Frame" /\ outcome.opcode \notin {PingFrame, PongFrame}

\* feed: pings and pongs are passed over, and the first other frame is the answer.
WsFeed(bytes) ==
  LET steps == Len(bytes) \div 6
      after[k \in 0 .. steps] ==
        IF k = 0 THEN TryDecode(bytes)
        ELSE LET before == after[k - 1]
             IN  IF before.status = "Frame" /\ ~Returned(before) THEN TryDecode(before.rest)
                 ELSE before
  IN  after[steps]

----------------------------------------------------------------------------
(***************************************************************************)
(* The connection.                                                         *)
(***************************************************************************)
Opened ==
  /\ wire = <<>> /\ buffer = <<>> /\ closed = FALSE /\ open = TRUE
  /\ written = 0 /\ ended = FALSE /\ sent = <<>> /\ delivered = <<>>

\* A frame that is a fragment, not masked, too long, of another kind, or that closes.
\* (Nothing is made of the reserved bits.)
Ends(frame) ==
  \/ frame.first < 128 \/ frame.first % 16 \notin {Text, PingFrame, PongFrame}
  \/ frame.flag = 0
  \/ Len(frame.payload) > MaxMessageBytes

\* The client (external).
ClientSends(frame) ==
  /\ written < MaxSent
  /\ written' = written + 1
  /\ wire' = wire \o Encode(frame)
  /\ ended' = (ended \/ Ends(frame))
  /\ sent' = IF frame.first % 16 = Text /\ ~ended' THEN Append(sent, frame.payload) ELSE sent
  /\ UNCHANGED <<buffer, closed, open, delivered>>

\* Mutant of Read: what follows a message in the same read is forgotten.
ReadForgetting(n) ==
  LET read == WsFeed(buffer \o SubSeq(wire, 1, n))
  IN  IF read.status = "Frame" THEN [read EXCEPT !.rest = <<>>] ELSE read

(***************************************************************************)
(* readText: one recv of n bytes and one feed; what feed leaves in the     *)
(* decoder waits for the next recv.                                        *)
(***************************************************************************)
Read(n) == WsFeed(buffer \o SubSeq(wire, 1, n))
HoldsText(read) == read.status = "Frame" /\ read.opcode = Text
KeepsReading(read) == read.status = "More"

WsReceive(n) ==
  LET read == Read(n)
  IN  /\ open
      /\ wire' = From(wire, n + 1)
      /\ buffer' = read.rest
      /\ closed' = ~(HoldsText(read) \/ KeepsReading(read))
      /\ delivered' = IF HoldsText(read) THEN Append(delivered, read.payload) ELSE delivered
      /\ UNCHANGED <<written, ended, sent>>

\* The stream has ended or failed, or the server closes the connection.
Close ==
  /\ open
  /\ open' = FALSE
  /\ UNCHANGED <<wire, buffer, closed, written, ended, sent, delivered>>

----------------------------------------------------------------------------
(***************************************************************************)
(* The connection is a channel of whole messages, delivered once and in    *)
(* order, unmasked, whatever form their lengths take and whatever control  *)
(* frames lie between them; nothing a client writes after a frame that     *)
(* ends the connection is delivered (feed with tryDecode, readText).       *)
(***************************************************************************)
TextChannel == INSTANCE MessageChannel WITH broken <- FALSE

ImplementsTextChannel == TextChannel!Spec

(***************************************************************************)
(* Nothing is lost.  Once all that was written has been received and the   *)
(* decoder needs more, every text was delivered, also one that came in the *)
(* same piece as another.  The decoder is closed only by a frame that ends *)
(* the connection, never by one that is only half there or as long as a    *)
(* message may be, and only after all texts before it (feed, readText).    *)
(***************************************************************************)
NothingIsLost ==
  /\ closed => ended /\ delivered = sent
  /\ (wire = <<>> /\ WsFeed(buffer).status = "More") => delivered = sent
=============================================================================
