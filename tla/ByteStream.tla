----------------------------- MODULE ByteStream -----------------------------
(***************************************************************************)
(* What both kinds of connection have: a stream of bytes in one direction  *)
(* that is cut into pieces anywhere, a decoder at its receiving end, and   *)
(* what the two ends know of it.  TcpConnection.tla and                    *)
(* WebSocketConnection.tla say what is written and how it is decoded.      *)
(***************************************************************************)
EXTENDS Integers, Sequences

CONSTANTS
  ReceiveBytes,    \* the size of a receiver's buffer: 4096
  MaxSent          \* bound of this model: frames written

Byte == 0 .. 255

VARIABLES
  wire,        \* bytes written and not received
  buffer,      \* bytes the decoder holds
  sent,        \* history: the payloads of the messages sent, in order
  delivered    \* history: the payloads that the receiver returned

From(s, i) == SubSeq(s, i, Len(s))

\* The sizes of piece that one recv may give back.
Receivable == 1 .. (IF Len(wire) < ReceiveBytes THEN Len(wire) ELSE ReceiveBytes)
=============================================================================
