--------------------------- MODULE MessageChannel ---------------------------
(***************************************************************************)
(* What a connection promises: whole messages, each once, in the order     *)
(* they were sent, until the channel is broken.  TcpConnection and         *)
(* WebSocketConnection are shown to implement it.                          *)
(***************************************************************************)
EXTENDS Integers, Sequences

VARIABLES
  sent,        \* the messages sent
  delivered,   \* the messages the receiver was given
  broken       \* no promise holds any more
vars == <<sent, delivered, broken>>

Init == sent = <<>> /\ delivered = <<>> /\ broken = FALSE

Send ==
  /\ Len(sent') = Len(sent) + 1 /\ SubSeq(sent', 1, Len(sent)) = sent
  /\ UNCHANGED <<delivered, broken>>

Deliver ==
  /\ Len(delivered) < Len(sent)
  /\ delivered' = Append(delivered, sent[Len(delivered) + 1])
  /\ UNCHANGED <<sent, broken>>

\* A step may break the channel, and in a broken one anything may happen.
Break == broken' = TRUE

Next == Send \/ Deliver \/ Break

Spec == Init /\ [][Next]_vars
=============================================================================
