---------------------------- MODULE TcpConnection ----------------------------
(***************************************************************************)
(* One direction of a TCP connection                                       *)
(* (src/battle_transport_tcp/TcpFrameCodec.cpp): frames are written to the *)
(* byte stream in pieces, and read from it in pieces that have nothing to  *)
(* do with the frames.                                                     *)
(*                                                                         *)
(* On the server two threads write to a connection: whoever flushes the    *)
(* session's outbound queue ("queue", which TcpBackendOutbound's mutex     *)
(* makes one), and the connection's own handler, which sends replies past  *)
(* the queue and that mutex ("handler").  A client writes in one thread.   *)
(***************************************************************************)
EXTENDS ByteStream

CONSTANTS
  Senders,            \* {"queue", "handler"} or one of them
  Payloads,           \* the payloads that may be sent, sequences of bytes
  BadHeaders,         \* headers that a broken peer may write
  MaxFrameBytes, MaxBufferedBytes,
  Pieces              \* bound of this model: what a socket takes of a frame when it does not take all

ASSUME TcpAssumption ==
  /\ Senders \subseteq {"queue", "handler"}
  /\ MaxFrameBytes \in Nat \ {0}
  /\ MaxFrameBytes \div (256 * 256 * 256) < 256     \* it is a uint32_t
  /\ ReceiveBytes \in Nat \ {0} /\ MaxBufferedBytes \in Nat
  /\ Pieces \subseteq Nat \ {0} /\ MaxSent \in Nat
  /\ Payloads \subseteq Seq(Byte) /\ BadHeaders \subseteq Seq(Byte)

VARIABLES
  out,         \* of each sender: the frame it is writing and how much of it is written
  writable,    \* the sending end's socket is valid
  failed,      \* the decoder has met an error and stays closed
  pending,     \* frames decoded and not yet returned
  readable,    \* the receiving end's socket is valid
  torn         \* history: a frame in the stream was left unfinished or written into
\* A message counts as sent when its frame is begun.
vars == <<out, writable, wire, buffer, failed, pending, readable, sent, delivered, torn>>

senderVars == <<out, writable, sent>>
receiverVars == <<buffer, failed, pending, readable, delivered>>

----------------------------------------------------------------------------
(***************************************************************************)
(* Frames.                                                                 *)
(***************************************************************************)
Uint32Be(n) ==
  <<n \div (256 * 256 * 256), (n \div (256 * 256)) % 256, (n \div 256) % 256, n % 256>>

PeekLength(bytes) == ((bytes[1] * 256 + bytes[2]) * 256 + bytes[3]) * 256 + bytes[4]

Encodable(payload) == Len(payload) \in 1 .. MaxFrameBytes

EncodeFrame(payload) == Uint32Be(Len(payload)) \o payload

\* Mutant of DecodeOne: the frames of one read come out last first.
DecodeOneInFront(d) ==
  IF d.error \/ Len(d.buffer) < 4 THEN d
  ELSE LET length == PeekLength(d.buffer)
       IN  IF length \notin 1 .. MaxFrameBytes
           THEN [d EXCEPT !.error = TRUE, !.buffer = <<>>]
           ELSE IF Len(d.buffer) < 4 + length THEN d
           ELSE [d EXCEPT !.frames = <<SubSeq(d.buffer, 5, 4 + length)>> \o @,
                          !.buffer = From(@, 5 + length)]

\* Mutant of DecodeOne: a length is believed before it is checked.
DecodeOneBelieving(d) ==
  IF d.error \/ Len(d.buffer) < 4 THEN d
  ELSE LET length == PeekLength(d.buffer)
       IN  IF Len(d.buffer) < 4 + length THEN d
           ELSE IF length \notin 1 .. MaxFrameBytes
           THEN [d EXCEPT !.error = TRUE, !.buffer = <<>>]
           ELSE [d EXCEPT !.frames = Append(@, SubSeq(d.buffer, 5, 4 + length)),
                          !.buffer = From(@, 5 + length)]

DecodeOne(d) ==
  IF d.error \/ Len(d.buffer) < 4 THEN d
  ELSE LET length == PeekLength(d.buffer)
       IN  IF length \notin 1 .. MaxFrameBytes
           THEN [d EXCEPT !.error = TRUE, !.buffer = <<>>]
           ELSE IF Len(d.buffer) < 4 + length THEN d
           ELSE [d EXCEPT !.frames = Append(@, SubSeq(d.buffer, 5, 4 + length)),
                          !.buffer = From(@, 5 + length)]

\* All frames the buffer and a read hold, and what is left; a frame is at least five bytes.
Feed(held, bytes) ==
  IF Len(held) + Len(bytes) > MaxBufferedBytes
  THEN [buffer |-> <<>>, frames |-> <<>>, error |-> TRUE]
  ELSE LET whole == held \o bytes
           steps == Len(whole) \div 5 + 1
           done[k \in 0 .. steps] ==
             IF k = 0 THEN [buffer |-> whole, frames |-> <<>>, error |-> FALSE]
             ELSE DecodeOne(done[k - 1])
       IN  done[steps]

----------------------------------------------------------------------------
(***************************************************************************)
(* The sending end.                                                        *)
(***************************************************************************)
Idle == [frame |-> <<>>, done |-> 0]
Busy(t) == out[t] # Idle
Begun(t) == out[t].done > 0

Init ==
  /\ out = [t \in Senders |-> Idle] /\ writable = TRUE
  /\ wire = <<>> /\ buffer = <<>> /\ failed = FALSE /\ pending = <<>> /\ readable = TRUE
  /\ sent = <<>> /\ delivered = <<>> /\ torn = FALSE

SendFrame(t, payload) ==
  /\ writable /\ ~Busy(t)
  /\ Encodable(payload) /\ Len(sent) < MaxSent
  /\ out' = [out EXCEPT ![t] = [frame |-> EncodeFrame(payload), done |-> 0]]
  /\ UNCHANGED <<writable, wire, sent, torn, receiverVars>>

\* Mutant of Write: a frame is kept when it is all written.
WriteAndKeep(t, n) ==
  LET frame == out[t].frame
      done  == out[t].done + n
  IN  /\ writable /\ Busy(t) /\ done <= Len(frame)
      /\ wire' = wire \o SubSeq(frame, out[t].done + 1, done)
      /\ out' = [out EXCEPT ![t].done = done]
      /\ sent' = IF Begun(t) THEN sent ELSE Append(sent, From(frame, 5))
      /\ torn' = (torn \/ \E other \in Senders \ {t} : Begun(other))
      /\ UNCHANGED <<writable, receiverVars>>

\* The socket takes n more bytes of a frame.
Write(t, n) ==
  LET frame == out[t].frame
      done  == out[t].done + n
  IN  /\ writable /\ Busy(t) /\ done <= Len(frame)
      /\ wire' = wire \o SubSeq(frame, out[t].done + 1, done)
      /\ out' = [out EXCEPT ![t] = IF done = Len(frame) THEN Idle ELSE [@ EXCEPT !.done = done]]
      /\ sent' = IF Begun(t) THEN sent ELSE Append(sent, From(frame, 5))
      /\ torn' = (torn \/ \E other \in Senders \ {t} : Begun(other))
      /\ UNCHANGED <<writable, receiverVars>>

(***************************************************************************)
(* The socket takes nothing more for too long.  A flush that fails closes  *)
(* its session and the connection with it; the handler does not look at    *)
(* the result of what it sends.                                            *)
(***************************************************************************)
\* Mutant of SendTimesOut: a flush that fails leaves the connection open, too.
SendTimesOutSilently(t) ==
  /\ Busy(t)
  /\ out' = [out EXCEPT ![t] = Idle]
  /\ torn' = (torn \/ (t = "handler" /\ Begun(t)))
  /\ UNCHANGED <<writable, wire, sent, receiverVars>>

SendTimesOut(t) ==
  /\ Busy(t)
  /\ out' = [out EXCEPT ![t] = Idle]
  /\ writable' = (writable /\ t = "handler")
  /\ torn' = (torn \/ (t = "handler" /\ Begun(t)))
  /\ UNCHANGED <<wire, sent, receiverVars>>

\* The socket fails, or another thread has closed it.
SendFails(t) ==
  /\ Busy(t)
  /\ out' = [out EXCEPT ![t] = Idle]
  /\ writable' = FALSE
  /\ UNCHANGED <<wire, sent, torn, receiverVars>>

\* A peer that does not keep to the frames (not code of this repository).
Misframe(header) ==
  /\ writable /\ ~torn    \* bound: once
  /\ wire' = wire \o header
  /\ torn' = TRUE
  /\ UNCHANGED <<senderVars, receiverVars>>

----------------------------------------------------------------------------
(***************************************************************************)
(* The receiving end: readFrame.                                           *)
(***************************************************************************)
\* Mutant of Receive: of the frames of one read only the first is kept.
ReceiveFirst(n) ==
  LET fed == Feed(buffer, SubSeq(wire, 1, n))
  IN  /\ readable /\ pending = <<>>
      /\ wire' = From(wire, n + 1)
      /\ buffer' = fed.buffer
      /\ failed' = fed.error
      /\ readable' = ~fed.error
      /\ IF fed.error \/ fed.frames = <<>> THEN UNCHANGED delivered
         ELSE delivered' = Append(delivered, Head(fed.frames))
      /\ UNCHANGED <<pending, senderVars, torn>>

Receive(n) ==
  LET fed == Feed(buffer, SubSeq(wire, 1, n))
  IN  /\ readable /\ pending = <<>>
      /\ wire' = From(wire, n + 1)
      /\ buffer' = fed.buffer
      /\ failed' = fed.error
      /\ readable' = ~fed.error
      /\ IF fed.error \/ fed.frames = <<>> THEN UNCHANGED <<pending, delivered>>
         ELSE /\ delivered' = Append(delivered, Head(fed.frames))
              /\ pending' = Tail(fed.frames)
      /\ UNCHANGED <<senderVars, torn>>

ReturnPending ==
  /\ pending # <<>>
  /\ delivered' = Append(delivered, Head(pending))
  /\ pending' = Tail(pending)
  /\ UNCHANGED <<buffer, failed, readable, senderVars, wire, torn>>

\* The stream has ended or failed, or the owner closes its end.
CloseReceiver ==
  /\ readable
  /\ readable' = FALSE
  /\ UNCHANGED <<buffer, failed, pending, delivered, senderVars, wire, torn>>

ReceiveSome == \E n \in Receivable : Receive(n)
WriteSome(t) == \E n \in Pieces \cup {Len(out[t].frame) - out[t].done} : Write(t, n)

Next ==
  \/ \E t \in Senders :
       \/ \E payload \in Payloads : SendFrame(t, payload)
       \/ WriteSome(t) \/ SendTimesOut(t) \/ SendFails(t)
  \/ \E header \in BadHeaders : Misframe(header)
  \/ ReceiveSome \/ ReturnPending \/ CloseReceiver

Spec == Init /\ [][Next]_vars

(***************************************************************************)
(* A receiver reads whenever there is something to read, and so a sender's *)
(* socket takes bytes again.                                               *)
(***************************************************************************)
FairSpec ==
  /\ Spec
  /\ WF_vars(ReceiveSome) /\ WF_vars(ReturnPending)
  /\ \A t \in Senders : WF_vars(WriteSome(t))

----------------------------------------------------------------------------
(***************************************************************************)
(* Types.                                                                  *)
(***************************************************************************)
TypeOK ==
  /\ out \in [Senders -> [frame : Seq(Byte), done : Nat]]
  /\ \A t \in Senders : Busy(t) => out[t].done < Len(out[t].frame)
  /\ writable \in BOOLEAN /\ failed \in BOOLEAN /\ readable \in BOOLEAN /\ torn \in BOOLEAN
  /\ wire \in Seq(Byte) /\ buffer \in Seq(Byte)
  /\ pending \in Seq(Seq(Byte)) /\ sent \in Seq(Seq(Byte)) /\ delivered \in Seq(Seq(Byte))

\* The stream that a sequence of payloads makes.
Stream(payloads) ==
  LET upTo[i \in 0 .. Len(payloads)] ==
        IF i = 0 THEN <<>> ELSE upTo[i - 1] \o EncodeFrame(payloads[i])
  IN  upTo[Len(payloads)]

(***************************************************************************)
(* No byte is lost, doubled or moved between the two ends, whatever pieces *)
(* it travels in: what was returned, decoded, buffered and is on its way   *)
(* makes up the stream of the frames sent; all of it, when no frame is     *)
(* under way, and a part of it from the start, in any case.  Not so once a *)
(* frame is torn: by a handler's send that timed out halfway, by two       *)
(* threads that write at once, or by a peer (sendFrame, feed, readFrame).  *)
(***************************************************************************)
NoByteIsLost ==
  LET here == Stream(delivered \o pending) \o buffer \o wire
      all  == Stream(sent)
  IN  (readable /\ ~torn)
        => /\ here = SubSeq(all, 1, Len(here))
           /\ (writable /\ \A t \in Senders : ~Begun(t)) => here = all

(***************************************************************************)
(* Whatever a peer writes, the decoder holds less than one frame of the    *)
(* largest size between two reads.  It fails on a stream of legal frames   *)
(* only if its limit is too small for that and one more read, as it is     *)
(* when the server is configured with frames of less than 4099 bytes.      *)
(* Once it has failed, it holds and returns nothing, and the connection is *)
(* closed (feed, fail).                                                    *)
(***************************************************************************)
DecoderIsBounded ==
  /\ Len(buffer) < 4 + MaxFrameBytes
  /\ (failed /\ ~torn) => MaxBufferedBytes < 3 + MaxFrameBytes + ReceiveBytes
  /\ failed => buffer = <<>> /\ pending = <<>> /\ ~readable

(***************************************************************************)
(* The connection is a channel of whole messages, delivered once and in    *)
(* order, until a frame is torn (sendFrame with readFrame).                *)
(***************************************************************************)
Channel == INSTANCE MessageChannel WITH broken <- torn

ImplementsChannel == Channel!Spec

(***************************************************************************)
(* A frame that is sent arrives as long as both ends stay open and no      *)
(* frame is torn, however it is cut into pieces: no decoded frame is left  *)
(* waiting for the next read (readFrame, _pendingFrames).                  *)
(***************************************************************************)
EveryFrameArrives ==
  \A n \in 1 .. MaxSent :
    Len(sent) >= n ~> (Len(delivered) >= n \/ torn \/ ~readable \/ ~writable)
=============================================================================
