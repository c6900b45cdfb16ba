CONSTANTS
  Senders = {"queue", "handler"}
  Payloads <- MCPayloads
  BadHeaders <- MCBadHeaders
  MaxFrameBytes = 2
  MaxBufferedBytes = 12
  ReceiveBytes = 7
  Pieces = {3}
  MaxSent = 2
SPECIFICATION FairSpec
INVARIANTS NoByteIsLost DecoderIsBounded
PROPERTIES ImplementsChannel EveryFrameArrives
CHECK_DEADLOCK FALSE
