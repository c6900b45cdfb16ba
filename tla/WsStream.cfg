CONSTANTS
  ClientFrames <- MCFrames
  TypeOf <- MCTypeOf
  MaxMessageBytes = 5
  ReceiveBytes = 16
  MaxSent = 2
  HandshakeTimeout = 2
  IdleTimeout = 1
SPECIFICATION WsFairSpec
INVARIANT NobodyIsGivenUpUnheard
PROPERTIES ImplementsTextChannel SilentClientsAreLetGo
CHECK_DEADLOCK FALSE
