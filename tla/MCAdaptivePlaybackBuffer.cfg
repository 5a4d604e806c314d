SPECIFICATION Spec
CONSTANTS
  SeqMod = 5
  Capacity = 4
  Prebuffer = 2
  MaxLatency = 2
  MaxConceal = 1
  MaxStepGap = 2
  GapTimeout = 1
  TrimAfter = 1
  MaxSessions = 2
  MaxSent = 6
  Window = 5
INVARIANTS TypeOK BufferWindow FreshUntilPrimed BacklogIsTimed
PROPERTIES PlayedInOrder NoPacketStuck
