SPECIFICATION Spec
CONSTANTS
  Capacity = 3
  FrameMod = 16
  PacketFrames = 2
  MaxWrite = 2
  MaxFrames = 7
  MaxLives = 2
INVARIANT OnlyLiveAudio
