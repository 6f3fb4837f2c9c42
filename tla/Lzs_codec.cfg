SPECIFICATION Spec
CONSTANTS
  Codecs <- MCCodecs
  Packets <- MCPackets
  Frames <- MCFrames
INVARIANTS RoundTrip ChainSound BuffersHold MatchesOpenconnect
CHECK_DEADLOCK FALSE
