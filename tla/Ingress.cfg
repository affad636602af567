\* Two words, one other datagram and junk; three in a window.
SPECIFICATION IngressSpec
CONSTANTS
  Noise = {"noise"}
  Window = 3
  Limit = 3
  Repeat = 2
  Old = 3
  MaxSeen = 2
INVARIANTS
  FloodIsBounded
  BeliefCatchesUp
