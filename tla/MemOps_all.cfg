SPECIFICATION Spec
CONSTANTS
  Builds = {"none", "sse", "avx"}
  Addresses = {0, 64, 65, 72, 79, 80, 95, 96, 97, 112}
  Sizes = {0, 1, 9, 15, 16, 17, 31, 32, 33, 47, 48, 63, 65, 80, 97}
  USIZE = 256
  INT_MAX = 63
INVARIANTS
  TypeOK
  WrittenInOrder
  StaysInside
  CopiesAll
  FaultNeedsSkew
PROPERTY
  CallEnds
