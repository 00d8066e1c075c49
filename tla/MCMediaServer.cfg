SPECIFICATION ServerSpec
CONSTANTS
  Readers = {r1, r2}
  Worker = Worker
  Buckets = 2
  Size = 3
  Chunk = 2
  Wrap = 8
  FirstTime = 6
  LastTime = 10
SYMMETRY Symmetry
INVARIANTS AgeRight MarkedIsRead
