SPECIFICATION MCSpec
CONSTANTS
  Strays <- strays
  RUNS = 3
  ABSENT = absent
  TORN = torn
  torn = torn
  DEATHS = 1
CHECK_DEADLOCK FALSE
INVARIANTS GreenIsFresh MadeInOrder ShapesAsNamed ChecksumVerifies SectionsFound NamedDefect ManifestNotAhead
