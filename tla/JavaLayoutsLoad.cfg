SPECIFICATION Spec
CONSTANTS
  Added <- added
  Unrendered = {5}
  ABSENT = absent
  TORN = torn
INVARIANT JavaLayoutsLoad
