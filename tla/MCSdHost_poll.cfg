CONSTANTS
  Requests <- MCBlocks
  MaxPolls = 1
SPECIFICATION Spec
INVARIANTS CallerIsThere
