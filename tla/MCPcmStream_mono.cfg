CONSTANTS
  max_des0cnt = 4
  Units = 2
  Periods = 3
  Submits = 2
  MaxErrors = 0
SPECIFICATION Spec
INVARIANT AtMostTwo
