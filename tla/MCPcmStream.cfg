CONSTANTS
  max_des0cnt = 4
  Units = 2
  Periods = 3
  Submits = 1
  MaxErrors = 2
SPECIFICATION Spec
INVARIANTS TypeOK AtMostTwo CountsCover EndIsLast NoStall
PROPERTIES InOrder KeepsPlaying
