CONSTANTS
  p1 = p1
  p2 = p2
  baudrate = baudrate
  method = method
  short = short
  long = long
  Procs = {p1, p2}
  Names = {baudrate, method}
  Baudrate = baudrate
  Values = {short, long}
  Supported = {long}
  Unset = Unset
  Cut = Cut
  Unknown = Unknown
  EntryLen <- LengthOf
  ENV_MAX_SIZE = 21
  HeaderLen = 5
  Faults = {}
  MaxPermits = 2
SYMMETRY Callers
SPECIFICATION Spec
INVARIANTS StoredIsFound
