CONSTANTS
  Conn = {c1, c2}
  MaxConcurrent = 1
  MaxRequests = 2
SPECIFICATION Spec
INVARIANT GaugeIsExact
