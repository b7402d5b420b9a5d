CONSTANTS
  Callers = {c1, c2}
  Kinds <- MCKinds
  MaxCalls = 4
  MaxFaults = 1
SPECIFICATION Spec
SYMMETRY CallerSymmetry
INVARIANTS TunnelsLead NoneStray
PROPERTIES KeepsTrait
CHECK_DEADLOCK FALSE
