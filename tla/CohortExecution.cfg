SPECIFICATION Spec
CONSTANTS
  s1 = s1
  s2 = s2
  e1 = e1
  e2 = e2
  Solution <- MCSolution
  Execution <- MCExecution
  NoSolution = NoSolution
  NoExecution = NoExecution
  Pod = {p1, p2}
  NoPod = NoPod
  Label <- MCLabel
  ExecOf <- MCExecOf
  Estimate <- MCEstimate
  Authorized = 3
  IdleEstimate = 1
  HourlyRate = 1
  StartAttempts = 2
  MaxTicks = 3
  MaxLaunches = 2
  MaxTries <- MCMaxTries
SYMMETRY PodSymmetry
CHECK_DEADLOCK FALSE
INVARIANTS
  TypeOK
  PodAccounted
  NoStrayPod
  OneLivePod
  HeldWhileRented
  BetweenCandidates
  ChargedIsBilled
  AbandonedChargedOnce
  LeakHeldAtExit
PROPERTIES
  NoRentWhenOverspent
  ImplementsCustody
