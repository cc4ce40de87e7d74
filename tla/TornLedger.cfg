SPECIFICATION Spec
CONSTANTS
  stager = stager
  probe = probe
  Owner <- MCOwner
  Recon = Recon
  Pod = {p1}
  NoPod = NoPod
  None = None
  Estimate = 2
  WaitCost = 1
  Authorized = 5
  MaxTicks = 2
  MaxStarts = 3
  MaxHolds = 2
  MaxTears = 1
SYMMETRY Symmetry
CHECK_DEADLOCK FALSE
INVARIANTS
  SoleWriterAgrees
  SequentialReplays
