SPECIFICATION Spec
CONSTANTS
  stager = stager
  probe = probe
  Owner <- MCOwner
  Recon = Recon
  Pod = {p1, p2}
  NoPod = NoPod
  None = None
  Estimate = 2
  WaitCost = 0
  Authorized = 5
  MaxTicks = 1
  MaxStarts = 3
  MaxHolds = 2
  MaxTears = 0
SYMMETRY Symmetry
CHECK_DEADLOCK FALSE
INVARIANTS
  EachHoldChargedOnce
  ReconciledIsBilled
