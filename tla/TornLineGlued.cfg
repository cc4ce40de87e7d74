SPECIFICATION Spec
CONSTANTS
  stager = stager
  probe = probe
  Owner <- MCOwner
  Recon = Recon
  Pod = {p1, p2}
  NoPod = NoPod
  None = None
  Estimate = 2
  WaitCost = 1
  Authorized = 5
  MaxTicks = 1
  MaxStarts = 2
  MaxHolds = 2
  MaxTears = 1
SYMMETRY Symmetry
CHECK_DEADLOCK FALSE
INVARIANT
  StartReadsWhatWasAppended
