SPECIFICATION Spec
CONSTANTS
  s1 = s1
  s2 = s2
  s3 = s3
  s4 = s4
  s5 = s5
  c1 = c1
  c2 = c2
  Plans <- MCPlans
  RowOf <- MCRowOf
  QualityFloor = 100
  SuiteOf <- MCSuiteOf
  Unserved <- MCUnserved
  Checked = {s5}
  Planned = {s1, s2, s3, s5}
  Permitted = {s1, s2, s5}
  Chat = {s1, s5}
  Case = {c1, c2}
  Log = {l1}
  DeclaresServing = TRUE
  RepeatAllowed = TRUE
  Outcome = {"accepted", "failed"}
  SloVerdict = {"pass"}
  FailureKinds = {"interrupt"}
  Parts = 12
  MaxExecutions = 2
  MaxLaunches = 2
  MaxProtocol = 2
  MaxFaults = 1
CHECK_DEADLOCK FALSE
INVARIANTS
  TraceResolves
  MeasuredOnce
  CostsAddUp
  NothingFromLeakyPod
  EverySolutionAccounted
  SkippedIsMeasured
  LeakStopsRun
  EveryRecordShown
  RowAgreesWithVerdict
PROPERTIES
  RunEnds
  QualificationNeverFallsBack
