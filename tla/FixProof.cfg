SPECIFICATION Spec
CONSTANTS
  Gpus <- MCGpus
  Catalog <- MCCatalog
  Hub <- MCHub
  Pinned <- MCPinned
  Rules <- MCRules
  Util = 90
  Estimate = 2
  CaseLists <- MCCaseLists
  Answers <- MCAnswers
  Logs <- MCLogs
  Planned <- MCPlanned
  Proposals <- MCProposals
  LostReads <- MCLostReads
  TaskCase = {"a", "b"}
  Accepts <- MCAccepts
  QualityFloor = 2
  MaxLaunches = 2
  MaxFaults = 1
INVARIANTS
  PromotionIsProven
  CauseRemoved
  ClassifierCharged
CHECK_DEADLOCK FALSE
