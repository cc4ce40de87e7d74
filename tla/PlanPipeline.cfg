CONSTANTS
    SafetyBuffer = 5000
    SparseWorkspace = 5000
    RadixWorkspace = 1000
    NonTorchBase <- MCNonTorch
    GraphBytes <- MCGraph
    Checkpoints <- MCCheckpoints
    Gpus <- MCGpus
    Versions <- MCVersions
    Engines <- MCEngines
    V3Context = 1024
    SeedCounts = {1, 2, 4}
    GivenPlans <- MCGivenPlans
SPECIFICATION Spec
INVARIANTS ReservationCoversLayers RankHoldsItsShare LoweredPlanHolds PlanBootsAsPredicted
