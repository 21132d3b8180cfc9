CONSTANTS
    Branch = {main, pr}
    MainBranch = main
    TheBranch = pr
    Snapshot = {s0, s1, s2, s3, s4}
    Baseline = s0
    BaselineHead = 0
    Sha <- Sha1
    Test = {t1}
    Plan = {p1}
    NoSnapshot = NoSnapshot
    NoSha = NoSha
    NoPlan = NoPlan
    Push = {c1}
    Requested = {r1}
    Prompt = {}
    MaxRun = 3
    MaxUpsets = 1
    MaxEdits = 1
    MaxOpenAttempts = 3
    Overlap = TRUE
    HostsPreviews = FALSE
    ActivationGated = FALSE
    AutoRunsOnReady = FALSE
SPECIFICATION Spec
INVARIANTS CompletedMeansPromoted DrainsOnlySettled JobFollowsSnapshot
PROPERTIES SuiteSteps PromotionsInOrder HandledForGood
CHECK_DEADLOCK FALSE
