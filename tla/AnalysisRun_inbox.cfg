CONSTANTS
    Branch = {main, pr}
    MainBranch = main
    TheBranch = pr
    Snapshot = {s0, s1, s2, s3, s4}
    Baseline = s0
    BaselineHead = 0
    Sha <- Sha1
    Test = {}
    Plan = {}
    NoSnapshot = NoSnapshot
    NoSha = NoSha
    NoPlan = NoPlan
    Push = {c1}
    Requested = {}
    Prompt = {q1, q2}
    MaxRun = 4
    MaxUpsets = 0
    MaxEdits = 0
    MaxOpenAttempts = 3
    Overlap = FALSE
    HostsPreviews = TRUE
    ActivationGated = TRUE
    AutoRunsOnReady = FALSE
SPECIFICATION FairSpec
PROPERTIES ExitsCaughtUp PokedIsHandled EveryRunSettles
CHECK_DEADLOCK FALSE
