CONSTANTS
    Branch = {main, pr}
    MainBranch = main
    TheBranch = pr
    Snapshot = {s0, s1, s2, s3, s4, s5, s6}
    Baseline = s0
    BaselineHead = 0
    Sha <- Sha2
    Test = {}
    Plan = {}
    NoSnapshot = NoSnapshot
    NoSha = NoSha
    NoPlan = NoPlan
    Push = {c1, c2}
    Requested = {}
    Prompt = {q1}
    MaxRun = 5
    MaxUpsets = 0
    MaxEdits = 1
    MaxOpenAttempts = 3
    Overlap = FALSE
    HostsPreviews = TRUE
    ActivationGated = FALSE
    AutoRunsOnReady = FALSE
SPECIFICATION Spec
INVARIANTS TypeOK NothingStranded
PROPERTIES HeadsAdvance ReasonToRun
CHECK_DEADLOCK FALSE
