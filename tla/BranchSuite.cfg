CONSTANTS
    Branch = {main, pr}
    MainBranch = main
    Snapshot = {s1, s2, s3, s4}
    Sha = {h1}
    Test = {t1}
    Plan = {p1, p2}
    NoSnapshot = NoSnapshot
    NoSha = NoSha
    NoPlan = NoPlan
SPECIFICATION SuiteSpec
SYMMETRY Symmetric
INVARIANTS PointersAgree ForkedFromCurrent
PROPERTIES TerminalImmutable ImplementsTransactions
CHECK_DEADLOCK FALSE
