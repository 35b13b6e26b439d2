SPECIFICATION Spec
CONSTANTS
    None = None
    Bad = Bad
    Samples = Samples
    Names <- MCNames
    Normal <- MCNormal
    One = 1008
    Benchmarks <- MCBenchmarks
INVARIANTS
    FirstFit
    ScoresFair
    ValidatedSuiteRuns
CHECK_DEADLOCK FALSE
