\* One application, deployed three times by each strategy, with failures and
\* crashes at every point.
SPECIFICATION ReleasesSpec
CONSTANTS
    c1 = c1  c2 = c2  main = main  asset = asset
    Commits = {c1, c2}
    Files = {main, asset}
    TreeOf <- MCTreeOf
    EnvFile = dotenv
    Environments = {e1, e2}
    NoEnv = noenv
    Targets <- MCTargets
    ExitCodes = {0, 1, 8, 1073}
    MaxAttempts = 3
CHECK_DEADLOCK FALSE
INVARIANTS SuccessIsServed NothingOldIsServed CurrentWasApplied
PROPERTY ReplacedOnlyWhenReady
