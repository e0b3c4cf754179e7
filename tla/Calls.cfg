CONSTANTS
    Nil = Nil
    Callers = {c1, c2}
    Jobs <- MCJobs
    Int32Bound = 8
    MaxKills = 1
    Pods = {p1, p2, p3}
    Requests = {r1, r2}
    MaxStops = 2
    Programs = {n1}
    Args <- MCArgs
    ReplyBound = 1
    Runs = {b1, b2}
    RunKinds <- MCRunKinds
    NoRow = NoRow
    MaxMishaps = 2

SPECIFICATION Spec

INVARIANTS
    TypeOK
    AverageOfAllNumbers
    PrintedInOrder
    OneDeathPerStop
    PrintedUnlessRefused
    ReportsGrowToTheMaximum
    RowBelongsToItsRun
PROPERTIES
    ServerDeathHasCause
    EveryCallerEnds
    NewPodIsFound
    EveryProgramEnds

\* Callers end.
CHECK_DEADLOCK FALSE
