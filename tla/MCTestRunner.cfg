\* Two tests in one run or two, with and without capture, suite and limit.
CONSTANTS
    MaxMessage = 17
    MaxField = 3
    Lines = {"a", "b", "c", "d", "runner"}
    Tests <- AllTests
    Suites = {"none", "a"}
    Timeouts = {0, 1}
    Ticks = 1
    Growth = 1
    PipeLines = 3
    BufferLines = 1
    ReadLines = 2
    MaxFds = 8
    MaxTests = 2
    MaxRuns = 2
    ForkFails = TRUE
SPECIFICATION Spec
INVARIANTS TypeOK VerdictIsOfChild ReportIsConveyed OutputIsOfTest CountedOnce NothingLeftButOne
PROPERTIES ZeroMeansAsExpected RunEnds
