CONSTANTS
    Workers = {w1, w2}
    TimeoutWorker = w1
    Main = main
    NumBlocks = 2
SPECIFICATION Spec
CHECK_DEADLOCK FALSE
INVARIANT TimeoutReported
