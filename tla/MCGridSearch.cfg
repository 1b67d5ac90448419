\* The pool may stop for good: a timeout before TimeoutWorker has woken up is never answered.
CONSTANTS
    Workers = {w1, w2, w3}
    TimeoutWorker = w1
    Main = main
    NumBlocks = 2
SPECIFICATION FairSpec
CHECK_DEADLOCK FALSE
INVARIANTS
    TypeOK
    NoSearchDuringSetup
    PricesAnswerQuery
    TimeoutBelievedIsReal
PROPERTIES
    PublishedOnce
    QueriesAnswered
    BlocksFinish
