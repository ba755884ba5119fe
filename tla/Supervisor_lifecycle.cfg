SPECIFICATION Spec
CONSTANTS
    QueueLimit = 2
    SpawnsNft = TRUE
CHECK_DEADLOCK FALSE
INVARIANTS EndsHaveARoot ExitLeavesNoWorker
PROPERTIES SendersNoticeTheDead FailedStartEndsWorkers WorkerEndStopsParent ShutdownEndsOrWedges
