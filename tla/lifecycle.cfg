SPECIFICATION FairSpec
INVARIANTS TypeOK CleanExitWasRequested
PROPERTY StopsWhileConnecting
CHECK_DEADLOCK FALSE
