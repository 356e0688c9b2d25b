SPECIFICATION FairSpec
PROPERTY SignalStopsWorker
CHECK_DEADLOCK FALSE
