SPECIFICATION FairSpec
PROPERTY GracefulShutdown
CHECK_DEADLOCK FALSE
