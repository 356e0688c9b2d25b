SPECIFICATION FairSpec
CONSTANTS
    Threads = {t1, t2, t3}
    BoxIdStart = 0
    MaxBoxes = 2
    NoBox = NoBox
    NoThread = NoThread
INVARIANTS TypeOK BoxesConserved NoLostWakeup
PROPERTIES ImplementsAllocator SomebodyIsServed
