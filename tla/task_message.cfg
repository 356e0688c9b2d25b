SPECIFICATION Spec
CONSTANTS
    NoMessage = NoMessage
    Bodies <- SomeBodies
    IdRange = 64
    IntRange = 16
INVARIANTS DocumentedIsWritten OwnRow CasesNumbered
CHECK_DEADLOCK FALSE
