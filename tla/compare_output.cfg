SPECIFICATION Spec
CONSTANTS
    Chars <- TestChars
    MaxLength = 4
INVARIANT ComparesPrintedText
CHECK_DEADLOCK FALSE
