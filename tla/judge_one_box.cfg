SPECIFICATION Spec
CONSTANTS
    None = None
    Pool <- OneBox
    Submissions <- ManySubmissions
    Faults = {"XX", "absent", "cut", "write", "kill"}
INVARIANTS TypeOK OwnVerdict ResultShape BoxesConserved
