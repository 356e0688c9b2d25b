SPECIFICATION Spec
CONSTANTS
    None = None
    Pool <- OneBox
    Submissions <- FewSubmissions
    Faults = {"XX"}
INVARIANT FaultIsSystemError
