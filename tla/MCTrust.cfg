SPECIFICATION Spec
CONSTANTS
    None = None
    Absent = Absent
    Partial = Partial
    Dirs = {"inner", "outer"}
    Above <- Nested
    Manifest = "m"
    Entry = "e"
    Versions = {0, 1}
    Clis = {"c1", "c2"}
    Edits = 2
    Plans = 2
CHECK_DEADLOCK FALSE
INVARIANTS
    RunsWhatWasVouched
    AnyRecordAuthorises
    RevokedIsGone
