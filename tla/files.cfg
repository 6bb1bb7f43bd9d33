SPECIFICATION Spec
CONSTANTS
    Files = {f1, f2}
    MaxBytes = 2
    MaxLength = 3
    MaxChanges = 3
    None = None
SYMMETRY Symmetric
CHECK_DEADLOCK FALSE
INVARIANTS FilesTypeOK OpenedFileDecides
PROPERTIES NothingBeyondPayload ControlIsSnapshot
