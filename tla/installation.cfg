SPECIFICATION Spec
INVARIANTS
    TypeOK
PROPERTIES
    SecretIsKept
    AloneIsComplete
SYMMETRY Symmetry
CONSTANTS
    Commands = {p1, p2}
    Containers = {web}
    MaxEdits = 1
    MaxKeys = 2
