SPECIFICATION Spec
PROPERTIES
    RestartApplies
SYMMETRY Symmetry
CONSTANTS
    Commands = {p1}
    Containers = {web, find}
    MaxEdits = 1
    MaxKeys = 2
