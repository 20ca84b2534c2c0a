SPECIFICATION FairSpec
INVARIANTS
    TypeOK
    RegisteredAreWhole
    ServedHasProfile
PROPERTIES
    ReplacedOnlyUnseen
    ImportIsServed
CONSTANTS
    Importers = {i1, i2}
    good = good
    bad = bad
    Names = {good, bad}
    Temporary = temporary
    Matches <- MCMatches
    MaxImports = 2
