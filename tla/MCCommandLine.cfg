SPECIFICATION Spec
CONSTANTS
    CommandLines <- MCLines
    Existing <- MCExisting
    Directories <- MCDirectories
    Refused <- MCRefused
INVARIANTS
    ReadAsMeant
    StatusIsShells
PROPERTIES
    WritesAreMeant
CHECK_DEADLOCK FALSE
