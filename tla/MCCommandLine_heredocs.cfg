SPECIFICATION Spec
CONSTANTS
    CommandLines <- MCLines
    Existing <- MCExisting
    Directories <- MCDirectories
    Refused <- MCRefused
INVARIANT SplitHeredocsAreRead
CHECK_DEADLOCK FALSE
