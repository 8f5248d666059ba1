SPECIFICATION Spec
CONSTANTS
    Persona <- MCPersona
    Home <- MCHome
    Programs <- MCPrograms
    StartDirs <- MCStartDirs
    DotNames = {".env"}
    MaxWritten = 6
    Lines <- MCLines
    Meaning <- MCMeaning
    MaxDepth = 3
    MaxLines = 6
INVARIANT Bookkeeping
PROPERTY SeenIsRecorded
CHECK_DEADLOCK FALSE
