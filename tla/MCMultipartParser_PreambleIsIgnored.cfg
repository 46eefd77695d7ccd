SPECIFICATION Spec
CONSTANTS
    CR = "cr"
    LF = "lf"
    HYPHEN = "-"
    COLON = ":"
    BLANK = " "
    QUOTE = "q"
    Char <- MCChar
    NameChars <- MCNameChars
    Boundary <- MCBoundary
    Disposition <- MCDisposition
    Messages <- MCMessages
INVARIANT PreambleIsIgnored
\* A message that has arrived or was rejected is the end.
CHECK_DEADLOCK FALSE
