SPECIFICATION Spec
CONSTANTS
    g_ipv4_bit = 3
    g_ipv6_bit = 5
    ZeroBits = 1
    MappedBits = 2
    Files <- MCFiles
    Addresses <- MCAddresses
    Languages <- MCLanguages
    Garbage <- MCGarbage
    None = None
    MaxCalls = 3
INVARIANTS AnswerIsOfTheAddress FoundFarFromTheEnd ReadsInside
\* The program makes MaxCalls calls and stops.
CHECK_DEADLOCK FALSE
