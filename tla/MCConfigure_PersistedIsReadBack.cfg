SPECIFICATION Spec
CONSTANTS
    IntBits = 9
    Garbage <- MCGarbage
    Behind <- MCBehind
    Uninitialized <- MCUninitialized
    Typed <- MCTyped
    Conf <- MCConf
    Values <- MCValues
    Edited <- MCEdited
    Reordered <- MCReordered
    ItemType <- MCItemType
    ItemLists <- MCItemLists
    INIT_BUFF_SIZE = 16
    Missing = Missing
    None = None
    MaxCalls = 2
PROPERTIES PersistedIsReadBack
\* The program makes MaxCalls calls and stops.
CHECK_DEADLOCK FALSE
