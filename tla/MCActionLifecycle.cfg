SPECIFICATION ActionSpec
CONSTANTS
    c1 = c1
    c2 = c2
    Unread = Unread
    Clients <- MCClients
    Requests <- MCRequests
    InitialPages <- MCPages
    Instants = {3, 4, 5}
    MaxWrites = 4
SYMMETRY MCSymmetry
INVARIANTS ActionSafety StateIsReceipted
PROPERTIES OneSuccessor TerminalIsFinal
CHECK_DEADLOCK FALSE
