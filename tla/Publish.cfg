CONSTANTS
    c1 = c1
    c2 = c2
    Clients = {c1, c2}
    Args <- MCArgs
    MaxNonce = 2
SPECIFICATION Spec
CHECK_DEADLOCK FALSE
SYMMETRY Symmetry
INVARIANTS TrailsStayApart ProofBeforePublish SentAtMostOnce PublishedIsInRoom ExitOkIsRecorded
PROPERTIES ImplementsWriteSpec
