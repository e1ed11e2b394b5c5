CONSTANTS
    c1 = c1
    c2 = c2
    Clients = {c1}
    Args <- OnlyReviewed
    MaxNonce = 2
SPECIFICATION Spec
CHECK_DEADLOCK FALSE
INVARIANTS AnnouncedAtMostOnce
