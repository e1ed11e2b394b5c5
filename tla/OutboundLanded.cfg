CONSTANTS
    c1 = c1
    c2 = c2
    Clients = {c1, c2}
    Configs <- OneConfig
    MaxNonce = 2
SPECIFICATION Spec
CHECK_DEADLOCK FALSE
INVARIANTS FailedDidNotLand
