CONSTANTS
    c1 = c1
    c2 = c2
    Clients = {c1, c2}
    Configs <- TwoConfigs
    MaxNonce = 3
SPECIFICATION FairSpec
CHECK_DEADLOCK FALSE
INVARIANTS IntentBeforeNetwork OutcomesResolveOneIntent ResultSeqTrue RefusedNeverLands
PROPERTIES DanglingIsFinal ImplementsWriteSpec WritesEnd
