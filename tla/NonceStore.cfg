CONSTANTS
    p1 = p1
    p2 = p2
    NoProc = NoProc
    Procs = {p1, p2}
    Keys = {"room", "kv"}
    MaxStorableNonce = 2
    MaxDigitsNonce = 3
    Args <- MCArgs
SPECIFICATION FairSpec
INVARIANTS TypeOK LockOwned IssuedIncreasing CounterIsHighest
PROPERTIES ImplementsNonceSpec CallsEnd
