CONSTANTS
    p1 = p1
    p2 = p2
    r1 = r1
    NoProc = NoProc
    Procs = {p1, p2}
    Readers = {r1}
    Bodies = {"intent", "failed", "key"}
    Refused = {"key"}
    MaxIds = 3
SPECIFICATION FairFileSpec
ACTION_CONSTRAINT RecordersActivities
INVARIANTS FileTypeOK ChainIntact NoConflict RefsPointBack SchemaWhole StatusAddsUp WarnsOfCounted
PROPERTIES ImplementsLedgerSpec OpensEnd
