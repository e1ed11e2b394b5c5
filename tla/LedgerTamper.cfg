CONSTANTS
    Bodies = {"a", "b"}
    MaxRows = 4
    MaxTampers = 4
SPECIFICATION Spec
CHECK_DEADLOCK FALSE
INVARIANTS HeadCommitsToHistory BreakLocated
PROPERTIES AppendKeepsBreak
