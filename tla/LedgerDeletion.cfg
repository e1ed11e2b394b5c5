CONSTANTS
    Bodies = {"a", "b"}
    MaxRows = 3
    MaxTampers = 1
SPECIFICATION Spec
CHECK_DEADLOCK FALSE
INVARIANTS DeletionDetectable
