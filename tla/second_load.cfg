SPECIFICATION Spec
CONSTANTS
    Tasks = {"a", "b", "c"}
    MaxObjects = 3
    MaxUses = 5
INVARIANTS
    OneModelLoads
CHECK_DEADLOCK FALSE
