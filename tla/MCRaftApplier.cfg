SPECIFICATION Spec
CONSTANT MaxIndex = 3
INVARIANTS TypeOK NoLostWakeup
PROPERTIES InOrder CommittedIsApplied
CHECK_DEADLOCK FALSE
