\* One call whose pidfd_open fails.
CONSTANTS
    Threads = {t1}
    Faults = {"pidfd_open"}
SPECIFICATION Spec
CHECK_DEADLOCK FALSE
INVARIANTS ErrorLeavesNoChild
