\* Three concurrent calls; everything may fail.
CONSTANTS
    Threads = {t1, t2, t3}
    Faults = {"eventfd", "fork", "exec", "killed", "pidfd_open"}
SPECIFICATION FairSpec
CHECK_DEADLOCK FALSE
INVARIANTS TypeOK HandshakeOrder HandshakeIsClosed
PROPERTIES ContractSpec SpawnReturns
