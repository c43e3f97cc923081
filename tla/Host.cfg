\* One client, two connections, two events per call of epoll_wait.
CONSTANTS
    MaxAdds = 4
    MaxEvents = 2
    None = None
    PeerFlags = {"in", "out", "hup"}
    Statuses = {"read", "write"}
    HandlersThrow = FALSE
    HandlersReap = FALSE
    Clients = {c1}
    Connections = {k1, k2}
    MayBeKilled = TRUE
    MayBeLost = TRUE
SPECIFICATION HostFairSpec
CHECK_DEADLOCK FALSE
INVARIANTS LoadIsAtomic EndIsVisible RemovesNothingDue
PROPERTIES DeathIsReported ConnectionsAreAnswered
