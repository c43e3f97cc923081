\* Four ids, two events per call of epoll_wait, throwing handlers, remove() by handlers.
CONSTANTS
    MaxAdds = 4
    MaxEvents = 2
    None = None
    PeerFlags = {"in"}
    Statuses = {"read"}
    HandlersThrow = TRUE
    HandlersReap = FALSE
SPECIFICATION Spec
INVARIANTS TypeOK InterestMatchesListeners NoDescriptorLeak NoOrphans
PROPERTIES OnlyRemoveDangles TransactionIsAtomic AbstractSpec
