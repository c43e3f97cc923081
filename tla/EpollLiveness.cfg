\* Two ids, one event per call of epoll_wait, handlers that return or reap.
CONSTANTS
    MaxAdds = 2
    MaxEvents = 1
    None = None
    PeerFlags = {"in", "hup"}
    Statuses = {"none", "read", "write"}
    HandlersThrow = FALSE
    HandlersReap = TRUE
SPECIFICATION FairSpec
PROPERTIES ReadyIsServed StopTakesEffect
