\* A handler that waits for the process behind its pidfd and stops listening.
CONSTANTS
    MaxAdds = 1
    MaxEvents = 1
    None = None
    PeerFlags = {"in"}
    Statuses = {"read"}
    HandlersThrow = FALSE
    HandlersReap = TRUE
SPECIFICATION Spec
INVARIANTS InterestMatchesListeners
