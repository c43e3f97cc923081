\* Two threads with two messages each, longer than the output buffer, over a socket.
CONSTANTS
    Threads = {t1, t2}
    None = None
    MaxMessages = 2
    Pieces = 3
    WriteBuffer = 2
    ReadBuffer = 4
    PipeCapacity = 5
    Transport = "socket"
    Noisy = TRUE
SPECIFICATION FairSpec
CHECK_DEADLOCK FALSE
INVARIANTS TypeOK NothingLost
PROPERTIES ChannelSpec LoggedIsDelivered WrittenIsDelivered HandlerReturns EndIsNoticed
