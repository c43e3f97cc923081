\* One message of one of two threads over a pipe.
CONSTANTS
    Threads = {t1, t2}
    None = None
    MaxMessages = 1
    Pieces = 2
    WriteBuffer = 2
    ReadBuffer = 3
    PipeCapacity = 3
    Transport = "pipe"
    Noisy = FALSE
SPECIFICATION FairSpec
CHECK_DEADLOCK FALSE
PROPERTIES EndIsNoticed
