\* The standard streams and three more descriptors; -1 is the number 11.
CONSTANTS
    Modulus = 12
    NumberLimit = 6
    InUse = {0, 1, 2, 3, 4, 5}
    Closed = Closed
SPECIFICATION ExecSpec
CHECK_DEADLOCK FALSE
INVARIANTS ExecTypeOK CalledForSegments InnerValuesAreCovered StreamsAreRedirected ForwardedSurvive ErrorPipeTells
