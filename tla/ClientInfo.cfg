\* Two ports, two files, descriptors 0 to 2; time stamps on grids that do not match.
CONSTANTS
    IntMax = 2
    Ports = {"p1", "p2"}
    Paths = {f1, f2}
    path = f1
    MaxPaths = 2
    ContentTypes = {c1, c2}
    RawObjects <- MCRawObjects
    TicksPerSecond = 10
    StepsPerSecond = 4
    Coarse = 3
    MaxTime = 21
    Texts = {m1}
SPECIFICATION Spec
CHECK_DEADLOCK FALSE
INVARIANTS InfoRoundTrip
