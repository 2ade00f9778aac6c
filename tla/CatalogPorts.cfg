\* A process and a container that are started at the same time.
CONSTANTS
    a = a
    b = b
    c = c
    Nil = Nil
    Names = {a, b}
    Catalogs <- MCStopped
    MaxPort = 3
    ContainerPort = 3
SPECIFICATION Spec
INVARIANT
    ClaimedPortIsStartupFailure
