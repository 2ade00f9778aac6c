\* A process whose stop command may fail, and a container.
CONSTANTS
    a = a
    b = b
    c = c
    Nil = Nil
    Names = {a, b}
    Catalogs <- MCStopped
    MaxPort = 3
    ContainerPort = 3
SPECIFICATION Spec
INVARIANT
    ForegroundIsKilled
