\* A process and a container; the run may be canceled while one starts.
CONSTANTS
    a = a
    b = b
    c = c
    Nil = Nil
    Names = {a, b}
    Catalogs <- MCStopped
    MaxPort = 3
    ContainerPort = 3
SPECIFICATION Spec
INVARIANT
    CancelStillStops
