\* Catalogs of one to three targets of every kind, and files that are refused, on
\* three ports.
CONSTANTS
    a = a
    b = b
    c = c
    Nil = Nil
    Names = {a, b, c}
    Catalogs <- MCCatalogs
    MaxPort = 3
    ContainerPort = 3
SPECIFICATION Spec
INVARIANTS
    UpstreamOutlivesProxy
    BoundedLoad
    CleanAfterRun
    FailureIsReported
    
PROPERTIES
    CatalogReturns
