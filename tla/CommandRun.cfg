SPECIFICATION Spec
CONSTANTS
    Listeners <- MCListeners
    Requests <- MCRequests
INVARIANTS
    NothingLeftServing
    GracefulUnlessLate
    BrokenOriginIsReported
    OriginOutlivesClient
    SuccessIsComplete
PROPERTY
    CommandEnds
