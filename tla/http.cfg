CONSTANTS
    Fds = {3, 4}
    Responses <- Answers
    MaxRequests = 2
    AllocFails = TRUE
    NoBody = NoBody
SPECIFICATION FairSpec
INVARIANTS TypeOK NoDescriptorLost SendsOnlyWhenConnected OnlyConnectingOutlivesCall SuccessIsOwn SizeMatchesBody
PROPERTIES CallsReturn ImplementsContract
