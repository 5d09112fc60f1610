CONSTANTS
    Fds = {3, 4}
    Responses <- OneAnswer
    MaxRequests = 1
    AllocFails = FALSE
    NoBody = NoBody
SPECIFICATION Spec
INVARIANT SuccessIsComplete
