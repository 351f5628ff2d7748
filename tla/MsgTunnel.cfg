\* Three sessions and five requests, on connections that break at any time; the bounds
\* stop the system when both are used up and nobody is connected.
SPECIFICATION Spec
CONSTANTS
    MaxSessions = 3
    MaxRequests = 5
INVARIANTS IInv KeyUsedOnce AnswerIsForRequest
CHECK_DEADLOCK FALSE
