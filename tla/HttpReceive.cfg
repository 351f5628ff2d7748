\* Answers of one message or with 100s first, in pieces of any size, malformed
\* answers, reads that fail, and servers that break off.
SPECIFICATION FairHttpSpec
CONSTANTS
    Scripts <- Answers
    Malformed <- Slips
    NoLength = NoLength
    Chunk = 4
    MaxHttpRequests = 2
INVARIANTS AnswerIsExact NothingLeftOver
PROPERTIES ReceiveReturns
CHECK_DEADLOCK FALSE
