\* What EncryptSignFile says of an input that cannot be opened.
SPECIFICATION Spec
CONSTANTS
    c1 = c1
    c2 = c2
    a = a
    b = b
    Commands <- OneCommand
    Documents <- TwoDocuments
    NoDocument = NoDocument
    NoPath = NoPath
    Before <- JustA
    Size = 1
    CommandLines <- Lines
    MaxStarts = 1
    MaxLosses = 0
INVARIANT OpenFailureIsReported
CHECK_DEADLOCK FALSE
