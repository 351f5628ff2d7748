\* Any nesting of guards: exclusion, wakeups, where the lock blocks for good,
\* the progress of writers and the refinement.
SPECIFICATION FairSpec
CONSTANTS
    t1 = t1
    t2 = t2
    t3 = t3
    none = none
    Threads <- ThreeThreads
    NoThread = none
    MaxDepth = 3
    Nestings <- AnyNesting
INVARIANTS MutualExclusion EventAgrees IInv StuckOnlyInsideReader
PROPERTIES WriterGetsIn Implements
CHECK_DEADLOCK FALSE
