\* Two threads and up to two modules of two libraries, one of them
\* loaded by a path with a slash; calls nested three deep.
SPECIFICATION Spec
CONSTANTS
    t1 = t1
    t2 = t2
    p1 = p1
    p2 = p2
    Threads <- TwoThreads
    Paths <- TwoPaths
    Nested <- OneNested
    Loads <- ThreeWays
    MaxModules = 2
    MaxDepth = 3
SYMMETRY Symmetry
INVARIANTS StuckOnlyInTerminate RegisteredWorks TerminatedBeforeDropped TerminatedOnce NothingLeftUp
CHECK_DEADLOCK FALSE
