\* Two threads race to create one singleton that others add to and delete.
SPECIFICATION Spec
CONSTANTS
    t1 = t1
    t2 = t2
    l1 = l1
    l2 = l2
    aes = aes
    aesCbc = aesCbc
    sha = sha
    o1 = o1
    o2 = o2
    o3 = o3
    NoLocator = NoLocator
    NoName = NoName
    NoObject = NoObject
    Threads <- TwoThreads
    Locators <- OneLocator
    Names <- OneName
    Objects <- ThreeObjects
    Shorter <- ShorterOne
    NullCreators <- None
    Refusing <- None
    Aggregatable <- AllButOne
SYMMETRY ObjectSymmetry
INVARIANT ContainerCurrent
PROPERTIES Implements SingletonsStay OnlyRacersGetTheirOwn
CHECK_DEADLOCK FALSE
