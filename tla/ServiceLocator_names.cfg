\* Two locators, a name, a longer form of it and another name.
SPECIFICATION Spec
CONSTANTS
    t1 = t1
    t2 = t2
    l1 = l1
    l2 = l2
    aes = aes
    aesCbc = aesCbc
    sha = sha
    o1 = o1
    o2 = o2
    o3 = o3
    NoLocator = NoLocator
    NoName = NoName
    NoObject = NoObject
    Threads <- OneThread
    Locators <- TwoLocators
    Names <- ThreeNames
    Objects <- OneObject
    Shorter <- ShorterThree
    NullCreators <- LongNames
    Refusing <- OtherNames
    Aggregatable <- None
CONSTRAINT Few
PROPERTIES QuietCallsAnswer DeletedStaysDeleted
CHECK_DEADLOCK FALSE
