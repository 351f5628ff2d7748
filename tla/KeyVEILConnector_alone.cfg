\* One thread, every method.
SPECIFICATION Spec
CONSTANTS
    Threads = {t1}
    NoThread = NoThread
    Channels = {c1, c2, c3}
    NoChannel = NoChannel
    TokenLists <- OneThenOthers
    FavoriteLists <- OneThenNone
    Operations <- AllMethods
    Schemes = {"tunnel", "login"}
INVARIANTS TokensOfThisConnection TwoPlacesToDie
SYMMETRY Symmetry
CHECK_DEADLOCK FALSE
