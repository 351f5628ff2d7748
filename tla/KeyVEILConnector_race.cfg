\* Two threads on the methods that change the connection and the favorites.
SPECIFICATION Spec
CONSTANTS
    Threads = {t1, t2}
    NoThread = NoThread
    Channels = {c1, c2}
    NoChannel = NoChannel
    TokenLists <- OneThenOthers
    FavoriteLists <- OneThenNone
    Operations = {"connect", "disconnect", "isConnected", "refresh", "favorite", "change"}
    Schemes = {"tunnel"}
INVARIANTS OnlyFavoritesDeadlock NeverOlder NothingLeft
SYMMETRY Symmetry
CHECK_DEADLOCK FALSE
