-------------------------- MODULE KeyVEILConnector --------------------------
(***************************************************************************)
(* VEILCore/KeyVEILConnector.cpp: the connection to a KeyVEIL server and   *)
(* the lists of tokens and favorites read from it, shared by threads.  The *)
(* recursive mutexes are taken as the code nests them; wherever a method   *)
(* waits for one, or works on what it read before it had it, a step ends.  *)
(* The server and the link are external.  A list is the number of the      *)
(* server's version of it that was merged last, 0 when it is empty.  _hdr, *)
(* the last response, is made and reset with _channel.                     *)
(***************************************************************************)
EXTENDS Naturals, Sequences

CONSTANTS
    Threads, NoThread,
    Channels, NoChannel,        \* channel objects, as many as may be created
    TokenLists, FavoriteLists,  \* the server's lists, one version after another:
                                \* [size, mine]: mine are of the enterprise asked for
    Operations,                 \* the methods the threads call
    Schemes                     \* of the URLs: "tunnel" (httpv, https) or "login"

Methods == {"connect", "generic", "disconnect", "isConnected", "refresh",
            "token", "enterprise", "favorite", "change", "request", "response"}

ASSUME ConnectorAssumption ==
    /\ NoThread \notin Threads
    /\ NoChannel \notin Channels
    /\ Operations \subseteq Methods
    /\ Schemes \subseteq {"tunnel", "login"} /\ Schemes # {}
    /\ \A l \in {TokenLists, FavoriteLists} :
          /\ l \in Seq([size : Nat, mine : Nat])
          /\ Len(l) > 0

VARIABLES
    lock,          \* _channelLock, _tokenListLock, _favoriteListLock
    channel,       \* _channel
    processor,     \* _msgProcessor and _httpProcessor are there
    generic,       \* _isGenericConnection
    scheme,        \* _scheme
    lastConnected, \* _lastConnected
    tokens,        \* _tokens
    favorites,     \* _favorites
    link,          \* of each channel object: made yet, socket, Login of its processor
    thread,        \* where each thread is, and its locals
    server,        \* the version of each of the server's lists
    loaded,        \* history: LoadTokens has succeeded on this connection
    newest         \* history: the newest version merged into each list

connection == <<channel, processor, generic, scheme, lastConnected>>
world == <<server, link>>
history == <<loaded, newest>>
vars == <<lock, connection, tokens, favorites, thread, world, history>>

Locks == {"channel", "token", "favorite"}
Free == [owner |-> NoThread, count |-> 0]

\* "begun": refresh has sent the first message of a tunnel's handshake.
Login == {"no", "begun", "yes"}

\* op: the method; at: the statement it is about to run; ret: where the part it
\* calls (disconnect, LoadTokens, LoadFavorites) comes back to; snap: the
\* channel it read before it had a lock; index: its argument; count: what
\* tokenCount or favoriteCount said; answer: the version the server sent.
Idle == [op |-> "none", at |-> "idle", ret |-> "idle", snap |-> NoChannel,
         index |-> 0, count |-> 0, answer |-> 0]

Init ==
    /\ lock = [k \in Locks |-> Free]
    /\ channel = NoChannel
    /\ processor = FALSE
    /\ generic = FALSE
    /\ scheme \in Schemes
    /\ lastConnected = FALSE
    /\ tokens = 0
    /\ favorites = 0
    /\ link = [c \in Channels |-> [made |-> FALSE, up |-> FALSE, auth |-> "no"]]
    /\ thread = [t \in Threads |-> Idle]
    /\ server = [tokens |-> 1, favorites |-> 1]
    /\ loaded = FALSE
    /\ newest = [tokens |-> 0, favorites |-> 0]

-----------------------------------------------------------------------------
(* Locks and control *)

At(t, l) == thread[t].at = l

MayLock(t, k) == lock[k].owner \in {t, NoThread}

Taken(t, k) == [lock EXCEPT ![k] = [owner |-> t, count |-> @.count + 1]]

Dropped(lk, k) ==
    [lk EXCEPT ![k] = IF @.count = 1 THEN Free ELSE [@ EXCEPT !.count = lk[k].count - 1]]

Goto(t, l) == thread' = [thread EXCEPT ![t].at = l]

\* The method, or the part of one that was called, is over.
Return(t) ==
    thread' = IF thread[t].ret = "idle"
              THEN [thread EXCEPT ![t] = Idle]
              ELSE [thread EXCEPT ![t].at = thread[t].ret, ![t].ret = "idle"]

\* Calls the part that starts at l, which comes back at r.
CallPart(t, l, r) == thread' = [thread EXCEPT ![t].at = l, ![t].ret = r]

\* A thread calls a method, which reads _channel and comes to l.
Enter(t, op, l) ==
    /\ At(t, "idle")
    /\ op \in Operations
    /\ thread' = [thread EXCEPT ![t].op = op, ![t].at = l, ![t].snap = channel]

Up(c) == IF c = NoChannel THEN FALSE ELSE link[c].up
Authenticated(c) == IF c = NoChannel THEN FALSE ELSE link[c].auth = "yes"

Items(lists, v) == IF v = 0 THEN [size |-> 0, mine |-> 0] ELSE lists[v]
TokenCount(v) == Items(TokenLists, v).size
FavoriteCount(v) == Items(FavoriteLists, v).size

-----------------------------------------------------------------------------
(* disconnect *)

Disconnect(t) ==
    /\ Enter(t, "disconnect", "d_channel")
    /\ UNCHANGED <<lock, connection, tokens, favorites, world, history>>

DisconnectChannel(t) ==
    /\ At(t, "d_channel")
    /\ MayLock(t, "channel")
    /\ lock' = Taken(t, "channel")
    /\ link' = [c \in Channels |-> IF c = channel
                   THEN [made |-> TRUE, up |-> FALSE, auth |-> "no"] ELSE link[c]]
    /\ channel' = NoChannel
    /\ processor' = FALSE
    /\ generic' = FALSE
    /\ loaded' = FALSE
    /\ Goto(t, "d_token")
    /\ UNCHANGED <<tokens, favorites, scheme, lastConnected, server, newest>>

DisconnectTokens(t) ==
    /\ At(t, "d_token")
    /\ MayLock(t, "token")
    /\ lock' = Taken(t, "token")
    /\ tokens' = 0
    /\ Goto(t, "d_favorite")
    /\ UNCHANGED <<connection, favorites, world, history>>

\* A slip: the favorites outlive the connection.
DisconnectKeepsFavorites(t) ==
    /\ At(t, "d_favorite")
    /\ lastConnected' = FALSE
    /\ lock' = Dropped(Dropped(lock, "token"), "channel")
    /\ Return(t)
    /\ UNCHANGED <<channel, processor, generic, scheme, tokens, favorites, world, history>>

\* The last of the three locks, and all of them are let go.
DisconnectFavorites(t) ==
    /\ At(t, "d_favorite")
    /\ MayLock(t, "favorite")
    /\ favorites' = 0
    /\ lastConnected' = FALSE
    /\ lock' = Dropped(Dropped(lock, "token"), "channel")
    /\ Return(t)
    /\ UNCHANGED <<channel, processor, generic, scheme, tokens, world, history>>

-----------------------------------------------------------------------------
(* connect and genericConnectToServer *)

ConnectAt(op) == IF op = "generic" THEN "c_flag" ELSE "c_open"

\* A slip: what is left of the last connection stays.
ConnectOnTop(t, op) ==
    /\ Enter(t, op, ConnectAt(op))
    /\ UNCHANGED <<lock, connection, tokens, favorites, world, history>>

\* A channel that is there is disconnected first, before the lock is taken.
Connect(t, op) ==
    /\ At(t, "idle")
    /\ op \in Operations
    /\ thread' = [thread EXCEPT ![t].op = op,
           ![t].at = IF channel = NoChannel THEN ConnectAt(op) ELSE "d_channel",
           ![t].ret = IF channel = NoChannel THEN "idle" ELSE ConnectAt(op)]
    /\ UNCHANGED <<lock, connection, tokens, favorites, world, history>>

\* genericConnectToServer says so before it has the lock.
ConnectGeneric(t) ==
    /\ At(t, "c_flag")
    /\ generic' = TRUE
    /\ Goto(t, "c_open")
    /\ UNCHANGED <<lock, channel, processor, scheme, lastConnected, tokens, favorites,
                   world, history>>

\* A new channel object takes _channel under the lock; then the attempt to
\* connect and to authenticate ends in one of the statuses.
ConnectOpen(t) ==
    /\ At(t, "c_open")
    /\ MayLock(t, "channel")
    /\ lock' = Taken(t, "channel")
    /\ generic' = (generic /\ thread[t].op = "generic")
    /\ scheme' \in Schemes
    /\ loaded' = FALSE
    /\ \E c \in Channels, up, auth \in BOOLEAN :
          /\ ~link[c].made
          /\ channel' = c
          /\ link' = [link EXCEPT ![c] =
                         [made |-> TRUE, up |-> up, auth |-> IF auth THEN "yes" ELSE "no"]]
          /\ auth => up
          /\ \/ /\ ~up                          \* NoServer: the channel stays
                /\ processor' = FALSE
                /\ Goto(t, "c_end")
             \/ /\ ~up                          \* UrlBad: the processor too
                /\ processor' = TRUE
                /\ Goto(t, "c_end")
             \/ /\ up /\ ~auth                  \* BadAuth
                /\ processor' = TRUE
                /\ CallPart(t, "d_channel", "c_end")
             \/ /\ up
                /\ auth \/ scheme' = "login"     \* "local" needs no password
                /\ processor' = TRUE
                /\ IF thread[t].op = "generic"
                   THEN Goto(t, "c_connected")
                   ELSE CallPart(t, "t_ask", "c_connected")
    /\ UNCHANGED <<tokens, favorites, lastConnected, server, newest>>

\* LoadTokens may have failed: connect is successful all the same.
ConnectDone(t) ==
    /\ At(t, "c_connected")
    /\ lastConnected' = TRUE
    /\ Goto(t, "c_end")
    /\ UNCHANGED <<lock, channel, processor, generic, scheme, tokens, favorites, world, history>>

\* The destructor of the guard on _channelLock ends the method.
LeaveChannel(t) ==
    /\ At(t, "c_end")
    /\ lock' = Dropped(lock, "channel")
    /\ Return(t)
    /\ UNCHANGED <<connection, tokens, favorites, world, history>>

-----------------------------------------------------------------------------
(* isConnected: without a lock until it finds the connection lost. *)

IsConnected(t) ==
    /\ Enter(t, "isConnected", "i_test")
    /\ UNCHANGED <<lock, connection, tokens, favorites, world, history>>

\* _lastConnected follows what is found; the first to see a loss disconnects.
Test(t, c, yes, no) ==
    /\ lastConnected' = Up(c)
    /\ IF lastConnected /\ ~Up(c)
       THEN CallPart(t, "d_channel", no)
       ELSE Goto(t, IF Up(c) THEN yes ELSE no)

IsConnectedTest(t) ==
    /\ At(t, "i_test")
    /\ Test(t, thread[t].snap, "end", "end")
    /\ UNCHANGED <<lock, channel, processor, generic, scheme, tokens, favorites, world, history>>

\* The method is over and holds nothing.
Leave(t) ==
    /\ At(t, "end")
    /\ Return(t)
    /\ UNCHANGED <<lock, connection, tokens, favorites, world, history>>

-----------------------------------------------------------------------------
(* sendJsonRequest and the two Load functions *)

\* The channel read before the lock must be connected, but the command goes
\* over _channel, which runJsonCommand may connect again.  A login that has
\* begun is finished before the command is sent; the command may fail at any
\* point, with the link down or the login lost.
RequestFails(c) ==
    \/ UNCHANGED link
    \/ /\ Up(c)
       /\ channel # NoChannel
       /\ \E up \in BOOLEAN, auth \in {link[channel].auth, "no", "yes"} :
             /\ auth = "yes" => link[channel].auth # "no"
             /\ link' = [link EXCEPT ![channel] = [made |-> TRUE, up |-> up, auth |-> auth]]

RequestWorks(c) ==
    /\ Up(c)
    /\ channel # NoChannel
    /\ \E auth \in {link[channel].auth, "yes"} :
          /\ auth # "begun"
          /\ auth = "yes" => link[channel].auth # "no"
          /\ link' = [link EXCEPT ![channel] = [made |-> TRUE, up |-> TRUE, auth |-> auth]]

\* sendJsonRequest and sendRequest, called for anything else.
Request(t) ==
    /\ Enter(t, "request", "q_send")
    /\ UNCHANGED <<lock, connection, tokens, favorites, world, history>>

RequestSend(t) ==
    /\ At(t, "q_send")
    /\ MayLock(t, "channel")
    /\ RequestWorks(thread[t].snap) \/ RequestFails(thread[t].snap)
    /\ Goto(t, "end")
    /\ UNCHANGED <<lock, connection, tokens, favorites, server, history>>

\* status, dataPart, errorCode and the others: _hdr is read and used without a
\* lock.  It is null without a channel, and freed when the channel was dropped
\* in between.
Response(t) ==
    /\ Enter(t, "response", "a_use")
    /\ UNCHANGED <<lock, connection, tokens, favorites, world, history>>

ResponseUse(t) ==
    /\ At(t, "a_use")
    /\ LET c == thread[t].snap IN
       \/ c # NoChannel /\ Goto(t, "end")
       \/ c = NoChannel /\ Goto(t, "crash")
       \/ c # channel /\ Goto(t, "crash")
    /\ UNCHANGED <<lock, connection, tokens, favorites, world, history>>

\* LoadTokens is always called with _channelLock held.
LoadTokensAsk(t) ==
    /\ At(t, "t_ask")
    /\ \/ /\ RequestWorks(channel)
          /\ thread' = [thread EXCEPT ![t].at = "t_merge", ![t].answer = server.tokens]
       \/ RequestFails(channel) /\ Return(t)
    /\ UNCHANGED <<lock, connection, tokens, favorites, server, history>>

LoadTokensMerge(t) ==
    /\ At(t, "t_merge")
    /\ MayLock(t, "token")
    /\ tokens' = thread[t].answer
    /\ loaded' = TRUE
    /\ newest' = [newest EXCEPT !.tokens = IF tokens' > @ THEN tokens' ELSE @]
    /\ Return(t)
    /\ UNCHANGED <<lock, connection, favorites, world>>

\* LoadFavorites takes and frees _channelLock for the request alone.
LoadFavoritesAsk(t) ==
    /\ At(t, "f_ask")
    /\ MayLock(t, "channel")
    /\ \/ /\ RequestWorks(thread[t].snap)
          /\ thread' = [thread EXCEPT ![t].at = "f_merge",
                                      ![t].answer = server.favorites]
       \/ RequestFails(thread[t].snap) /\ Return(t)
    /\ UNCHANGED <<lock, connection, tokens, favorites, server, history>>

LoadFavoritesMerge(t) ==
    /\ At(t, "f_merge")
    /\ MayLock(t, "favorite")
    /\ favorites' = thread[t].answer
    /\ newest' = [newest EXCEPT !.favorites = IF favorites' > @ THEN favorites' ELSE @]
    /\ Return(t)
    /\ UNCHANGED <<lock, connection, tokens, world, loaded>>

-----------------------------------------------------------------------------
(* refresh *)

Refresh(t) ==
    /\ Enter(t, "refresh", "r_clear")
    /\ UNCHANGED <<lock, connection, tokens, favorites, world, history>>

\* A slip: favLock.Unlock() is missing.
RefreshKeepsLock(t) ==
    /\ At(t, "r_clear")
    /\ MayLock(t, "favorite")
    /\ lock' = Taken(t, "favorite")
    /\ favorites' = 0
    /\ Goto(t, "r_open")
    /\ UNCHANGED <<connection, tokens, world, history>>

RefreshClear(t) ==
    /\ At(t, "r_clear")
    /\ MayLock(t, "favorite")
    /\ favorites' = 0
    /\ Goto(t, "r_open")
    /\ UNCHANGED <<lock, connection, tokens, world, history>>

\* Under _channelLock the channel read at the start is connected again if its
\* link is lost, be it still _channel or not.
RefreshOpen(t) ==
    /\ At(t, "r_open")
    /\ MayLock(t, "channel")
    /\ lock' = Taken(t, "channel")
    /\ LET c == thread[t].snap IN
       \/ c = NoChannel /\ Goto(t, "c_end") /\ UNCHANGED link
       \/ /\ c # NoChannel
          /\ link' = [link EXCEPT ![c].up = TRUE]
          /\ Goto(t, "r_auth")
       \/ /\ c # NoChannel
          /\ ~Up(c)
          /\ CallPart(t, "d_channel", "c_end")
          /\ UNCHANGED link
    /\ UNCHANGED <<connection, tokens, favorites, server, history>>

\* A generic connection has no tokens to load.
RefreshLoad(t) ==
    IF generic THEN Goto(t, "c_end") ELSE CallPart(t, "t_ask", "c_end")

\* startTunnel or Login, through _msgProcessor as it is now.  A tunnel is begun
\* on the channel read at the start, and is no longer what the processor had for
\* _channel: the handshake is left to the next request.  A login is on _channel,
\* and is over here.
RefreshAuthenticate(t) ==
    /\ At(t, "r_auth")
    /\ LET c == thread[t].snap
           tunnel == scheme = "tunnel"
           on == IF tunnel THEN {c, channel} ELSE {channel}
           reached == tunnel \/ channel # NoChannel
           state == IF tunnel THEN "begun" ELSE "yes"
       IN \/ /\ Authenticated(c) \/ (generic /\ ~tunnel)
             /\ RefreshLoad(t)
             /\ UNCHANGED link
          \/ /\ ~Authenticated(c)
             /\ tunnel => processor
             /\ CallPart(t, "d_channel", "c_end")
             /\ UNCHANGED link
          \/ /\ ~Authenticated(c)
             /\ reached /\ processor
             /\ link' = [d \in Channels |->
                            IF d \in on THEN [link[d] EXCEPT !.auth = state] ELSE link[d]]
             /\ RefreshLoad(t)
          \/ /\ ~Authenticated(c)      \* a call through a null pointer
             /\ reached /\ ~processor
             /\ tunnel \/ ~generic     \* no password was kept
             /\ Goto(t, "crash")
             /\ UNCHANGED link
    /\ UNCHANGED <<lock, connection, tokens, favorites, server, history>>

-----------------------------------------------------------------------------
(* The tokens: token(index) and tokenCountForEnterprise lock the list twice. *)

Token(t) ==
    /\ At(t, "idle")
    /\ "token" \in Operations
    /\ MayLock(t, "token")
    /\ \E i \in 0 .. TokenCount(tokens) :
          thread' = [thread EXCEPT ![t].op = "token", ![t].index = i,
                         ![t].at = IF i < TokenCount(tokens) THEN "k_item" ELSE "end"]
    /\ UNCHANGED <<lock, connection, tokens, favorites, world, history>>

\* _tokens[index], not checked again.
TokenItem(t) ==
    /\ At(t, "k_item")
    /\ MayLock(t, "token")
    /\ Goto(t, IF thread[t].index < TokenCount(tokens) THEN "end" ELSE "crash")
    /\ UNCHANGED <<lock, connection, tokens, favorites, world, history>>

TokenCountForEnterprise(t) ==
    /\ At(t, "idle")
    /\ "enterprise" \in Operations
    /\ MayLock(t, "token")
    /\ thread' = [thread EXCEPT ![t].op = "enterprise", ![t].at = "e_others",
                                ![t].count = TokenCount(tokens)]
    /\ UNCHANGED <<lock, connection, tokens, favorites, world, history>>

\* The tokens of others are taken off the count: a size_t, which wraps.
TokenCountOthers(t) ==
    /\ At(t, "e_others")
    /\ MayLock(t, "token")
    /\ LET now == Items(TokenLists, tokens)
       IN Goto(t, IF now.size - now.mine <= thread[t].count THEN "end" ELSE "wrapped")
    /\ UNCHANGED <<lock, connection, tokens, favorites, world, history>>

-----------------------------------------------------------------------------
(* The favorites: favoriteCount loads an empty list with its lock held. *)

Favorite(t) ==
    /\ Enter(t, "favorite", "f_count")
    /\ UNCHANGED <<lock, connection, tokens, favorites, world, history>>

\* A slip, and the nearest way out of the deadlock: the list is not locked
\* while it is asked for, and counted again.
FavoriteCountUnlocked(t) ==
    /\ At(t, "f_count")
    /\ MayLock(t, "favorite")
    /\ IF favorites = 0 /\ Authenticated(thread[t].snap)
       THEN /\ thread' = [thread EXCEPT ![t].snap = channel, ![t].at = "f_ask",
                                        ![t].ret = "f_count"]
            /\ UNCHANGED lock
       ELSE lock' = Taken(t, "favorite") /\ Goto(t, "f_counted")
    /\ UNCHANGED <<connection, tokens, favorites, world, history>>

FavoriteCountLock(t) ==
    /\ At(t, "f_count")
    /\ MayLock(t, "favorite")
    /\ lock' = Taken(t, "favorite")
    /\ IF favorites = 0 /\ Authenticated(thread[t].snap)
       THEN thread' = [thread EXCEPT ![t].snap = channel, ![t].at = "f_ask",
                                     ![t].ret = "f_counted"]
       ELSE Goto(t, "f_counted")
    /\ UNCHANGED <<connection, tokens, favorites, world, history>>

\* A slip: the index may equal the count.
FavoriteCountedLoose(t) ==
    /\ At(t, "f_counted")
    /\ lock' = Dropped(lock, "favorite")
    /\ \E i \in 0 .. FavoriteCount(favorites) :
          thread' = [thread EXCEPT ![t].index = i, ![t].at = "f_item"]
    /\ UNCHANGED <<connection, tokens, favorites, world, history>>

\* The count is compared with the index after the lock is gone.
FavoriteCounted(t) ==
    /\ At(t, "f_counted")
    /\ lock' = Dropped(lock, "favorite")
    /\ \E i \in 0 .. FavoriteCount(favorites) :
          thread' = [thread EXCEPT ![t].index = i,
                         ![t].at = IF i < FavoriteCount(favorites) THEN "f_item" ELSE "end"]
    /\ UNCHANGED <<connection, tokens, favorites, world, history>>

\* _favorites[index], not checked again.
FavoriteItem(t) ==
    /\ At(t, "f_item")
    /\ MayLock(t, "favorite")
    /\ Goto(t, IF thread[t].index < FavoriteCount(favorites) THEN "end" ELSE "crash")
    /\ UNCHANGED <<lock, connection, tokens, favorites, world, history>>

-----------------------------------------------------------------------------
(* CreateFavorite, DeleteFavorite, UpdateFavorite, UpdateFavoriteName *)

Change(t) ==
    /\ Enter(t, "change", "h_lock")
    /\ UNCHANGED <<lock, connection, tokens, favorites, world, history>>

\* isConnected is asked under _channelLock, and may disconnect.
ChangeLock(t) ==
    /\ At(t, "h_lock")
    /\ MayLock(t, "channel")
    /\ lock' = Taken(t, "channel")
    /\ Test(t, channel, "h_send", "c_end")
    /\ UNCHANGED <<channel, processor, generic, scheme, tokens, favorites, world, history>>

\* The server carries the change out, and all favorites are loaded again with
\* _channelLock held.
ChangeSend(t) ==
    /\ At(t, "h_send")
    /\ \/ /\ RequestWorks(channel)
          /\ server' = [server EXCEPT !.favorites =
                           IF @ < Len(FavoriteLists) THEN @ + 1 ELSE @]
          /\ thread' = [thread EXCEPT ![t].at = "f_ask", ![t].ret = "c_end",
                                      ![t].snap = channel]
       \/ RequestFails(channel) /\ Goto(t, "c_end") /\ UNCHANGED server
    /\ UNCHANGED <<lock, connection, tokens, favorites, history>>

-----------------------------------------------------------------------------
(* The world outside *)

LinkLost ==
    /\ Up(channel)
    /\ link' = [link EXCEPT ![channel].up = FALSE]
    /\ UNCHANGED <<lock, connection, tokens, favorites, thread, server, history>>

\* Someone else's changes.
ServerChanges ==
    /\ \/ /\ server.tokens < Len(TokenLists)
          /\ server' = [server EXCEPT !.tokens = @ + 1]
       \/ /\ server.favorites < Len(FavoriteLists)
          /\ server' = [server EXCEPT !.favorites = @ + 1]
    /\ UNCHANGED <<lock, connection, tokens, favorites, thread, link, history>>

Step(t) ==
    \/ Disconnect(t) \/ DisconnectChannel(t) \/ DisconnectTokens(t)
    \/ DisconnectFavorites(t)
    \/ Connect(t, "connect") \/ Connect(t, "generic")
    \/ ConnectGeneric(t) \/ ConnectOpen(t) \/ ConnectDone(t) \/ LeaveChannel(t)
    \/ IsConnected(t) \/ IsConnectedTest(t) \/ Leave(t)
    \/ Request(t) \/ RequestSend(t) \/ Response(t) \/ ResponseUse(t)
    \/ LoadTokensAsk(t) \/ LoadTokensMerge(t)
    \/ LoadFavoritesAsk(t) \/ LoadFavoritesMerge(t)
    \/ Refresh(t) \/ RefreshClear(t) \/ RefreshOpen(t) \/ RefreshAuthenticate(t)
    \/ Token(t) \/ TokenItem(t) \/ TokenCountForEnterprise(t) \/ TokenCountOthers(t)
    \/ Favorite(t) \/ FavoriteCountLock(t) \/ FavoriteCounted(t) \/ FavoriteItem(t)
    \/ Change(t) \/ ChangeLock(t) \/ ChangeSend(t)

Crashed == \E t \in Threads : At(t, "crash")

Next ==
    /\ ~Crashed
    /\ LinkLost \/ ServerChanges \/ \E t \in Threads : Step(t)

Spec == Init /\ [][Next]_vars

-----------------------------------------------------------------------------
(* Properties *)

\* The variables have their types: a lock is counted, the lists are versions.
TypeOK ==
    /\ lock \in [Locks -> [owner : Threads \union {NoThread}, count : 0 .. 5]]
    /\ channel \in Channels \union {NoChannel}
    /\ processor \in BOOLEAN /\ generic \in BOOLEAN /\ lastConnected \in BOOLEAN
    /\ scheme \in Schemes
    /\ tokens \in 0 .. Len(TokenLists)
    /\ favorites \in 0 .. Len(FavoriteLists)
    /\ link \in [Channels -> [made : BOOLEAN, up : BOOLEAN, auth : Login]]
    /\ server.tokens \in 1 .. Len(TokenLists)
    /\ server.favorites \in 1 .. Len(FavoriteLists)
    /\ loaded \in BOOLEAN

\* The lock a thread cannot go on without.
Wants(t) ==
    CASE At(t, "d_channel") \/ At(t, "c_open") \/ At(t, "r_open")
            \/ At(t, "h_lock") \/ At(t, "q_send") \/ At(t, "f_ask") -> {"channel"}
      [] At(t, "d_token") \/ At(t, "t_merge") \/ At(t, "k_item")
            \/ At(t, "e_others") -> {"token"}
      [] At(t, "d_favorite") \/ At(t, "f_merge") \/ At(t, "r_clear")
            \/ At(t, "f_count") \/ At(t, "f_item") -> {"favorite"}
      [] OTHER -> {}

WaitsFor(t, u) == \E k \in Wants(t) : lock[k].owner = u /\ u # t

\* Two threads wait for each other only when one of them is in favoriteCount,
\* which asks for _channelLock (605-619) with the list of favorites locked,
\* and the other holds the channel and wants the favorites, as every other
\* method takes them.
OnlyFavoritesDeadlock ==
    \A t, u \in Threads :
       WaitsFor(t, u) /\ WaitsFor(u, t) =>
          \E v \in {t, u} : thread[v].op = "favorite" /\ At(v, "f_ask")

\* An answer is never merged over a newer one: the locks that are held from
\* the request to the merge put the two in the same order (1175-1275).
NeverOlder ==
    /\ tokens \in {0, newest.tokens}
    /\ favorites \in {0, newest.favorites}

\* Nothing of a connection is left in the lists once it is gone and the
\* locks are free, whoever was loading them at the time (320-349).
NothingLeft ==
    channel = NoChannel /\ (\A k \in Locks : lock[k] = Free) =>
       tokens = 0 /\ favorites = 0

\* The variables have their types, and the tokens listed were read over the connection there is: connect takes
\* down the last one first (199-203).  A single thread only.
TokensOfThisConnection ==
    /\ TypeOK
    /\ channel # NoChannel /\ tokens # 0 => loaded

\* A single thread never reads past the end of a list, and the count of an
\* enterprise does not wrap.  It dies in two places: in refresh after a connect
\* that found no server, which keeps _channel and drops _msgProcessor, and in the
\* accessors of the last response when there is no connection.
TwoPlacesToDie ==
    \A t \in Threads :
       /\ ~At(t, "wrapped")
       /\ At(t, "crash") =>
             \/ thread[t].op = "refresh" /\ channel # NoChannel /\ ~processor
             \/ thread[t].op = "response" /\ channel = NoChannel

=============================================================================
