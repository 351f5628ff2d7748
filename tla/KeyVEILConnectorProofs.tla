----------------------- MODULE KeyVEILConnectorProofs -----------------------
(***************************************************************************)
(* Theorems about KeyVEILConnector, for any number of threads, channels    *)
(* and versions of the server's lists; two of them are about a connector   *)
(* that one thread uses alone.                                             *)
(***************************************************************************)
EXTENDS KeyVEILConnector, SequenceTheorems, TLAPS

-----------------------------------------------------------------------------
(* Where a thread is, and what it holds there *)

Places == {"idle", "end", "crash", "wrapped",
           "d_channel", "d_token", "d_favorite",
           "c_flag", "c_open", "c_connected", "c_end", "i_test",
           "t_ask", "t_merge", "f_ask", "f_merge",
           "r_clear", "r_open", "r_auth", "k_item", "e_others",
           "f_count", "f_counted", "f_item", "h_lock", "h_send", "q_send", "a_use"}

Frames == [op : Methods \union {"none"}, at : Places,
           ret : {"idle", "end", "c_flag", "c_open", "c_connected", "c_end", "f_counted"},
           snap : Channels \union {NoChannel}, index : Nat, count : Nat, answer : Nat]

\* Each part that is called comes back where its callers are.
ComesBack(r) ==
    CASE r.at \in {"d_channel", "d_token", "d_favorite"} ->
            r.ret \in {"idle", "end", "c_flag", "c_open", "c_end"}
      [] r.at \in {"t_ask", "t_merge"} -> r.ret \in {"c_connected", "c_end"}
      [] r.at \in {"f_ask", "f_merge"} -> r.ret \in {"f_counted", "c_end"}
      [] OTHER -> r.ret = "idle"

\* The methods that the places belong to, where it matters.
InMethod(r) ==
    /\ r.at \in {"r_clear", "r_open", "r_auth"} => r.op = "refresh"
    /\ r.at = "k_item" => r.op = "token"
    /\ r.at = "a_use" => r.op = "response"
    /\ r.at \in {"f_count", "f_counted", "f_item"} \/ r.ret = "f_counted" => r.op = "favorite"

FramesOK ==
    /\ thread \in [Threads -> Frames]
    /\ \A t \in Threads : ComesBack(thread[t]) /\ InMethod(thread[t])

\* The method holds _channelLock, apart from what disconnect takes.
InCall(r) ==
    \/ r.at \in {"c_connected", "c_end", "r_auth", "h_send"}
    \/ r.ret \in {"c_connected", "c_end"}
    \/ r.at = "crash" /\ r.op = "refresh"

\* How often a thread in frame r holds lock k.
Held(r, k) ==
    CASE k = "channel" ->
            (IF InCall(r) THEN 1 ELSE 0)
            + (IF r.at \in {"d_token", "d_favorite"} THEN 1 ELSE 0)
      [] k = "token" -> IF r.at = "d_favorite" THEN 1 ELSE 0
      [] k = "favorite" -> IF r.at = "f_counted" \/ r.ret = "f_counted" THEN 1 ELSE 0

\* A mutex is owned by the thread whose place in the code says it holds it, and
\* counts how often it does.
LocksAgree ==
    \A k \in Locks :
       /\ lock[k].owner = NoThread => lock[k].count = 0
       /\ \A t \in Threads :
             /\ lock[k].owner = t <=> Held(thread[t], k) > 0
             /\ lock[k].owner = t => lock[k].count = Held(thread[t], k)

-----------------------------------------------------------------------------
(* What the lists hold *)

\* disconnect has dropped _channel; no answer about tokens is there without it, and
\* what is left of the lists will be emptied.
Emptied ==
    /\ \A t \in Threads :
          /\ At(t, "d_token") \/ At(t, "d_favorite") => channel = NoChannel
          /\ At(t, "t_merge") => channel # NoChannel
          /\ At(t, "f_merge") /\ thread[t].ret = "c_end" => channel # NoChannel
    /\ channel = NoChannel /\ tokens # 0 => \E u \in Threads : At(u, "d_token")
    /\ channel = NoChannel /\ (favorites # 0 \/ \E t \in Threads : At(t, "f_merge")) =>
          \E u \in Threads : At(u, "d_token") \/ At(u, "d_favorite")

\* Answers come to the lists in the order in which the server gave them.
InOrder ==
    /\ newest \in [tokens : 0 .. server.tokens, favorites : 0 .. server.favorites]
    /\ \A t \in Threads :
          /\ At(t, "t_merge") => thread[t].answer \in newest.tokens .. server.tokens
          /\ At(t, "f_merge") => thread[t].answer \in newest.favorites .. server.favorites
    /\ \A t, u \in Threads :
          At(t, "f_merge") /\ thread[t].ret = "c_end" /\ At(u, "f_merge") =>
             thread[u].answer <= thread[t].answer

ServerOK == server \in [tokens : 1 .. Len(TokenLists), favorites : 1 .. Len(FavoriteLists)]

IInv == TypeOK /\ ServerOK /\ FramesOK /\ LocksAgree /\ Emptied /\ InOrder /\ NeverOlder

-----------------------------------------------------------------------------
(* One thread alone *)

\* The thread connects when there is no connection, and what it read before it had a
\* lock is still so.
Alone ==
    \A t \in Threads :
       /\ At(t, "c_flag") \/ At(t, "c_open") => channel = NoChannel
       /\ At(t, "k_item") => thread[t].index < TokenCount(tokens)
       /\ At(t, "e_others") => thread[t].count = TokenCount(tokens)
       /\ At(t, "f_item") => thread[t].index < FavoriteCount(favorites)
       /\ At(t, "r_clear") \/ At(t, "r_open") => thread[t].snap = channel
       /\ At(t, "a_use") => thread[t].snap = channel
       /\ At(t, "r_auth") => thread[t].snap = channel /\ channel # NoChannel

AloneInv == Alone /\ TokensOfThisConnection /\ TwoPlacesToDie

-----------------------------------------------------------------------------
(* The lists *)

\* The lists have sizes.
LEMMA CountsAreNat ==
    ASSUME TypeOK
    PROVE  /\ TokenCount(tokens) \in Nat
           /\ FavoriteCount(favorites) \in Nat
           /\ Items(TokenLists, tokens).mine \in Nat
           /\ Items(TokenLists, tokens).size = TokenCount(tokens)
<1>1. \A l \in {TokenLists, FavoriteLists} : \A v \in 1 .. Len(l) : l[v] \in [size : Nat, mine : Nat]
  BY ConnectorAssumption, ElementOfSeq
<1>2. ASSUME NEW l \in {TokenLists, FavoriteLists}, NEW v \in 0 .. Len(l)
      PROVE  Items(l, v) \in [size : Nat, mine : Nat]
  <2>1. CASE v = 0
    BY <2>1 DEF Items
  <2>2. CASE v # 0
    <3>1. Len(l) \in Nat
      BY ConnectorAssumption
    <3>2. v \in 1 .. Len(l)
      BY <2>2, <3>1
    <3>3. QED  BY <1>1, <2>2, <3>2 DEF Items
  <2>3. QED  BY <2>1, <2>2
<1>3. /\ Items(TokenLists, tokens) \in [size : Nat, mine : Nat]
      /\ Items(FavoriteLists, favorites) \in [size : Nat, mine : Nat]
  BY <1>2 DEF TypeOK
<1>4. QED  BY <1>3 DEF TokenCount, FavoriteCount

-----------------------------------------------------------------------------
(* One thread moves at a time *)

\* A thread goes on at another place of the same method.
LEMMA Goes ==
    ASSUME FramesOK, NEW t \in Threads, NEW l \in Places, Goto(t, l)
    PROVE  /\ thread' \in [Threads -> Frames]
           /\ thread'[t] = [thread[t] EXCEPT !.at = l]
           /\ thread'[t].at = l /\ thread'[t].ret = thread[t].ret
           /\ thread'[t].op = thread[t].op
           /\ \A u \in Threads : u # t => thread'[u] = thread[u]
<1>1. thread[t] \in Frames
  BY DEF FramesOK
<1>2. [thread[t] EXCEPT !.at = l] \in Frames
  BY <1>1 DEF Frames
<1>3. QED  BY <1>1, <1>2 DEF Frames, FramesOK, Goto

\* A thread calls a part.
LEMMA Calls ==
    ASSUME FramesOK, NEW t \in Threads, NEW l \in Places,
           NEW r \in {"end", "c_flag", "c_open", "c_connected", "c_end", "f_counted"},
           CallPart(t, l, r)
    PROVE  /\ thread' \in [Threads -> Frames]
           /\ thread'[t].at = l /\ thread'[t].ret = r /\ thread'[t].op = thread[t].op
           /\ \A u \in Threads : u # t => thread'[u] = thread[u]
<1>1. thread[t] \in Frames
  BY DEF FramesOK
<1>2. [thread[t] EXCEPT !.at = l, !.ret = r] \in Frames
  BY <1>1 DEF Frames
<1>3. QED  BY <1>1, <1>2 DEF Frames, FramesOK, CallPart

\* A part is over, or the whole method.
LEMMA Returns ==
    ASSUME FramesOK, NEW t \in Threads, Return(t)
    PROVE  /\ thread' \in [Threads -> Frames]
           /\ thread[t].ret = "idle" => thread'[t] = Idle
           /\ thread[t].ret # "idle" =>
                 /\ thread'[t] = [thread[t] EXCEPT !.at = thread[t].ret, !.ret = "idle"]
                 /\ thread'[t].op = thread[t].op
           /\ thread'[t].at = thread[t].ret /\ thread'[t].ret = "idle"
           /\ \A u \in Threads : u # t => thread'[u] = thread[u]
<1>1. thread[t] \in Frames /\ Idle \in Frames
  BY DEF FramesOK, Frames, Idle, Places
<1>2. thread[t].ret \in Places /\ "idle" \in Places
  BY <1>1 DEF Frames, Places
<1>3. [thread[t] EXCEPT !.at = thread[t].ret, !.ret = "idle"] \in Frames
  BY <1>1, <1>2 DEF Frames
<1>4. QED  BY <1>1, <1>3 DEF Frames, FramesOK, Return, Idle

\* A thread calls a method.
LEMMA Enters ==
    ASSUME TypeOK, FramesOK, NEW t \in Threads, NEW op, NEW l \in Places, Enter(t, op, l)
    PROVE  /\ thread' \in [Threads -> Frames]
           /\ thread'[t].at = l /\ thread'[t].ret = "idle" /\ thread'[t].op = op
           /\ thread'[t].snap = channel
           /\ \A u \in Threads : u # t => thread'[u] = thread[u]
           /\ thread[t].at = "idle" /\ thread[t].ret = "idle"
<1>1. thread[t] \in Frames
  BY DEF FramesOK
<1>2. [thread[t] EXCEPT !.op = op, !.at = l, !.snap = channel] \in Frames
  BY <1>1, ConnectorAssumption DEF Frames, TypeOK, Enter
<1>3. QED  BY <1>1, <1>2 DEF Frames, FramesOK, Enter, At, ComesBack

\* What a step of thread t leaves of the frames.
Moved(t) ==
    /\ thread' \in [Threads -> Frames]
    /\ ComesBack(thread'[t]) /\ InMethod(thread'[t])
    /\ \A u \in Threads : u # t => thread'[u] = thread[u]

\* A step moves its own thread only, to a place where its method may be.
LEMMA StepFrames ==
    ASSUME TypeOK, ServerOK, FramesOK, NEW t \in Threads, Step(t)
    PROVE  Moved(t)
<1> DEFINE r == thread[t]
<1>fr. r \in Frames /\ ComesBack(r) /\ InMethod(r)
  BY DEF FramesOK
<1>go. ASSUME NEW l \in Places, Goto(t, l),
             ComesBack([r EXCEPT !.at = l]), InMethod([r EXCEPT !.at = l])
       PROVE  Moved(t)
  BY <1>go, Goes DEF Moved
<1>call. ASSUME NEW l \in {"d_channel", "t_ask"}, NEW b \in {"end", "c_connected", "c_end"},
               CallPart(t, l, b),
               l = "t_ask" => b # "end",
               l = "d_channel" => b # "c_connected"
         PROVE  Moved(t)
  <2>1. l \in Places /\ b \in {"end", "c_flag", "c_open", "c_connected", "c_end", "f_counted"}
    BY DEF Places
  <2>2. /\ thread' \in [Threads -> Frames]
        /\ thread'[t].at = l /\ thread'[t].ret = b /\ thread'[t].op = r.op
        /\ \A u \in Threads : u # t => thread'[u] = thread[u]
    BY <1>call, <2>1, Calls
  <2>3. ComesBack(thread'[t]) /\ InMethod(thread'[t])
    BY <1>call, <2>2 DEF ComesBack, InMethod
  <2>4. QED  BY <2>2, <2>3 DEF Moved
<1>gone. ASSUME NEW l \in {"end", "crash", "wrapped", "c_end", "c_connected"}, r.ret = "idle"
         PROVE  ComesBack([r EXCEPT !.at = l]) /\ InMethod([r EXCEPT !.at = l])
  BY <1>fr, <1>gone DEF ComesBack, InMethod, Frames
<1> USE DEF Moved, At, Places, ComesBack, InMethod
<1>1. CASE \/ Disconnect(t) \/ IsConnected(t) \/ Refresh(t) \/ Favorite(t) \/ Change(t)
            \/ Request(t) \/ Response(t)
  <2>1. CASE Disconnect(t) \/ IsConnected(t)
    BY <2>1, <1>fr, Enters DEF Disconnect, IsConnected
  <2>2. CASE Refresh(t)
    BY <2>2, <1>fr, Enters DEF Refresh
  <2>3. CASE Favorite(t)
    BY <2>3, <1>fr, Enters DEF Favorite
  <2>4. CASE Change(t)
    BY <2>4, <1>fr, Enters DEF Change
  <2>5. CASE Request(t) \/ Response(t)
    BY <2>5, <1>fr, Enters DEF Request, Response
  <2>6. QED  BY <1>1, <2>1, <2>2, <2>3, <2>4, <2>5
<1>2. CASE DisconnectChannel(t) \/ DisconnectTokens(t)
  BY <1>2, <1>fr, Goes DEF DisconnectChannel, DisconnectTokens
<1>3. CASE DisconnectFavorites(t) \/ LeaveChannel(t) \/ Leave(t)
  BY <1>3, <1>fr, Returns DEF DisconnectFavorites, LeaveChannel, Leave, Idle
<1>4. ASSUME NEW op \in {"connect", "generic"}, Connect(t, op) PROVE Moved(t)
  <2> DEFINE to == [r EXCEPT !.op = op,
                       !.at = IF channel = NoChannel THEN ConnectAt(op) ELSE "d_channel",
                       !.ret = IF channel = NoChannel THEN "idle" ELSE ConnectAt(op)]
  <2>1. ConnectAt(op) \in {"c_flag", "c_open"}
    BY DEF ConnectAt
  <2>2. to \in Frames /\ ComesBack(to) /\ InMethod(to)
    <3>1. /\ op \in Methods
          /\ to.at \in {"c_flag", "c_open", "d_channel"}
          /\ to.at = "d_channel" => to.ret \in {"c_flag", "c_open"}
          /\ to.at # "d_channel" => to.ret = "idle"
      BY <1>fr, <2>1 DEF Frames, Methods
    <3>2. to \in Frames
      BY <1>fr, <3>1 DEF Frames
    <3>3. QED  BY <3>1, <3>2
  <2>3. thread' = [thread EXCEPT ![t] = to]
    BY <1>4 DEF Connect
  <2>4. QED  BY <2>2, <2>3 DEF FramesOK
<1>5. CASE ConnectGeneric(t) \/ ConnectDone(t)
  BY <1>5, <1>fr, Goes DEF ConnectGeneric, ConnectDone
<1>6. CASE ConnectOpen(t)
  <2>1. \/ Goto(t, "c_end") \/ Goto(t, "c_connected")
        \/ CallPart(t, "d_channel", "c_end") \/ CallPart(t, "t_ask", "c_connected")
    BY <1>6 DEF ConnectOpen
  <2>2. r.ret = "idle"
    BY <1>6, <1>fr DEF ConnectOpen
  <2>3. CASE Goto(t, "c_end") \/ Goto(t, "c_connected")
    BY <2>2, <2>3, <1>go, <1>gone
  <2>4. CASE CallPart(t, "d_channel", "c_end") \/ CallPart(t, "t_ask", "c_connected")
    BY <2>4, <1>call
  <2>5. QED  BY <2>1, <2>3, <2>4
<1>7. CASE IsConnectedTest(t)
  <2>1. CallPart(t, "d_channel", "end") \/ Goto(t, "end")
    BY <1>7 DEF IsConnectedTest, Test
  <2>2. r.ret = "idle"
    BY <1>7, <1>fr DEF IsConnectedTest
  <2>3. CASE CallPart(t, "d_channel", "end")
    BY <2>3, <1>call
  <2>4. CASE Goto(t, "end")
    BY <2>2, <2>4, <1>go, <1>gone
  <2>5. QED  BY <2>1, <2>3, <2>4
<1>8. CASE LoadTokensAsk(t)
  <2>1. CASE Return(t)
    BY <1>8, <1>fr, <2>1, Returns DEF LoadTokensAsk
  <2>2. CASE thread' = [thread EXCEPT ![t].at = "t_merge", ![t].answer = server.tokens]
    <3>1. [r EXCEPT !.at = "t_merge", !.answer = server.tokens] \in Frames
      <4>1. server.tokens \in Nat
        BY ConnectorAssumption DEF ServerOK
      <4>2. QED  BY <1>fr, <4>1 DEF Frames
    <3>2. QED  BY <1>8, <1>fr, <2>2, <3>1 DEF FramesOK, LoadTokensAsk
  <2>3. QED  BY <1>8, <2>1, <2>2 DEF LoadTokensAsk
<1>9. CASE LoadTokensMerge(t) \/ LoadFavoritesMerge(t)
  BY <1>9, <1>fr, Returns DEF LoadTokensMerge, LoadFavoritesMerge
<1>10. CASE LoadFavoritesAsk(t)
  <2>1. CASE Return(t)
    BY <1>10, <1>fr, <2>1, Returns DEF LoadFavoritesAsk
  <2>2. CASE thread' = [thread EXCEPT ![t].at = "f_merge", ![t].answer = server.favorites]
    <3>1. [r EXCEPT !.at = "f_merge", !.answer = server.favorites] \in Frames
      <4>1. server.favorites \in Nat
        BY ConnectorAssumption DEF ServerOK
      <4>2. QED  BY <1>fr, <4>1 DEF Frames
    <3>2. QED  BY <1>10, <1>fr, <2>2, <3>1 DEF FramesOK, LoadFavoritesAsk
  <2>3. QED  BY <1>10, <2>1, <2>2 DEF LoadFavoritesAsk
<1>11. CASE RefreshClear(t)
  BY <1>11, <1>fr, Goes DEF RefreshClear
<1>12. CASE RefreshOpen(t)
  <2>1. /\ r.at = "r_open"
        /\ Goto(t, "c_end") \/ Goto(t, "r_auth") \/ CallPart(t, "d_channel", "c_end")
    BY <1>12 DEF RefreshOpen
  <2>2. CASE Goto(t, "c_end")
    BY <1>fr, <2>1, <2>2, <1>go, <1>gone
  <2>3. CASE Goto(t, "r_auth")
    <3>1. ComesBack([r EXCEPT !.at = "r_auth"]) /\ InMethod([r EXCEPT !.at = "r_auth"])
      BY <1>fr, <2>1 DEF Frames
    <3>2. QED  BY <2>3, <3>1, <1>go
  <2>4. CASE CallPart(t, "d_channel", "c_end")
    BY <2>4, <1>call
  <2>5. QED  BY <2>1, <2>2, <2>3, <2>4
<1>13. CASE RefreshAuthenticate(t)
  <2>1. /\ r.at = "r_auth"
        /\ \/ Goto(t, "c_end") \/ Goto(t, "crash")
           \/ CallPart(t, "d_channel", "c_end") \/ CallPart(t, "t_ask", "c_end")
    BY <1>13 DEF RefreshAuthenticate, RefreshLoad
  <2>2. CASE Goto(t, "c_end") \/ Goto(t, "crash")
    <3>1. r.ret = "idle"
      BY <1>fr, <2>1
    <3>2. QED  BY <2>2, <3>1, <1>go, <1>gone
  <2>3. CASE CallPart(t, "d_channel", "c_end") \/ CallPart(t, "t_ask", "c_end")
    BY <2>3, <1>call
  <2>4. QED  BY <2>1, <2>2, <2>3
<1>14. CASE Token(t)
  <2>1. PICK i \in 0 .. TokenCount(tokens) :
           thread' = [thread EXCEPT ![t].op = "token", ![t].index = i,
                         ![t].at = IF i < TokenCount(tokens) THEN "k_item" ELSE "end"]
    BY <1>14 DEF Token
  <2>a. PICK a : a = IF i < TokenCount(tokens) THEN "k_item" ELSE "end"
    OBVIOUS
  <2>b. PICK to : to = [r EXCEPT !.op = "token", !.index = i, !.at = a]
    OBVIOUS
  <2>2. i \in Nat /\ a \in {"k_item", "end"}
    BY <2>a, CountsAreNat
  <2>m. "token" \in Methods
    BY DEF Methods
  <2>3. to \in Frames
    BY <1>fr, <2>2, <2>b, <2>m DEF Frames
  <2>c. /\ r.at \in Places /\ r.ret = "idle"
        /\ to.op = "token" /\ to.at = a /\ to.ret = r.ret
    BY <1>14, <1>fr, <2>2, <2>b DEF Token, Frames
  <2>4. ComesBack(to) /\ InMethod(to)
    BY <2>2, <2>c
  <2>5. thread' = [thread EXCEPT ![t] = to]
    BY <1>fr, <2>1, <2>a, <2>b DEF FramesOK
  <2>6. QED  BY <2>3, <2>4, <2>5 DEF FramesOK
<1>15. CASE \/ TokenItem(t) \/ TokenCountOthers(t) \/ FavoriteItem(t)
            \/ RequestSend(t) \/ ResponseUse(t)
  <2>1. /\ r.at \in {"k_item", "e_others", "f_item", "q_send", "a_use"}
        /\ Goto(t, "end") \/ Goto(t, "crash") \/ Goto(t, "wrapped")
    BY <1>15 DEF TokenItem, TokenCountOthers, FavoriteItem, RequestSend, ResponseUse
  <2>2. r.ret = "idle"
    BY <1>fr, <2>1
  <2>3. QED  BY <2>1, <2>2, <1>go, <1>gone
<1>16. CASE TokenCountForEnterprise(t)
  <2> DEFINE to == [r EXCEPT !.op = "enterprise", !.at = "e_others",
                       !.count = TokenCount(tokens)]
  <2>1. TokenCount(tokens) \in Nat /\ "enterprise" \in Methods
    BY CountsAreNat DEF Methods
  <2>2. to \in Frames
    BY <1>fr, <2>1 DEF Frames
  <2>3. to.at = "e_others" /\ to.ret = "idle"
    BY <1>16, <1>fr DEF TokenCountForEnterprise, Frames
  <2>4. ComesBack(to) /\ InMethod(to)
    BY <2>3
  <2>5. QED  BY <1>16, <2>2, <2>4 DEF FramesOK, TokenCountForEnterprise
<1>17. CASE FavoriteCountLock(t)
  <2>1. CASE Goto(t, "f_counted")
    BY <1>17, <1>fr, <2>1, Goes DEF FavoriteCountLock
  <2>2. CASE thread' = [thread EXCEPT ![t].snap = channel, ![t].at = "f_ask",
                                      ![t].ret = "f_counted"]
    <3> DEFINE to == [r EXCEPT !.snap = channel, !.at = "f_ask", !.ret = "f_counted"]
    <3>1. to \in Frames /\ ComesBack(to) /\ InMethod(to)
      BY <1>17, <1>fr DEF FavoriteCountLock, Frames, TypeOK
    <3>2. QED  BY <2>2, <3>1 DEF FramesOK
  <2>3. QED  BY <1>17, <2>1, <2>2 DEF FavoriteCountLock
<1>18. CASE FavoriteCounted(t)
  <2>1. PICK i \in 0 .. FavoriteCount(favorites) :
           thread' = [thread EXCEPT ![t].index = i,
                         ![t].at = IF i < FavoriteCount(favorites) THEN "f_item" ELSE "end"]
    BY <1>18 DEF FavoriteCounted
  <2> DEFINE to == [r EXCEPT !.index = i,
                       !.at = IF i < FavoriteCount(favorites) THEN "f_item" ELSE "end"]
  <2>2. i \in Nat
    BY CountsAreNat
  <2>3. to \in Frames /\ ComesBack(to) /\ InMethod(to)
    BY <1>18, <1>fr, <2>2 DEF FavoriteCounted, Frames
  <2>4. QED  BY <2>1, <2>3 DEF FramesOK
<1>19. CASE ChangeLock(t)
  <2>1. /\ r.at = "h_lock"
        /\ CallPart(t, "d_channel", "c_end") \/ Goto(t, "h_send") \/ Goto(t, "c_end")
    BY <1>19 DEF ChangeLock, Test
  <2>2. CASE Goto(t, "h_send") \/ Goto(t, "c_end")
    <3>1. /\ thread'[t].at \in {"h_send", "c_end"} /\ thread'[t].ret = r.ret
          /\ thread' \in [Threads -> Frames]
          /\ \A u \in Threads : u # t => thread'[u] = thread[u]
      BY <2>2, Goes
    <3>2. r.ret = "idle"
      BY <1>fr, <2>1
    <3>3. ComesBack(thread'[t]) /\ InMethod(thread'[t])
      BY <3>1, <3>2
    <3>4. QED  BY <3>1, <3>3
  <2>3. CASE CallPart(t, "d_channel", "c_end")
    BY <2>3, <1>call
  <2>4. QED  BY <2>1, <2>2, <2>3
<1>20. CASE ChangeSend(t)
  <2>1. CASE Goto(t, "c_end")
    BY <1>20, <1>fr, <2>1, Goes DEF ChangeSend
  <2>2. CASE thread' = [thread EXCEPT ![t].at = "f_ask", ![t].ret = "c_end",
                                      ![t].snap = channel]
    <3> DEFINE to == [r EXCEPT !.at = "f_ask", !.ret = "c_end", !.snap = channel]
    <3>1. r.at = "h_send"
      BY <1>20 DEF ChangeSend
    <3>2. to \in Frames
      BY <1>fr DEF Frames, TypeOK
    <3>3. to.at = "f_ask" /\ to.ret = "c_end"
      BY <1>fr DEF Frames
    <3>4. ComesBack(to) /\ InMethod(to)
      BY <3>3
    <3>5. QED  BY <2>2, <3>2, <3>4 DEF FramesOK
  <2>3. QED  BY <1>20, <2>1, <2>2 DEF ChangeSend
<1>21. QED
  BY <1>1, <1>2, <1>3, <1>4, <1>5, <1>6, <1>7, <1>8, <1>9, <1>10, <1>11, <1>12, <1>13,
     <1>14, <1>15, <1>16, <1>17, <1>18, <1>19, <1>20 DEF Step

-----------------------------------------------------------------------------
(* The locks *)

LockStates == [owner : Threads \union {NoThread}, count : 0 .. 5]

\* No thread holds a lock more than twice.
LEMMA HeldTwice ==
    ASSUME NEW r, NEW k \in Locks
    PROVE  Held(r, k) \in 0 .. 2
<1>1. QED  BY DEF Held, Locks

\* Lock k is as it was, and thread t holds it as before; t takes it; t lets it go.
Kept(t, k) ==
    lock'[k] = lock[k] /\ Held(thread'[t], k) = Held(thread[t], k)
TakenOnce(t, k) ==
    /\ MayLock(t, k)
    /\ lock'[k] = [owner |-> t, count |-> lock[k].count + 1]
    /\ Held(thread'[t], k) = Held(thread[t], k) + 1
LetGo(t, k) ==
    /\ Held(thread[t], k) > 0
    /\ lock'[k] = IF lock[k].count = 1 THEN Free ELSE [lock[k] EXCEPT !.count = @ - 1]
    /\ Held(thread'[t], k) = Held(thread[t], k) - 1

\* While one thread takes and lets go of locks as its place says, all the locks agree.
LEMMA LockStep ==
    ASSUME TypeOK, LocksAgree, NEW t \in Threads, Moved(t),
           lock' = [k \in Locks |-> lock'[k]],
           \A k \in Locks : Kept(t, k) \/ TakenOnce(t, k) \/ LetGo(t, k)
    PROVE  LocksAgree' /\ lock' \in [Locks -> LockStates]
<1> SUFFICES ASSUME NEW k \in Locks
             PROVE  /\ lock'[k] \in LockStates
                    /\ lock'[k].owner = NoThread => lock'[k].count = 0
                    /\ \A u \in Threads :
                          /\ lock'[k].owner = u <=> Held(thread'[u], k) > 0
                          /\ lock'[k].owner = u => lock'[k].count = Held(thread'[u], k)
  BY DEF LocksAgree
<1>1. /\ lock[k].owner = NoThread => lock[k].count = 0
      /\ \A u \in Threads :
            /\ lock[k].owner = u <=> Held(thread[u], k) > 0
            /\ lock[k].owner = u => lock[k].count = Held(thread[u], k)
  BY DEF LocksAgree
<1>2. \A u \in Threads : u # t => thread'[u] = thread[u]
  BY DEF Moved
<1>3. \A r : Held(r, k) \in 0 .. 2
  BY HeldTwice
<1>4. lock[k] \in LockStates
  BY DEF TypeOK, LockStates
<1>5. CASE Kept(t, k)
  BY <1>1, <1>2, <1>4, <1>5 DEF Kept
<1>6. CASE TakenOnce(t, k)
  <2>1. lock[k].owner \in {t, NoThread} /\ lock[k].count = Held(thread[t], k)
    <3>1. lock[k].owner \in {t, NoThread}
      BY <1>6 DEF TakenOnce, MayLock
    <3>2. Held(thread[t], k) \in 0 .. 2
      BY <1>3
    <3>3. CASE lock[k].owner = t
      BY <1>1, <3>3
    <3>4. CASE lock[k].owner = NoThread
      <4>1. ~(Held(thread[t], k) > 0)
        BY <1>1, <3>4, ConnectorAssumption
      <4>2. QED  BY <1>1, <3>2, <3>4, <4>1
    <3>5. QED  BY <3>1, <3>3, <3>4
  <2>2. \A u \in Threads : u # t => ~(Held(thread'[u], k) > 0)
    BY <1>1, <1>2, <2>1, ConnectorAssumption
  <2>3. /\ lock'[k].owner = t /\ lock'[k].count = Held(thread'[t], k)
        /\ lock'[k].count \in 1 .. 2
    BY <1>3, <1>6, <2>1 DEF TakenOnce
  <2>4. lock'[k] \in LockStates
    BY <1>6, <2>3 DEF TakenOnce, LockStates
  <2>5. QED  BY <2>2, <2>3, <2>4, ConnectorAssumption
<1>7. CASE LetGo(t, k)
  <2>1. lock[k].owner = t /\ lock[k].count = Held(thread[t], k)
    BY <1>1, <1>7 DEF LetGo
  <2>2. \A u \in Threads : u # t => ~(Held(thread'[u], k) > 0)
    BY <1>1, <1>2, <2>1
  <2>3. CASE lock[k].count = 1
    <3>1. lock'[k] = Free /\ Held(thread'[t], k) = 0
      BY <1>7, <2>1, <2>3 DEF LetGo
    <3>2. QED  BY <2>2, <3>1, ConnectorAssumption DEF Free, LockStates
  <2>4. CASE lock[k].count # 1
    <3>1. /\ lock'[k] = [lock[k] EXCEPT !.count = @ - 1]
          /\ Held(thread'[t], k) = Held(thread[t], k) - 1
      BY <1>7, <2>1, <2>4 DEF LetGo
    <3>2. lock[k].count = 2
      BY <1>3, <1>7, <2>1, <2>4 DEF LetGo
    <3>3. lock'[k] \in LockStates /\ lock'[k].owner = t /\ lock'[k].count = 1
      BY <1>4, <2>1, <3>1, <3>2 DEF LockStates
    <3>4. QED  BY <2>1, <2>2, <3>1, <3>2, <3>3, ConnectorAssumption
  <2>5. QED  BY <2>3, <2>4
<1>8. QED  BY <1>5, <1>6, <1>7

\* What the two changes of a lock do.
LEMMA TakenAndDropped ==
    ASSUME TypeOK, NEW t \in Threads, NEW k \in Locks
    PROVE  /\ Taken(t, k) = [j \in Locks |-> Taken(t, k)[j]]
           /\ Taken(t, k)[k] = [owner |-> t, count |-> lock[k].count + 1]
           /\ \A j \in Locks : j # k => Taken(t, k)[j] = lock[j]
           /\ Dropped(lock, k) = [j \in Locks |-> Dropped(lock, k)[j]]
           /\ Dropped(lock, k)[k] = IF lock[k].count = 1 THEN Free
                                    ELSE [lock[k] EXCEPT !.count = @ - 1]
           /\ \A j \in Locks : j # k => Dropped(lock, k)[j] = lock[j]
<1>1. DOMAIN lock = Locks /\ lock = [j \in Locks |-> lock[j]]
  BY DEF TypeOK
<1>2. /\ Taken(t, k) = [j \in Locks |-> Taken(t, k)[j]]
      /\ Dropped(lock, k) = [j \in Locks |-> Dropped(lock, k)[j]]
  BY <1>1 DEF Taken, Dropped
<1>3. /\ Taken(t, k)[k] = [owner |-> t, count |-> lock[k].count + 1]
      /\ \A j \in Locks : j # k => Taken(t, k)[j] = lock[j]
  BY <1>1 DEF Taken
<1>4. /\ Dropped(lock, k)[k] = IF lock[k].count = 1 THEN Free
                               ELSE [lock[k] EXCEPT !.count = @ - 1]
      /\ \A j \in Locks : j # k => Dropped(lock, k)[j] = lock[j]
  BY <1>1 DEF Dropped
<1>5. QED  BY <1>2, <1>3, <1>4

\* How a step changes the locks.
LocksMove(t) ==
    /\ lock' = [k \in Locks |-> lock'[k]]
    /\ \A k \in Locks : Kept(t, k) \/ TakenOnce(t, k) \/ LetGo(t, k)

\* The locks stay, and the places before and after hold the same.
LEMMA NoLock ==
    ASSUME TypeOK, NEW t \in Threads, UNCHANGED lock,
           \A k \in Locks : Held(thread'[t], k) = Held(thread[t], k)
    PROVE  LocksMove(t)
<1>1. lock = [k \in Locks |-> lock[k]]
  BY DEF TypeOK
<1>2. QED  BY <1>1 DEF LocksMove, Kept

\* Lock k is taken, and the place after holds it once more.
LEMMA OneTaken ==
    ASSUME TypeOK, NEW t \in Threads, NEW k \in Locks, MayLock(t, k), lock' = Taken(t, k),
           Held(thread'[t], k) = Held(thread[t], k) + 1,
           \A j \in Locks \ {k} : Held(thread'[t], j) = Held(thread[t], j)
    PROVE  LocksMove(t)
<1>1. TakenOnce(t, k)
  BY TakenAndDropped DEF TakenOnce
<1>2. \A j \in Locks \ {k} : Kept(t, j)
  <2>1. \A j \in Locks : j # k => lock'[j] = lock[j]
    BY TakenAndDropped
  <2>2. QED  BY <2>1 DEF Kept
<1>3. Taken(t, k) = [j \in Locks |-> Taken(t, k)[j]]
  BY TakenAndDropped
<1>4. lock' = [j \in Locks |-> lock'[j]]
  BY <1>3
<1>5. QED  BY <1>1, <1>2, <1>4 DEF LocksMove

\* Lock k is let go, and the place before held it.
LEMMA OneDropped ==
    ASSUME TypeOK, NEW t \in Threads, NEW k \in Locks, lock' = Dropped(lock, k),
           Held(thread[t], k) = Held(thread'[t], k) + 1,
           \A j \in Locks \ {k} : Held(thread'[t], j) = Held(thread[t], j)
    PROVE  LocksMove(t)
<1>1. Held(thread[t], k) \in 0 .. 2 /\ Held(thread'[t], k) \in 0 .. 2
  BY HeldTwice
<1>2. LetGo(t, k)
  <2>1. Held(thread[t], k) > 0 /\ Held(thread'[t], k) = Held(thread[t], k) - 1
    BY <1>1
  <2>2. lock'[k] = IF lock[k].count = 1 THEN Free ELSE [lock[k] EXCEPT !.count = @ - 1]
    BY TakenAndDropped
  <2>3. QED  BY <2>1, <2>2 DEF LetGo
<1>3. \A j \in Locks \ {k} : Kept(t, j)
  BY TakenAndDropped DEF Kept
<1>4. Dropped(lock, k) = [j \in Locks |-> Dropped(lock, k)[j]]
  BY TakenAndDropped
<1>5. lock' = [j \in Locks |-> lock'[j]]
  BY <1>4
<1>6. QED  BY <1>2, <1>3, <1>5 DEF LocksMove

\* Every step takes and lets go of the locks that its places say.
LEMMA StepLocks ==
    ASSUME TypeOK, FramesOK, NEW t \in Threads, Step(t)
    PROVE  LocksMove(t)
<1> DEFINE r == thread[t]
           Same == \A k \in Locks : Held(thread'[t], k) = Held(thread[t], k)
<1>fr. r \in Frames /\ ComesBack(r) /\ InMethod(r)
  BY DEF FramesOK
<1> USE DEF At, Places, Held, InCall, Locks
<1>1. CASE \/ Disconnect(t) \/ IsConnected(t) \/ Refresh(t) \/ Favorite(t) \/ Change(t)
            \/ Request(t) \/ Response(t)
  <2>1. UNCHANGED lock
    BY <1>1 DEF Disconnect, IsConnected, Refresh, Favorite, Change, Request, Response
  <2>2. /\ r.at = "idle" /\ r.ret = "idle" /\ thread'[t].ret = "idle"
        /\ thread'[t].at \in {"d_channel", "i_test", "r_clear", "f_count", "h_lock",
                               "q_send", "a_use"}
    BY <1>1, Enters DEF Disconnect, IsConnected, Refresh, Favorite, Change,
       Request, Response
  <2>3. QED  BY <2>1, <2>2, NoLock
<1>2. CASE DisconnectChannel(t)
  <2>1. /\ r.at = "d_channel" /\ thread'[t].at = "d_token" /\ thread'[t].ret = r.ret
        /\ MayLock(t, "channel") /\ lock' = Taken(t, "channel")
    BY <1>2, Goes DEF DisconnectChannel
  <2>2. QED  BY <2>1, OneTaken
<1>3. CASE DisconnectTokens(t)
  <2>1. /\ r.at = "d_token" /\ thread'[t].at = "d_favorite" /\ thread'[t].ret = r.ret
        /\ MayLock(t, "token") /\ lock' = Taken(t, "token")
    BY <1>3, Goes DEF DisconnectTokens
  <2>2. QED  BY <2>1, OneTaken
<1>4. CASE DisconnectFavorites(t)
  <2>1. /\ Held(r, "token") = 1 /\ Held(thread'[t], "token") = 0
        /\ Held(r, "channel") = Held(thread'[t], "channel") + 1
        /\ Held(r, "favorite") = Held(thread'[t], "favorite")
    <3>1. /\ r.at = "d_favorite" /\ thread'[t].at = r.ret /\ thread'[t].ret = "idle"
          /\ r.ret \in {"idle", "end", "c_flag", "c_open", "c_end"}
      BY <1>4, <1>fr, Returns DEF DisconnectFavorites, ComesBack
    <3>2. QED  BY <3>1
  <2>2. Held(thread'[t], "channel") \in 0 .. 2
    BY HeldTwice
  <2>3. lock' = Dropped(Dropped(lock, "token"), "channel")
    BY <1>4 DEF DisconnectFavorites
  <2>4. /\ lock' = [j \in Locks |-> lock'[j]] /\ lock'["favorite"] = lock["favorite"]
        /\ lock'["token"] = Dropped(lock, "token")["token"]
        /\ lock'["channel"] = IF lock["channel"].count = 1 THEN Free
                              ELSE [lock["channel"] EXCEPT !.count = @ - 1]
    BY <2>3 DEF TypeOK, Dropped
  <2>5. LetGo(t, "token")
    <3>1. lock'["token"] = IF lock["token"].count = 1 THEN Free
                           ELSE [lock["token"] EXCEPT !.count = @ - 1]
      BY <2>4, TakenAndDropped
    <3>2. QED  BY <2>1, <3>1 DEF LetGo
  <2>6. LetGo(t, "channel")
    BY <2>1, <2>2, <2>4 DEF LetGo
  <2>7. Kept(t, "favorite")
    BY <2>1, <2>4 DEF Kept
  <2>8. QED  BY <2>4, <2>5, <2>6, <2>7 DEF LocksMove
<1>5. ASSUME NEW op \in {"connect", "generic"}, Connect(t, op) PROVE LocksMove(t)
  <2>1. thread'[t].at \in {"d_channel", "c_flag", "c_open"} /\ thread'[t].ret \in {"idle", "c_flag", "c_open"}
    BY <1>5, <1>fr DEF Connect, ConnectAt, FramesOK, Frames
  <2>2. Same
    BY <1>5, <1>fr, <2>1 DEF Connect, ComesBack
  <2>3. QED  BY <1>5, <2>2, NoLock DEF Connect
<1>6. CASE ConnectGeneric(t)
  BY <1>6, Goes, NoLock DEF ConnectGeneric
<1>7. CASE ConnectOpen(t)
  <2>1. \/ Goto(t, "c_end") \/ Goto(t, "c_connected")
        \/ CallPart(t, "d_channel", "c_end") \/ CallPart(t, "t_ask", "c_connected")
    BY <1>7 DEF ConnectOpen
  <2>2. r.at = "c_open" /\ r.ret = "idle" /\ MayLock(t, "channel") /\ lock' = Taken(t, "channel")
    BY <1>7, <1>fr DEF ConnectOpen, ComesBack
  <2>3. \/ thread'[t].at \in {"c_end", "c_connected"} /\ thread'[t].ret = "idle"
        \/ thread'[t].at \in {"d_channel", "t_ask"} /\ thread'[t].ret \in {"c_end", "c_connected"}
    <3>1. CASE Goto(t, "c_end") \/ Goto(t, "c_connected")
      BY <2>2, <3>1, Goes
    <3>2. CASE CallPart(t, "d_channel", "c_end")
      BY <3>2, Calls
    <3>3. CASE CallPart(t, "t_ask", "c_connected")
      BY <3>3, Calls
    <3>4. QED  BY <2>1, <3>1, <3>2, <3>3
  <2>4. QED  BY <2>2, <2>3, OneTaken
<1>8. CASE ConnectDone(t)
  <2>1. /\ r.at = "c_connected" /\ r.ret = "idle" /\ UNCHANGED lock
        /\ thread'[t].at = "c_end" /\ thread'[t].ret = "idle"
    BY <1>8, <1>fr, Goes DEF ConnectDone, ComesBack
  <2>2. QED  BY <2>1, NoLock
<1>9. CASE LeaveChannel(t)
  <2>1. /\ r.at = "c_end" /\ r.ret = "idle" /\ lock' = Dropped(lock, "channel")
        /\ thread'[t].at = "idle" /\ thread'[t].ret = "idle"
    BY <1>9, <1>fr, Returns DEF LeaveChannel, ComesBack
  <2>2. QED  BY <2>1, OneDropped
<1>10. CASE IsConnectedTest(t)
  <2>1. CallPart(t, "d_channel", "end") \/ Goto(t, "end")
    BY <1>10 DEF IsConnectedTest, Test
  <2>2. r.at = "i_test" /\ r.ret = "idle" /\ UNCHANGED lock
    BY <1>10, <1>fr DEF IsConnectedTest, ComesBack
  <2>3. thread'[t].at \in {"end", "d_channel"} /\ thread'[t].ret \in {"idle", "end"}
    BY <2>1, <2>2, Goes, Calls
  <2>4. QED  BY <2>2, <2>3, NoLock
<1>11. CASE Leave(t)
  BY <1>11, <1>fr, Returns, NoLock DEF Leave, ComesBack
<1>12. CASE LoadTokensAsk(t) \/ LoadTokensMerge(t) \/ LoadFavoritesMerge(t)
  <2>1. UNCHANGED lock
    BY <1>12 DEF LoadTokensAsk, LoadTokensMerge, LoadFavoritesMerge
  <2>2. CASE Return(t)
    <3>1. r.at \in {"t_ask", "t_merge", "f_merge"}
      BY <1>12 DEF LoadTokensAsk, LoadTokensMerge, LoadFavoritesMerge
    <3>2. Same
      BY <1>fr, <2>2, <3>1, Returns DEF ComesBack
    <3>3. QED  BY <2>1, <3>2, NoLock
  <2>3. CASE LoadTokensAsk(t) /\ thread' = [thread EXCEPT ![t].at = "t_merge", ![t].answer = server.tokens]
    <3>1. thread'[t].at = "t_merge" /\ thread'[t].ret = r.ret
      BY <1>fr, <2>3 DEF FramesOK, Frames
    <3>2. Same
      BY <2>3, <3>1 DEF LoadTokensAsk
    <3>3. QED  BY <2>1, <3>2, NoLock
  <2>4. QED  BY <1>12, <2>2, <2>3 DEF LoadTokensAsk, LoadTokensMerge, LoadFavoritesMerge
<1>13. CASE LoadFavoritesAsk(t)
  <2>1. UNCHANGED lock /\ r.at = "f_ask"
    BY <1>13 DEF LoadFavoritesAsk
  <2>2. CASE Return(t)
    <3>1. Same
      BY <1>fr, <2>1, <2>2, Returns DEF ComesBack
    <3>2. QED  BY <2>1, <3>1, NoLock
  <2>3. CASE thread' = [thread EXCEPT ![t].at = "f_merge", ![t].answer = server.favorites]
    <3>1. thread'[t].at = "f_merge" /\ thread'[t].ret = r.ret
      BY <1>fr, <2>3 DEF FramesOK, Frames
    <3>2. QED  BY <2>1, <3>1, NoLock
  <2>4. QED  BY <1>13, <2>2, <2>3 DEF LoadFavoritesAsk
<1>14. CASE RefreshClear(t)
  BY <1>14, Goes, NoLock DEF RefreshClear
<1>15. CASE RefreshOpen(t)
  <2>1. /\ r.at = "r_open" /\ r.ret = "idle" /\ MayLock(t, "channel") /\ lock' = Taken(t, "channel")
        /\ Goto(t, "c_end") \/ Goto(t, "r_auth") \/ CallPart(t, "d_channel", "c_end")
    BY <1>15, <1>fr DEF RefreshOpen, ComesBack
  <2>2. \/ thread'[t].at \in {"c_end", "r_auth"} /\ thread'[t].ret = "idle"
        \/ thread'[t].at = "d_channel" /\ thread'[t].ret = "c_end"
    BY <2>1, Goes, Calls
  <2>3. QED  BY <2>1, <2>2, OneTaken
<1>16. CASE RefreshAuthenticate(t)
  <2>1. /\ r.at = "r_auth" /\ r.ret = "idle" /\ r.op = "refresh" /\ UNCHANGED lock
        /\ \/ Goto(t, "c_end") \/ Goto(t, "crash")
           \/ CallPart(t, "d_channel", "c_end") \/ CallPart(t, "t_ask", "c_end")
    BY <1>16, <1>fr DEF RefreshAuthenticate, RefreshLoad, ComesBack, InMethod
  <2>2. /\ thread'[t].op = "refresh"
        /\ \/ thread'[t].at \in {"c_end", "crash"} /\ thread'[t].ret = "idle"
           \/ thread'[t].at \in {"d_channel", "t_ask"} /\ thread'[t].ret = "c_end"
    <3>1. CASE Goto(t, "c_end") \/ Goto(t, "crash")
      BY <2>1, <3>1, Goes
    <3>2. CASE CallPart(t, "d_channel", "c_end")
      BY <2>1, <3>2, Calls
    <3>3. CASE CallPart(t, "t_ask", "c_end")
      BY <2>1, <3>3, Calls
    <3>4. QED  BY <2>1, <3>1, <3>2, <3>3
  <2>3. QED  BY <2>1, <2>2, NoLock
<1>17. CASE Token(t) \/ TokenCountForEnterprise(t)
  <2>1. UNCHANGED lock /\ r.at = "idle" /\ r.ret = "idle"
    BY <1>17, <1>fr DEF Token, TokenCountForEnterprise, ComesBack
  <2>2. thread'[t].at \in {"k_item", "end", "e_others"} /\ thread'[t].ret = "idle"
    <3>1. CASE Token(t)
      BY <1>fr, <2>1, <3>1 DEF Token, FramesOK, Frames
    <3>2. CASE TokenCountForEnterprise(t)
      BY <1>fr, <2>1, <3>2 DEF TokenCountForEnterprise, FramesOK, Frames
    <3>3. QED  BY <1>17, <3>1, <3>2
  <2>3. QED  BY <2>1, <2>2, NoLock
<1>18. CASE TokenItem(t) \/ TokenCountOthers(t) \/ FavoriteItem(t)
  <2>1. /\ UNCHANGED lock /\ r.at \in {"k_item", "e_others", "f_item"} /\ r.ret = "idle"
        /\ r.op # "refresh" \/ r.at = "e_others"
    BY <1>18, <1>fr DEF TokenItem, TokenCountOthers, FavoriteItem, ComesBack, InMethod
  <2>2. /\ thread'[t].at \in {"end", "crash", "wrapped"} /\ thread'[t].ret = "idle"
        /\ thread'[t].op = r.op /\ (r.at = "e_others" => thread'[t].at # "crash")
    BY <1>18, <2>1, Goes DEF TokenItem, TokenCountOthers, FavoriteItem
  <2>3. QED  BY <2>1, <2>2, NoLock
<1>19. CASE FavoriteCountLock(t)
  <2>1. r.at = "f_count" /\ r.ret = "idle" /\ MayLock(t, "favorite") /\ lock' = Taken(t, "favorite")
    BY <1>19, <1>fr DEF FavoriteCountLock, ComesBack
  <2>2. \/ thread'[t].at = "f_counted" /\ thread'[t].ret = "idle"
        \/ thread'[t].at = "f_ask" /\ thread'[t].ret = "f_counted"
    <3>1. CASE Goto(t, "f_counted")
      BY <2>1, <3>1, Goes
    <3>2. CASE thread' = [thread EXCEPT ![t].snap = channel, ![t].at = "f_ask",
                                        ![t].ret = "f_counted"]
      BY <1>fr, <3>2 DEF FramesOK, Frames
    <3>3. QED  BY <1>19, <3>1, <3>2 DEF FavoriteCountLock
  <2>3. QED  BY <2>1, <2>2, OneTaken
<1>20. CASE FavoriteCounted(t)
  <2>1. r.at = "f_counted" /\ r.ret = "idle" /\ lock' = Dropped(lock, "favorite")
    BY <1>20, <1>fr DEF FavoriteCounted, ComesBack
  <2>2. thread'[t].at \in {"f_item", "end"} /\ thread'[t].ret = "idle"
    BY <1>20, <1>fr, <2>1 DEF FavoriteCounted, FramesOK, Frames
  <2>3. QED  BY <2>1, <2>2, OneDropped
<1>21. CASE ChangeLock(t)
  <2>1. /\ r.at = "h_lock" /\ r.ret = "idle" /\ MayLock(t, "channel") /\ lock' = Taken(t, "channel")
        /\ CallPart(t, "d_channel", "c_end") \/ Goto(t, "h_send") \/ Goto(t, "c_end")
    BY <1>21, <1>fr DEF ChangeLock, Test, ComesBack
  <2>2. \/ thread'[t].at \in {"c_end", "h_send"} /\ thread'[t].ret = "idle"
        \/ thread'[t].at = "d_channel" /\ thread'[t].ret = "c_end"
    BY <2>1, Goes, Calls
  <2>3. QED  BY <2>1, <2>2, OneTaken
<1>22. CASE ChangeSend(t)
  <2>1. r.at = "h_send" /\ r.ret = "idle" /\ UNCHANGED lock
    BY <1>22, <1>fr DEF ChangeSend, ComesBack
  <2>2. \/ thread'[t].at = "c_end" /\ thread'[t].ret = "idle"
        \/ thread'[t].at = "f_ask" /\ thread'[t].ret = "c_end"
    <3>1. CASE Goto(t, "c_end")
      BY <2>1, <3>1, Goes DEF Places
    <3>2. CASE thread' = [thread EXCEPT ![t].at = "f_ask", ![t].ret = "c_end",
                                        ![t].snap = channel]
      BY <1>fr, <3>2 DEF FramesOK, Frames
    <3>3. QED  BY <1>22, <3>1, <3>2 DEF ChangeSend
  <2>3. QED  BY <2>1, <2>2, NoLock
<1>23. CASE RequestSend(t) \/ ResponseUse(t)
  <2>1. /\ UNCHANGED lock /\ r.at \in {"q_send", "a_use"} /\ r.ret = "idle"
        /\ r.at = "a_use" => r.op = "response"
    BY <1>23, <1>fr DEF RequestSend, ResponseUse, ComesBack, InMethod
  <2>2. /\ thread'[t].at \in {"end", "crash"} /\ thread'[t].ret = "idle"
        /\ thread'[t].at = "crash" => thread'[t].op = "response"
    BY <1>23, <2>1, Goes DEF RequestSend, ResponseUse
  <2>3. QED  BY <2>1, <2>2, NoLock
<1>24. QED
  BY <1>1, <1>2, <1>3, <1>4, <1>5, <1>6, <1>7, <1>8, <1>9, <1>10, <1>11, <1>12, <1>13,
     <1>14, <1>15, <1>16, <1>17, <1>18, <1>19, <1>20, <1>21, <1>22, <1>23 DEF Step

\* A lock that thread t may take, or holds, is held by no other thread.
LEMMA OneHolder ==
    ASSUME LocksAgree, NEW t \in Threads, NEW u \in Threads, NEW k \in Locks,
           MayLock(t, k) \/ Held(thread[t], k) > 0, Held(thread[u], k) > 0
    PROVE  u = t
<1>1. lock[k].owner = u /\ u # NoThread
  BY ConnectorAssumption DEF LocksAgree
<1>2. QED  BY <1>1 DEF LocksAgree, MayLock

-----------------------------------------------------------------------------
(* The types *)

\* The steps that change the connection's channel, the lists, or where an answer is.
Busy(t) ==
    \/ DisconnectChannel(t) \/ DisconnectTokens(t) \/ DisconnectFavorites(t)
    \/ ConnectOpen(t) \/ LoadTokensAsk(t) \/ LoadTokensMerge(t)
    \/ LoadFavoritesAsk(t) \/ LoadFavoritesMerge(t) \/ RefreshClear(t) \/ ChangeSend(t)

Watched == {"d_token", "d_favorite", "t_merge", "f_merge"}

\* All the others are steps between two places where nothing of the lists is held.
LEMMA QuietSteps ==
    ASSUME TypeOK, FramesOK, NEW t \in Threads, Step(t), ~Busy(t)
    PROVE  /\ UNCHANGED <<channel, tokens, favorites, server, newest>>
           /\ thread[t].at \notin Watched /\ thread'[t].at \notin Watched
<1> DEFINE r == thread[t]
<1>fr. r \in Frames /\ ComesBack(r) /\ InMethod(r)
  BY DEF FramesOK
<1> USE DEF At, Places, Watched
<1>1. CASE \/ Disconnect(t) \/ IsConnected(t) \/ Refresh(t) \/ Favorite(t) \/ Change(t)
            \/ Request(t) \/ Response(t)
  <2>1. r.at = "idle" /\ thread'[t].at \notin Watched
    BY <1>1, Enters DEF Disconnect, IsConnected, Refresh, Favorite, Change,
       Request, Response
  <2>2. QED  BY <1>1, <2>1
     DEF Disconnect, IsConnected, Refresh, Favorite, Change, Request, Response, connection, world, history
<1>2. ASSUME NEW op \in {"connect", "generic"}, Connect(t, op)
      PROVE  /\ UNCHANGED <<channel, tokens, favorites, server, newest>>
             /\ r.at \notin Watched /\ thread'[t].at \notin Watched
  <2>1. r.at = "idle" /\ thread'[t].at \in {"d_channel", "c_flag", "c_open"}
    BY <1>2, <1>fr DEF Connect, ConnectAt, FramesOK, Frames
  <2>2. QED  BY <1>2, <2>1 DEF Connect, connection, world, history
<1>3. CASE ConnectGeneric(t) \/ ConnectDone(t)
  <2>1. r.at \in {"c_flag", "c_connected"} /\ thread'[t].at \in {"c_open", "c_end"}
    BY <1>3, Goes DEF ConnectGeneric, ConnectDone
  <2>2. QED  BY <1>3, <2>1 DEF ConnectGeneric, ConnectDone, world, history
<1>4. CASE LeaveChannel(t) \/ Leave(t)
  <2>1. r.at \in {"c_end", "end"} /\ thread'[t].at = "idle"
    BY <1>4, <1>fr, Returns DEF LeaveChannel, Leave, ComesBack
  <2>2. QED  BY <1>4, <2>1 DEF LeaveChannel, Leave, connection, world, history
<1>5. CASE IsConnectedTest(t)
  <2>1. r.at = "i_test" /\ (CallPart(t, "d_channel", "end") \/ Goto(t, "end"))
    BY <1>5 DEF IsConnectedTest, Test
  <2>2. thread'[t].at \in {"d_channel", "end"}
    BY <2>1, Calls, Goes
  <2>3. QED  BY <1>5, <2>1, <2>2 DEF IsConnectedTest, world, history
<1>6. CASE RefreshOpen(t) \/ RefreshAuthenticate(t)
  <2>1. /\ r.at \in {"r_open", "r_auth"}
        /\ \/ Goto(t, "c_end") \/ Goto(t, "r_auth") \/ Goto(t, "crash")
           \/ CallPart(t, "d_channel", "c_end") \/ CallPart(t, "t_ask", "c_end")
    BY <1>6 DEF RefreshOpen, RefreshAuthenticate, RefreshLoad
  <2>2. thread'[t].at \in {"c_end", "r_auth", "crash", "d_channel", "t_ask"}
    BY <2>1, Calls, Goes
  <2>3. QED  BY <1>6, <2>1, <2>2 DEF RefreshOpen, RefreshAuthenticate, connection, history
<1>7. CASE Token(t)
  <2>1. r.at = "idle" /\ thread'[t].at \in {"k_item", "end"}
    BY <1>7, <1>fr DEF Token, FramesOK, Frames
  <2>2. QED  BY <1>7, <2>1 DEF Token, connection, world, history
<1>8. CASE TokenCountForEnterprise(t)
  <2>1. r.at = "idle" /\ thread'[t].at = "e_others"
    BY <1>8, <1>fr DEF TokenCountForEnterprise, FramesOK, Frames
  <2>2. QED  BY <1>8, <2>1 DEF TokenCountForEnterprise, connection, world, history
<1>9. CASE TokenItem(t) \/ TokenCountOthers(t) \/ FavoriteItem(t)
  <2>1. r.at \in {"k_item", "e_others", "f_item"} /\ thread'[t].at \in {"end", "crash", "wrapped"}
    BY <1>9, Goes DEF TokenItem, TokenCountOthers, FavoriteItem
  <2>2. QED  BY <1>9, <2>1
     DEF TokenItem, TokenCountOthers, FavoriteItem, connection, world, history
<1>10. CASE FavoriteCountLock(t)
  <2>1. r.at = "f_count" /\ thread'[t].at \in {"f_ask", "f_counted"}
    <3>1. CASE Goto(t, "f_counted")
      BY <1>10, <3>1, Goes DEF FavoriteCountLock
    <3>2. CASE thread' = [thread EXCEPT ![t].snap = channel, ![t].at = "f_ask",
                                        ![t].ret = "f_counted"]
      BY <1>10, <1>fr, <3>2 DEF FavoriteCountLock, FramesOK, Frames
    <3>3. QED  BY <1>10, <3>1, <3>2 DEF FavoriteCountLock
  <2>2. QED  BY <1>10, <2>1 DEF FavoriteCountLock, connection, world, history
<1>11. CASE FavoriteCounted(t)
  <2>1. r.at = "f_counted" /\ thread'[t].at \in {"f_item", "end"}
    BY <1>11, <1>fr DEF FavoriteCounted, FramesOK, Frames
  <2>2. QED  BY <1>11, <2>1 DEF FavoriteCounted, connection, world, history
<1>12. CASE ChangeLock(t)
  <2>1. /\ r.at = "h_lock"
        /\ CallPart(t, "d_channel", "c_end") \/ Goto(t, "h_send") \/ Goto(t, "c_end")
    BY <1>12 DEF ChangeLock, Test
  <2>2. thread'[t].at \in {"d_channel", "h_send", "c_end"}
    BY <2>1, Calls, Goes
  <2>3. QED  BY <1>12, <2>1, <2>2 DEF ChangeLock, world, history
<1>13. CASE RequestSend(t) \/ ResponseUse(t)
  <2>1. r.at \in {"q_send", "a_use"} /\ thread'[t].at \in {"end", "crash"}
    BY <1>13, Goes DEF RequestSend, ResponseUse
  <2>2. QED  BY <1>13, <2>1 DEF RequestSend, ResponseUse, connection, world, history
<1>14. QED
  BY <1>1, <1>2, <1>3, <1>4, <1>5, <1>6, <1>7, <1>8, <1>9, <1>10, <1>11, <1>12, <1>13
     DEF Step, Busy

Links == [Channels -> [made : BOOLEAN, up : BOOLEAN, auth : Login]]

\* The link of each channel object keeps its type.
LEMMA StepLinks ==
    ASSUME TypeOK, NEW t \in Threads, Step(t)
    PROVE  link' \in Links
<1>ty. link \in Links /\ channel \in Channels \union {NoChannel}
  BY DEF TypeOK, Links
<1>at. \A c \in Channels : link[c] \in [made : BOOLEAN, up : BOOLEAN, auth : Login]
  BY <1>ty DEF Links
<1> USE DEF Links
<1>1. ASSUME NEW c, RequestWorks(c) PROVE link' \in Links
  <2>1. channel \in Channels
    BY <1>1, <1>ty DEF RequestWorks
  <2>2. PICK auth \in {link[channel].auth, "yes"} :
           link' = [link EXCEPT ![channel] = [made |-> TRUE, up |-> TRUE, auth |-> auth]]
    BY <1>1 DEF RequestWorks
  <2>3. auth \in Login
    BY <1>at, <2>1 DEF Login
  <2>4. QED  BY <1>ty, <2>2, <2>3
<1>2. ASSUME NEW c, RequestFails(c) PROVE link' \in Links
  <2>1. CASE UNCHANGED link
    BY <1>ty, <2>1
  <2>2. CASE ~UNCHANGED link
    <3>1. channel \in Channels
      BY <1>2, <1>ty, <2>2 DEF RequestFails
    <3>2. PICK up \in BOOLEAN, auth \in {link[channel].auth, "no", "yes"} :
             link' = [link EXCEPT ![channel] = [made |-> TRUE, up |-> up, auth |-> auth]]
      BY <1>2, <2>2 DEF RequestFails
    <3>3. auth \in Login
      BY <1>at, <3>1 DEF Login
    <3>4. QED  BY <1>ty, <3>2, <3>3
  <2>3. QED  BY <2>1, <2>2
<1>3. CASE DisconnectChannel(t)
  BY <1>3, <1>ty DEF DisconnectChannel, Login
<1>4. CASE ConnectOpen(t)
  BY <1>4, <1>ty DEF ConnectOpen, Login
<1>5. CASE LoadTokensAsk(t) \/ LoadFavoritesAsk(t) \/ ChangeSend(t) \/ RequestSend(t)
  BY <1>1, <1>2, <1>5 DEF LoadTokensAsk, LoadFavoritesAsk, ChangeSend, RequestSend
<1>6. CASE RefreshOpen(t)
  BY <1>6, <1>ty DEF RefreshOpen
<1>7. CASE RefreshAuthenticate(t)
  <2>1. \/ UNCHANGED link
        \/ \E on : \E state \in Login :
              link' = [d \in Channels |->
                         IF d \in on THEN [link[d] EXCEPT !.auth = state] ELSE link[d]]
    <3> DEFINE c == thread[t].snap
               tunnel == scheme = "tunnel"
               on == IF tunnel THEN {c, channel} ELSE {channel}
               reached == tunnel \/ channel # NoChannel
               state == IF tunnel THEN "begun" ELSE "yes"
    <3>1. \/ UNCHANGED link
          \/ link' = [d \in Channels |->
                         IF d \in on THEN [link[d] EXCEPT !.auth = state] ELSE link[d]]
      BY <1>7 DEF RefreshAuthenticate
    <3>2. state \in Login
      BY DEF Login
    <3> HIDE DEF on, state
    <3>3. QED  BY <3>1, <3>2
  <2>2. ASSUME NEW on, NEW state \in Login, NEW d \in Channels
        PROVE  (IF d \in on THEN [link[d] EXCEPT !.auth = state] ELSE link[d])
                  \in [made : BOOLEAN, up : BOOLEAN, auth : Login]
    BY <1>ty
  <2>3. QED  BY <1>ty, <2>1, <2>2
<1>8. CASE \/ Disconnect(t) \/ DisconnectTokens(t) \/ DisconnectFavorites(t)
           \/ Connect(t, "connect") \/ Connect(t, "generic") \/ ConnectGeneric(t)
           \/ ConnectDone(t) \/ LeaveChannel(t) \/ IsConnected(t) \/ IsConnectedTest(t)
           \/ Leave(t) \/ LoadTokensMerge(t) \/ LoadFavoritesMerge(t)
           \/ Request(t) \/ Response(t) \/ ResponseUse(t)
  BY <1>8, <1>ty DEF Disconnect, DisconnectTokens, DisconnectFavorites, Connect,
     ConnectGeneric, ConnectDone, LeaveChannel, IsConnected, IsConnectedTest, Leave,
     LoadTokensMerge, LoadFavoritesMerge, Request, Response, ResponseUse, world
<1>9. CASE \/ Refresh(t) \/ RefreshClear(t) \/ Token(t) \/ TokenItem(t)
           \/ TokenCountForEnterprise(t) \/ TokenCountOthers(t) \/ Favorite(t)
           \/ FavoriteCountLock(t) \/ FavoriteCounted(t) \/ FavoriteItem(t)
           \/ Change(t) \/ ChangeLock(t)
  BY <1>9, <1>ty DEF Refresh, RefreshClear, Token, TokenItem, TokenCountForEnterprise,
     TokenCountOthers, Favorite, FavoriteCountLock, FavoriteCounted, FavoriteItem, Change,
     ChangeLock, world
<1>10. QED  BY <1>3, <1>4, <1>5, <1>6, <1>7, <1>8, <1>9 DEF Step

\* The flags of the connection are Boolean, and the channel is an object or none.
LEMMA StepConnection ==
    ASSUME TypeOK, FramesOK, NEW t \in Threads, Step(t)
    PROVE  /\ channel' \in Channels \union {NoChannel}
           /\ processor' \in BOOLEAN /\ generic' \in BOOLEAN /\ lastConnected' \in BOOLEAN
           /\ scheme' \in Schemes
           /\ loaded' \in BOOLEAN
<1> USE DEF TypeOK
<1>1. CASE DisconnectChannel(t)
  BY <1>1 DEF DisconnectChannel
<1>2. CASE ConnectOpen(t)
  BY <1>2 DEF ConnectOpen
<1>3. CASE IsConnectedTest(t) \/ ChangeLock(t)
  <2>1. ASSUME NEW c \in Channels \union {NoChannel} PROVE Up(c) \in BOOLEAN
    BY DEF Up
  <2>2. thread[t].snap \in Channels \union {NoChannel}
    BY DEF FramesOK, Frames
  <2>3. lastConnected' \in BOOLEAN
    BY <1>3, <2>1, <2>2 DEF IsConnectedTest, ChangeLock, Test
  <2>4. QED  BY <1>3, <2>3 DEF IsConnectedTest, ChangeLock, history
<1>4. CASE DisconnectFavorites(t) \/ ConnectGeneric(t) \/ ConnectDone(t)
  BY <1>4 DEF DisconnectFavorites, ConnectGeneric, ConnectDone, history
<1>5. CASE LoadTokensMerge(t) \/ LoadFavoritesMerge(t)
  BY <1>5 DEF LoadTokensMerge, LoadFavoritesMerge, connection
<1>6. CASE \/ Disconnect(t) \/ DisconnectTokens(t)
           \/ Connect(t, "connect") \/ Connect(t, "generic")
           \/ LeaveChannel(t) \/ IsConnected(t) \/ Leave(t)
           \/ LoadTokensAsk(t) \/ LoadFavoritesAsk(t) \/ ChangeSend(t)
           \/ Request(t) \/ RequestSend(t) \/ Response(t) \/ ResponseUse(t)
  BY <1>6 DEF Disconnect, DisconnectTokens, Connect, LeaveChannel, IsConnected, Leave,
     LoadTokensAsk, LoadFavoritesAsk, ChangeSend, Request, RequestSend, Response,
     ResponseUse, connection, history
<1>7. CASE \/ Refresh(t) \/ RefreshClear(t) \/ RefreshOpen(t) \/ RefreshAuthenticate(t)
           \/ Token(t) \/ TokenItem(t) \/ TokenCountForEnterprise(t) \/ TokenCountOthers(t)
           \/ Favorite(t) \/ FavoriteCountLock(t) \/ FavoriteCounted(t) \/ FavoriteItem(t)
           \/ Change(t)
  <2>1. CASE Refresh(t) \/ RefreshClear(t) \/ RefreshOpen(t) \/ RefreshAuthenticate(t)
    BY <2>1 DEF Refresh, RefreshClear, RefreshOpen, RefreshAuthenticate, connection, history
  <2>2. CASE \/ Token(t) \/ TokenItem(t) \/ TokenCountForEnterprise(t)
             \/ TokenCountOthers(t) \/ Change(t)
    BY <2>2 DEF Token, TokenItem, TokenCountForEnterprise, TokenCountOthers, Change,
       connection, history
  <2>3. CASE Favorite(t) \/ FavoriteCountLock(t) \/ FavoriteCounted(t) \/ FavoriteItem(t)
    BY <2>3 DEF Favorite, FavoriteCountLock, FavoriteCounted, FavoriteItem, connection, history
  <2>4. QED  BY <1>7, <2>1, <2>2, <2>3
<1>8. QED  BY <1>1, <1>2, <1>3, <1>4, <1>5, <1>6, <1>7 DEF Step

\* The lists are versions that the server has had.
LEMMA StepLists ==
    ASSUME IInv, NEW t \in Threads, Step(t)
    PROVE  /\ tokens' \in 0 .. Len(TokenLists)
           /\ favorites' \in 0 .. Len(FavoriteLists)
           /\ ServerOK'
<1>ty. /\ tokens \in 0 .. Len(TokenLists) /\ favorites \in 0 .. Len(FavoriteLists)
       /\ Len(TokenLists) \in Nat /\ Len(FavoriteLists) \in Nat
       /\ server \in [tokens : 1 .. Len(TokenLists), favorites : 1 .. Len(FavoriteLists)]
  <2>1. Len(TokenLists) \in Nat /\ Len(FavoriteLists) \in Nat
    BY ConnectorAssumption
  <2>2. TypeOK /\ ServerOK
    BY DEF IInv
  <2>3. QED  BY <2>1, <2>2 DEF TypeOK, ServerOK
<1>1. CASE ~Busy(t)
  BY <1>1, <1>ty, QuietSteps DEF IInv, ServerOK
<1>2. CASE \/ DisconnectChannel(t) \/ DisconnectTokens(t) \/ DisconnectFavorites(t)
           \/ ConnectOpen(t) \/ LoadTokensAsk(t) \/ LoadFavoritesAsk(t) \/ RefreshClear(t)
  BY <1>2, <1>ty DEF DisconnectChannel, DisconnectTokens, DisconnectFavorites, ConnectOpen,
     LoadTokensAsk, LoadFavoritesAsk, RefreshClear, world, ServerOK
<1>3. CASE LoadTokensMerge(t)
  <2>1. newest.tokens \in Nat /\ thread[t].answer \in newest.tokens .. server.tokens
    BY <1>3, <1>ty DEF IInv, InOrder, LoadTokensMerge
  <2>2. QED  BY <1>3, <1>ty, <2>1 DEF LoadTokensMerge, world, ServerOK
<1>4. CASE LoadFavoritesMerge(t)
  <2>1. newest.favorites \in Nat /\ thread[t].answer \in newest.favorites .. server.favorites
    BY <1>4, <1>ty DEF IInv, InOrder, LoadFavoritesMerge
  <2>2. QED  BY <1>4, <1>ty, <2>1 DEF LoadFavoritesMerge, world, ServerOK
<1>5. CASE ChangeSend(t)
  <2>1. ServerOK'
    BY <1>5, <1>ty DEF ChangeSend, ServerOK
  <2>2. QED  BY <1>5, <1>ty, <2>1 DEF ChangeSend
<1>6. QED  BY <1>1, <1>2, <1>3, <1>4, <1>5 DEF Busy

-----------------------------------------------------------------------------
(* The lists are emptied with the connection *)

\* Every step keeps what is left of a connection under the locks of a disconnect.
LEMMA StepEmptied ==
    ASSUME IInv, NEW t \in Threads, Step(t)
    PROVE  Emptied'
<1> DEFINE r == thread[t]
<1>mv. Moved(t)
  BY StepFrames DEF IInv
<1>ot. \A u \in Threads : u # t => thread'[u] = thread[u]
  BY <1>mv DEF Moved
<1>fr. \A u \in Threads : thread[u] \in Frames /\ ComesBack(thread[u])
  BY DEF IInv, FramesOK
<1>em. Emptied
  BY DEF IInv
<1> USE DEF At
\* No other thread is in the middle of a disconnect or of LoadTokens when t may take
\* _channelLock or holds it.
<1>ch. ASSUME MayLock(t, "channel") \/ Held(r, "channel") > 0, NEW u \in Threads, u # t
       PROVE  /\ thread[u].at \notin {"d_token", "d_favorite", "t_merge"}
              /\ thread[u].at = "f_merge" => thread[u].ret # "c_end"
  <2>1. ~(Held(thread[u], "channel") > 0)
    BY <1>ch, OneHolder DEF IInv, Locks
  <2>2. QED  BY <1>fr, <2>1 DEF Held, InCall, ComesBack
<1>1. CASE ~Busy(t)
  <2>1. UNCHANGED <<channel, tokens, favorites>> /\ r.at \notin Watched /\ thread'[t].at \notin Watched
    BY <1>1, QuietSteps DEF IInv
  <2>2. QED  BY <1>em, <1>ot, <2>1 DEF Emptied, Watched
<1>2. CASE DisconnectChannel(t)
  <2>1. r.at = "d_channel" /\ thread'[t].at = "d_token"
    BY <1>2, Goes DEF DisconnectChannel, IInv, Places
  <2>2. channel' = NoChannel
    BY <1>2 DEF DisconnectChannel
  <2>3. QED  BY <1>2, <1>ot, <1>ch, <2>1, <2>2 DEF Emptied, DisconnectChannel
<1>3. CASE DisconnectTokens(t)
  <2>1. r.at = "d_token" /\ thread'[t].at = "d_favorite"
    BY <1>3, Goes DEF DisconnectTokens, IInv, Places
  <2>2. tokens' = 0 /\ UNCHANGED channel
    BY <1>3 DEF DisconnectTokens, connection
  <2>3. QED  BY <1>em, <1>ot, <2>1, <2>2 DEF Emptied
<1>4. CASE DisconnectFavorites(t)
  <2>1. /\ r.at = "d_favorite" /\ MayLock(t, "favorite")
        /\ favorites' = 0 /\ UNCHANGED <<channel, tokens>>
    BY <1>4 DEF DisconnectFavorites
  <2>2. thread'[t].at = r.ret
    BY <1>4, Returns DEF DisconnectFavorites, IInv
  <2>3. thread'[t].at \notin Watched
    BY <1>fr, <2>1, <2>2 DEF ComesBack, Watched
  <2>4. ASSUME NEW u \in Threads PROVE thread'[u].at # "f_merge"
    <3>1. CASE u = t
      BY <2>3, <3>1 DEF Watched
    <3>2. CASE u # t
      <4>1. ~(Held(thread[u], "favorite") > 0)
        BY <2>1, <3>2, OneHolder DEF IInv, Locks
      <4>2. Held(r, "channel") > 0
        BY <2>1 DEF Held
      <4>3. thread[u].at = "f_merge" => thread[u].ret \in {"f_counted", "c_end"}
        BY <1>fr DEF ComesBack
      <4>4. thread[u].at # "f_merge"
        BY <1>ch, <3>2, <4>1, <4>2, <4>3 DEF Held
      <4>5. QED  BY <1>ot, <3>2, <4>4
    <3>3. QED  BY <3>1, <3>2
  <2>5. QED  BY <1>em, <1>ot, <2>1, <2>3, <2>4 DEF Emptied, Watched
<1>5. CASE ConnectOpen(t)
  <2>1. /\ r.at = "c_open" /\ MayLock(t, "channel") /\ channel' # NoChannel
        /\ \/ Goto(t, "c_end") \/ Goto(t, "c_connected")
           \/ CallPart(t, "d_channel", "c_end") \/ CallPart(t, "t_ask", "c_connected")
    BY <1>5, ConnectorAssumption DEF ConnectOpen
  <2>2. thread'[t].at \in {"c_end", "c_connected", "d_channel", "t_ask"}
    BY <2>1, Goes, Calls DEF IInv, Places
  <2>3. QED  BY <1>ot, <1>ch, <2>1, <2>2 DEF Emptied
<1>6. CASE LoadTokensAsk(t)
  <2>1. /\ r.at = "t_ask" /\ r.ret \in {"c_connected", "c_end"}
        /\ UNCHANGED <<channel, tokens, favorites>>
    BY <1>6, <1>fr DEF LoadTokensAsk, ComesBack, connection
  <2>2. \/ thread'[t].at = "t_merge" /\ channel # NoChannel
        \/ thread'[t].at \notin Watched
    <3>1. CASE Return(t)
      BY <2>1, <3>1, Returns DEF IInv, Watched
    <3>2. CASE RequestWorks(channel) /\ thread' = [thread EXCEPT ![t].at = "t_merge", ![t].answer = server.tokens]
      BY <1>fr, <3>2 DEF RequestWorks, IInv, FramesOK, Frames
    <3>3. QED  BY <1>6, <3>1, <3>2 DEF LoadTokensAsk
  <2>3. QED  BY <1>em, <1>ot, <2>1, <2>2 DEF Emptied, Watched
<1>7. CASE LoadTokensMerge(t)
  <2>1. /\ r.at = "t_merge" /\ r.ret \in {"c_connected", "c_end"}
        /\ UNCHANGED <<channel, favorites>>
    BY <1>7, <1>fr DEF LoadTokensMerge, ComesBack, connection
  <2>2. thread'[t].at \notin Watched /\ channel # NoChannel
    BY <1>7, <1>em, <2>1, Returns DEF LoadTokensMerge, IInv, Watched, Emptied
  <2>3. QED  BY <1>em, <1>ot, <2>1, <2>2 DEF Emptied, Watched
<1>8. CASE LoadFavoritesAsk(t)
  <2>1. /\ r.at = "f_ask" /\ r.ret \in {"f_counted", "c_end"}
        /\ UNCHANGED <<channel, tokens, favorites>>
    BY <1>8, <1>fr DEF LoadFavoritesAsk, ComesBack, connection
  <2>2. \/ thread'[t].at = "f_merge" /\ channel # NoChannel
        \/ thread'[t].at \notin Watched
    <3>1. CASE Return(t)
      BY <2>1, <3>1, Returns DEF IInv, Watched
    <3>2. CASE RequestWorks(r.snap) /\ thread' = [thread EXCEPT ![t].at = "f_merge", ![t].answer = server.favorites]
      BY <1>fr, <3>2 DEF RequestWorks, IInv, FramesOK, Frames
    <3>3. QED  BY <1>8, <3>1, <3>2 DEF LoadFavoritesAsk
  <2>3. QED  BY <1>em, <1>ot, <2>1, <2>2 DEF Emptied, Watched
<1>9. CASE LoadFavoritesMerge(t)
  <2>1. /\ r.at = "f_merge" /\ r.ret \in {"f_counted", "c_end"}
        /\ UNCHANGED <<channel, tokens>>
    BY <1>9, <1>fr DEF LoadFavoritesMerge, ComesBack, connection
  <2>2. thread'[t].at \notin Watched
    BY <1>9, <2>1, Returns DEF LoadFavoritesMerge, IInv, Watched
  <2>3. channel = NoChannel => \E u \in Threads : u # t /\ thread[u].at \in {"d_token", "d_favorite"}
    BY <1>em, <2>1 DEF Emptied
  <2>4. QED  BY <1>em, <1>ot, <2>1, <2>2, <2>3 DEF Emptied, Watched
<1>10. CASE RefreshClear(t)
  <2>1. /\ r.at = "r_clear" /\ thread'[t].at = "r_open"
        /\ favorites' = 0 /\ UNCHANGED <<channel, tokens>>
    BY <1>10, Goes DEF RefreshClear, IInv, Places, connection
  <2>2. QED  BY <1>em, <1>ot, <2>1 DEF Emptied
<1>11. CASE ChangeSend(t)
  <2>1. r.at = "h_send" /\ UNCHANGED <<channel, tokens, favorites>>
    BY <1>11 DEF ChangeSend, connection
  <2>2. thread'[t].at \in {"f_ask", "c_end"}
    <3>1. CASE Goto(t, "c_end")
      BY <3>1, Goes DEF IInv, Places
    <3>2. CASE thread' = [thread EXCEPT ![t].at = "f_ask", ![t].ret = "c_end",
                                        ![t].snap = channel]
      BY <1>fr, <3>2 DEF IInv, FramesOK, Frames
    <3>3. QED  BY <1>11, <3>1, <3>2 DEF ChangeSend
  <2>3. QED  BY <1>em, <1>ot, <2>1, <2>2 DEF Emptied
<1>12. QED
  BY <1>1, <1>2, <1>3, <1>4, <1>5, <1>6, <1>7, <1>8, <1>9, <1>10, <1>11 DEF Busy

-----------------------------------------------------------------------------
(* The answers come in order *)

\* Every step keeps the order of the answers, and no older one is merged.
LEMMA StepInOrder ==
    ASSUME IInv, NEW t \in Threads, Step(t)
    PROVE  InOrder' /\ NeverOlder'
<1> DEFINE r == thread[t]
<1>ot. \A u \in Threads : u # t => thread'[u] = thread[u]
  BY StepFrames DEF IInv, Moved
<1>fr. \A u \in Threads : thread[u] \in Frames /\ ComesBack(thread[u])
  BY DEF IInv, FramesOK
<1>in. InOrder /\ NeverOlder
  BY DEF IInv
<1>nt. /\ server.tokens \in Nat /\ server.favorites \in Nat
       /\ newest.tokens \in 0 .. server.tokens /\ newest.favorites \in 0 .. server.favorites
       /\ newest = [tokens |-> newest.tokens, favorites |-> newest.favorites]
       /\ \A u \in Threads : thread[u].answer \in Nat
  <2>1. server.tokens \in Nat /\ server.favorites \in Nat
    <3>1. Len(TokenLists) \in Nat /\ Len(FavoriteLists) \in Nat
      BY ConnectorAssumption
    <3>2. QED  BY <3>1 DEF IInv, ServerOK
  <2>2. /\ newest.tokens \in 0 .. server.tokens /\ newest.favorites \in 0 .. server.favorites
        /\ newest = [tokens |-> newest.tokens, favorites |-> newest.favorites]
    BY <1>in DEF InOrder
  <2>3. \A u \in Threads : thread[u].answer \in Nat
    BY <1>fr, ConnectorAssumption DEF Frames
  <2>4. QED  BY <2>1, <2>2, <2>3
<1> USE DEF At
\* While t holds _channelLock no other thread has an answer that it got under it.
<1>ch. ASSUME MayLock(t, "channel") \/ Held(r, "channel") > 0, NEW u \in Threads, u # t
       PROVE  /\ thread[u].at # "t_merge"
              /\ thread[u].at = "f_merge" => thread[u].ret # "c_end"
  <2>1. ~(Held(thread[u], "channel") > 0)
    BY <1>ch, OneHolder DEF IInv, Locks
  <2>2. QED  BY <1>fr, <2>1 DEF Held, InCall, ComesBack
<1>1. CASE ~Busy(t)
  <2>1. /\ UNCHANGED <<tokens, favorites, server, newest>>
        /\ r.at \notin Watched /\ thread'[t].at \notin Watched
    BY <1>1, QuietSteps DEF IInv
  <2>2. QED  BY <1>in, <1>ot, <2>1 DEF InOrder, NeverOlder, Watched
<1>2. CASE DisconnectChannel(t) \/ DisconnectTokens(t) \/ RefreshClear(t)
  <2>1. /\ UNCHANGED <<server, newest>>
        /\ tokens' \in {0, tokens} /\ favorites' \in {0, favorites}
    BY <1>2 DEF DisconnectChannel, DisconnectTokens, RefreshClear, connection, world, history
  <2>2. thread'[t].at \in {"d_token", "d_favorite", "r_open"}
    BY <1>2, Goes DEF DisconnectChannel, DisconnectTokens, RefreshClear, IInv, Places
  <2>3. QED  BY <1>in, <1>ot, <2>1, <2>2 DEF InOrder, NeverOlder
<1>3. CASE DisconnectFavorites(t)
  <2>1. UNCHANGED <<server, newest, tokens>> /\ favorites' = 0 /\ thread'[t].at = r.ret
    BY <1>3, Returns DEF DisconnectFavorites, IInv, world, history
  <2>2. thread'[t].at \notin Watched
    BY <1>fr, <2>1 DEF Frames, Watched
  <2>3. QED  BY <1>in, <1>ot, <2>1, <2>2 DEF InOrder, NeverOlder, Watched
<1>4. CASE ConnectOpen(t)
  <2>1. /\ UNCHANGED <<server, newest, tokens, favorites>>
        /\ \/ Goto(t, "c_end") \/ Goto(t, "c_connected")
           \/ CallPart(t, "d_channel", "c_end") \/ CallPart(t, "t_ask", "c_connected")
    BY <1>4 DEF ConnectOpen
  <2>2. thread'[t].at \in {"c_end", "c_connected", "d_channel", "t_ask"}
    BY <2>1, Goes, Calls DEF IInv, Places
  <2>3. QED  BY <1>in, <1>ot, <2>1, <2>2 DEF InOrder, NeverOlder
<1>5. CASE LoadTokensAsk(t)
  <2>1. UNCHANGED <<server, newest, tokens, favorites>>
    BY <1>5 DEF LoadTokensAsk, connection, history
  <2>2. CASE Return(t)
    <3>1. thread'[t].at \notin Watched
      BY <1>fr, <2>2, Returns DEF IInv, Frames, Watched
    <3>2. QED  BY <1>in, <1>ot, <2>1, <3>1 DEF InOrder, NeverOlder, Watched
  <2>3. CASE thread' = [thread EXCEPT ![t].at = "t_merge", ![t].answer = server.tokens]
    <3>1. thread'[t].at = "t_merge" /\ thread'[t].answer = server.tokens
      BY <1>fr, <2>3 DEF IInv, FramesOK, Frames
    <3>2. thread'[t].answer \in newest.tokens .. server.tokens
      BY <1>nt, <3>1
    <3>3. QED  BY <1>in, <1>ot, <2>1, <3>1, <3>2 DEF InOrder, NeverOlder
  <2>4. QED  BY <1>5, <2>2, <2>3 DEF LoadTokensAsk
<1>6. CASE LoadTokensMerge(t)
  <2>1. /\ r.at = "t_merge" /\ r.ret \in {"c_connected", "c_end"}
        /\ UNCHANGED <<server, favorites>> /\ tokens' = r.answer
        /\ newest' = [newest EXCEPT !.tokens = IF tokens' > @ THEN tokens' ELSE @]
    BY <1>6, <1>fr DEF LoadTokensMerge, ComesBack, world
  <2>2. thread'[t].at \notin Watched
    BY <1>6, <1>fr, <2>1, Returns DEF LoadTokensMerge, IInv, Watched
  <2>3. r.answer \in newest.tokens .. server.tokens
    BY <1>in, <2>1 DEF InOrder
  <2>4. newest'.tokens = r.answer /\ newest'.favorites = newest.favorites
    BY <1>nt, <2>1, <2>3
  <2>5. newest' \in [tokens : 0 .. server.tokens, favorites : 0 .. server.favorites]
    BY <1>nt, <2>1, <2>3, <2>4
  <2>6. \A u \in Threads : u # t => thread[u].at # "t_merge"
    BY <1>ch, <2>1 DEF Held, InCall
  <2>7. QED  BY <1>in, <1>ot, <2>1, <2>2, <2>4, <2>5, <2>6 DEF InOrder, NeverOlder, Watched
<1>7. CASE LoadFavoritesAsk(t)
  <2>1. /\ UNCHANGED <<server, newest, tokens, favorites>>
        /\ MayLock(t, "channel") /\ r.at = "f_ask"
    BY <1>7 DEF LoadFavoritesAsk, connection, history
  <2>2. CASE Return(t)
    <3>1. thread'[t].at \notin Watched
      BY <1>fr, <2>2, Returns DEF IInv, Frames, Watched
    <3>2. QED  BY <1>in, <1>ot, <2>1, <3>1 DEF InOrder, NeverOlder, Watched
  <2>3. CASE thread' = [thread EXCEPT ![t].at = "f_merge", ![t].answer = server.favorites]
    <3>1. thread'[t].at = "f_merge" /\ thread'[t].answer = server.favorites
      BY <1>fr, <2>3 DEF IInv, FramesOK, Frames
    <3>2. thread'[t].answer \in newest.favorites .. server.favorites
      BY <1>nt, <3>1
    <3>3. ASSUME NEW u \in Threads, NEW v \in Threads, thread'[u].at = "f_merge",
                 thread'[u].ret = "c_end", thread'[v].at = "f_merge"
          PROVE  thread'[v].answer <= thread'[u].answer
      <4>1. u = t
        BY <1>ot, <1>ch, <2>1, <3>3
      <4>2. CASE v = t
        BY <1>nt, <3>1, <4>1, <4>2
      <4>3. CASE v # t
        BY <1>in, <1>nt, <1>ot, <3>1, <3>3, <4>1, <4>3 DEF InOrder
      <4>4. QED  BY <4>2, <4>3
    <3>4. QED  BY <1>in, <1>ot, <2>1, <3>1, <3>2, <3>3 DEF InOrder, NeverOlder
  <2>4. QED  BY <1>7, <2>2, <2>3 DEF LoadFavoritesAsk
<1>8. CASE LoadFavoritesMerge(t)
  <2>1. /\ r.at = "f_merge" /\ r.ret \in {"f_counted", "c_end"} /\ MayLock(t, "favorite")
        /\ UNCHANGED <<server, tokens>> /\ favorites' = r.answer
        /\ newest' = [newest EXCEPT !.favorites = IF favorites' > @ THEN favorites' ELSE @]
    BY <1>8, <1>fr DEF LoadFavoritesMerge, ComesBack, world
  <2>2. thread'[t].at \notin Watched
    BY <1>8, <1>fr, <2>1, Returns DEF LoadFavoritesMerge, IInv, Watched
  <2>3. r.answer \in newest.favorites .. server.favorites
    BY <1>in, <2>1 DEF InOrder
  <2>4. newest'.favorites = r.answer /\ newest'.tokens = newest.tokens
    BY <1>nt, <2>1, <2>3
  <2>5. newest' \in [tokens : 0 .. server.tokens, favorites : 0 .. server.favorites]
    BY <1>nt, <2>1, <2>3, <2>4
  \* Whoever else has an answer got it later: it has _channelLock, not the list.
  <2>6. ASSUME NEW u \in Threads, u # t, thread[u].at = "f_merge"
        PROVE  thread[u].answer \in newest'.favorites .. server.favorites
    <3>1. ~(Held(thread[u], "favorite") > 0)
      BY <2>1, <2>6, OneHolder DEF IInv, Locks
    <3>2. thread[u].ret = "c_end"
      BY <1>fr, <2>6, <3>1 DEF Held, ComesBack
    <3>3. r.answer <= thread[u].answer
      BY <1>in, <2>1, <2>6, <3>2 DEF InOrder
    <3>4. thread[u].answer \in newest.favorites .. server.favorites
      BY <1>in, <2>6 DEF InOrder
    <3>5. QED  BY <1>nt, <2>4, <3>3, <3>4
  <2>7. ASSUME NEW u \in Threads PROVE
           /\ thread'[u].at = "t_merge" => thread'[u].answer \in newest'.tokens .. server.tokens
           /\ thread'[u].at = "f_merge" => thread'[u].answer \in newest'.favorites .. server.favorites
    BY <1>in, <1>ot, <2>2, <2>4, <2>6 DEF InOrder, Watched
  <2>8. QED  BY <1>in, <1>ot, <2>1, <2>2, <2>4, <2>5, <2>7 DEF InOrder, NeverOlder, Watched
<1>9. CASE ChangeSend(t)
  <2>1. /\ UNCHANGED <<tokens, favorites, newest>>
        /\ server'.tokens = server.tokens
        /\ server'.favorites \in Nat /\ server.favorites <= server'.favorites
    BY <1>9, <1>nt DEF ChangeSend, connection, history, IInv, ServerOK
  <2>2. thread'[t].at \in {"f_ask", "c_end"}
    <3>1. CASE Goto(t, "c_end")
      BY <3>1, Goes DEF IInv, Places
    <3>2. CASE thread' = [thread EXCEPT ![t].at = "f_ask", ![t].ret = "c_end",
                                        ![t].snap = channel]
      BY <1>fr, <3>2 DEF IInv, FramesOK, Frames
    <3>3. QED  BY <1>9, <3>1, <3>2 DEF ChangeSend
  <2>3. newest' \in [tokens : 0 .. server'.tokens, favorites : 0 .. server'.favorites]
    BY <1>nt, <2>1
  <2>4. QED  BY <1>in, <1>nt, <1>ot, <2>1, <2>2, <2>3 DEF InOrder, NeverOlder
<1>10. QED  BY <1>1, <1>2, <1>3, <1>4, <1>5, <1>6, <1>7, <1>8, <1>9 DEF Busy

-----------------------------------------------------------------------------
(* Theorems *)

\* Nothing is connected, held or listed at the start.
LEMMA InitIInv == Init => IInv
<1> SUFFICES ASSUME Init PROVE IInv
  OBVIOUS
<1>1. Len(TokenLists) \in Nat \ {0} /\ Len(FavoriteLists) \in Nat \ {0}
  BY ConnectorAssumption
<1>2. TypeOK /\ ServerOK
  <2>1. lock \in [Locks -> [owner : Threads \union {NoThread}, count : 0 .. 5]]
    BY DEF Init, Free
  <2>2. link \in [Channels -> [made : BOOLEAN, up : BOOLEAN, auth : Login]]
    BY DEF Init, Login
  <2>3. server = [tokens |-> 1, favorites |-> 1]
    BY DEF Init
  <2>4. ServerOK /\ server.tokens \in 1 .. Len(TokenLists) /\ server.favorites \in 1 .. Len(FavoriteLists)
    BY <1>1, <2>3 DEF ServerOK
  <2>5. tokens \in 0 .. Len(TokenLists) /\ favorites \in 0 .. Len(FavoriteLists)
    BY <1>1 DEF Init
  <2>6. QED  BY <2>1, <2>2, <2>4, <2>5 DEF Init, TypeOK
<1>3. thread \in [Threads -> Frames]
  BY DEF Init, Idle, Frames, Places
<1>4. \A t \in Threads : thread[t].at = "idle" /\ thread[t].ret = "idle"
  BY DEF Init, Idle
<1>5. FramesOK
  BY <1>3, <1>4 DEF FramesOK, ComesBack, InMethod
<1>6. LocksAgree
  BY <1>4, ConnectorAssumption DEF Init, LocksAgree, Held, InCall, Free, Locks
<1>7. Emptied /\ InOrder /\ NeverOlder
  BY <1>1, <1>4 DEF Init, Emptied, InOrder, NeverOlder, At
<1>8. QED  BY <1>2, <1>5, <1>6, <1>7 DEF IInv

\* The invariant is kept by every step of every thread and by the world outside.
LEMMA NextIInv ==
    ASSUME IInv, [Next]_vars
    PROVE  IInv'
<1>1. ASSUME NEW t \in Threads, Step(t) PROVE IInv'
  <2>1. Moved(t)
    BY <1>1, StepFrames DEF IInv
  <2>2. FramesOK'
    BY <2>1 DEF Moved, IInv, FramesOK
  <2>3. LocksAgree' /\ lock' \in [Locks -> LockStates]
    BY <1>1, <2>1, StepLocks, LockStep DEF IInv, LocksMove
  <2>4. TypeOK' /\ ServerOK'
    <3>1. ServerOK' /\ tokens' \in 0 .. Len(TokenLists) /\ favorites' \in 0 .. Len(FavoriteLists)
      BY <1>1, StepLists
    <3>2. link' \in Links
      BY <1>1, StepLinks DEF IInv
    <3>3. QED  BY <1>1, <2>3, <3>1, <3>2, StepConnection
               DEF TypeOK, IInv, LockStates, Links, ServerOK
  <2>5. QED  BY <1>1, <2>2, <2>3, <2>4, StepEmptied, StepInOrder DEF IInv
<1>2. CASE LinkLost
  <2>1. link' \in Links
    BY <1>2 DEF LinkLost, IInv, TypeOK, Links
  <2>2. UNCHANGED <<lock, connection, tokens, favorites, thread, server, history>>
    BY <1>2 DEF LinkLost
  <2>3. QED  BY <2>1, <2>2
     DEF IInv, TypeOK, Links, ServerOK, FramesOK, LocksAgree, Emptied, InOrder, NeverOlder, At,
         connection, history
<1>3. CASE ServerChanges
  <2>1. UNCHANGED <<lock, connection, tokens, favorites, thread, link, history>>
    BY <1>3 DEF ServerChanges
  <2>2. /\ ServerOK' /\ server.tokens <= server'.tokens /\ server.favorites <= server'.favorites
        /\ server.tokens \in Nat /\ server.favorites \in Nat
        /\ server'.tokens \in Nat /\ server'.favorites \in Nat
    <3>1. Len(TokenLists) \in Nat /\ Len(FavoriteLists) \in Nat
      BY ConnectorAssumption
    <3>2. QED  BY <1>3, <3>1 DEF ServerChanges, IInv, ServerOK
  <2>3. TypeOK' /\ FramesOK' /\ LocksAgree' /\ Emptied' /\ NeverOlder'
    BY <2>1, <2>2 DEF IInv, TypeOK, ServerOK, FramesOK, LocksAgree, Emptied, NeverOlder, At,
       connection, history
  <2>4. InOrder'
    <3>1. newest.tokens \in Nat /\ newest.favorites \in Nat
      BY <2>2 DEF IInv, InOrder
    <3>2. newest' \in [tokens : 0 .. server'.tokens, favorites : 0 .. server'.favorites]
      BY <2>1, <2>2 DEF IInv, InOrder, history
    <3>3. QED  BY <2>1, <2>2, <3>1, <3>2 DEF IInv, InOrder, At, history
  <2>5. QED  BY <2>2, <2>3, <2>4 DEF IInv
<1>4. CASE UNCHANGED vars
  BY <1>4 DEF vars, connection, world, history,
     IInv, TypeOK, ServerOK, FramesOK, LocksAgree, Emptied, InOrder, NeverOlder, At
<1>5. QED  BY <1>1, <1>2, <1>3, <1>4 DEF Next

\* In every reachable state a mutex is owned by the thread whose place in the code says
\* so, the lists are emptied under the locks of a disconnect, and the answers about them
\* are merged in the order the server gave them.
THEOREM Invariant == Spec => []IInv
<1>1. QED  BY InitIInv, NextIInv, PTL DEF Spec

\* Two threads wait for each other only when one of them is in favoriteCount, which asks
\* for _channelLock with the list of favorites locked.
THEOREM OnlyFavoritesMayDeadlock == Spec => []OnlyFavoritesDeadlock
<1>1. IInv => OnlyFavoritesDeadlock
  <2> SUFFICES ASSUME IInv, NEW t \in Threads, NEW u \in Threads, WaitsFor(t, u), WaitsFor(u, t)
               PROVE  \E v \in {t, u} : thread[v].op = "favorite" /\ At(v, "f_ask")
    BY DEF OnlyFavoritesDeadlock
  <2>fr. \A v \in Threads : thread[v] \in Frames /\ ComesBack(thread[v]) /\ InMethod(thread[v])
    BY DEF IInv, FramesOK
  <2>1. PICK k \in Wants(t), l \in Wants(u) : lock[k].owner = u /\ lock[l].owner = t /\ u # t
    BY DEF WaitsFor
  <2>2. k \in Locks /\ l \in Locks
    BY <2>1 DEF Wants, Locks
  <2>3. Held(thread[u], k) > 0 /\ Held(thread[t], l) > 0
    BY <2>1, <2>2 DEF IInv, LocksAgree
  \* Apart from favoriteCount, whoever wants a lock and holds another takes them in the
  \* order channel, tokens, favorites.
  <2>4. ASSUME NEW v \in Threads, NEW i \in Wants(v), NEW j \in Locks, Held(thread[v], j) > 0
        PROVE  \/ thread[v].op = "favorite" /\ At(v, "f_ask")
               \/ j = "channel"
               \/ i = "favorite"
    BY <2>fr, <2>4 DEF Wants, At, Held, Locks, ComesBack, InMethod
  <2>5. ASSUME NEW v \in Threads, NEW w \in Threads, NEW j \in Locks,
               Held(thread[v], j) > 0, Held(thread[w], j) > 0
        PROVE  v = w
    BY <2>5, OneHolder DEF IInv
  <2>6. CASE k = "channel"
    <3>1. l # "channel"
      BY <2>1, <2>2, <2>3, <2>5, <2>6
    <3>2. QED  BY <2>2, <2>3, <2>4, <2>6, <3>1
  <2>7. CASE l = "channel"
    <3>1. k # "channel"
      BY <2>1, <2>2, <2>3, <2>5, <2>7
    <3>2. QED  BY <2>2, <2>3, <2>4, <2>7, <3>1
  <2>8. CASE k # "channel" /\ l # "channel"
    <3>1. k = "favorite" \/ (thread[t].op = "favorite" /\ At(t, "f_ask"))
      BY <2>2, <2>3, <2>4, <2>8
    <3>2. l = "favorite" \/ (thread[u].op = "favorite" /\ At(u, "f_ask"))
      BY <2>2, <2>3, <2>4, <2>8
    <3>3. ~(k = "favorite" /\ l = "favorite")
      BY <2>1, <2>2, <2>3, <2>5
    <3>4. QED  BY <3>1, <3>2, <3>3
  <2>9. QED  BY <2>6, <2>7, <2>8
<1>2. QED  BY <1>1, Invariant, PTL

\* An answer of the server about its tokens or its favorites is never merged over a
\* newer one, however the threads that asked are interleaved.
THEOREM AnswersComeInOrder == Spec => []NeverOlder
<1>1. IInv => NeverOlder
  BY DEF IInv
<1>2. QED  BY <1>1, Invariant, PTL

\* When _channel is gone and no lock is held, both lists are empty, whoever was loading
\* them when the connection was taken down.
THEOREM NothingIsLeft == Spec => []NothingLeft
<1>1. IInv => NothingLeft
  <2> SUFFICES ASSUME IInv, channel = NoChannel, \A k \in Locks : lock[k] = Free
               PROVE  tokens = 0 /\ favorites = 0
    BY DEF NothingLeft
  <2>1. \A u \in Threads : ~(Held(thread[u], "channel") > 0)
    BY ConnectorAssumption DEF IInv, LocksAgree, Free, Locks
  <2>2. ASSUME NEW u \in Threads PROVE ~At(u, "d_token") /\ ~At(u, "d_favorite")
    <3>1. ~(Held(thread[u], "channel") > 0)
      BY <2>1
    <3>2. QED  BY <3>1 DEF At, Held
  <2>3. QED  BY <2>2 DEF IInv, Emptied
<1>2. QED  BY <1>1, Invariant, PTL

-----------------------------------------------------------------------------
(* A connector that one thread uses alone *)

\* Every step of the only thread keeps what it read before it had a lock true.
LEMMA StepAlone ==
    ASSUME NEW t, Threads = {t}, IInv, AloneInv, ~Crashed, Step(t)
    PROVE  Alone'
<1> DEFINE r == thread[t]
           Plain == {"idle", "end", "crash", "wrapped", "d_channel", "d_token", "d_favorite",
                     "c_connected", "c_end", "i_test", "t_ask", "t_merge", "f_ask", "f_merge",
                     "f_count", "f_counted", "h_lock", "h_send", "q_send"}
<1>fr. r \in Frames /\ ComesBack(r) /\ InMethod(r)
  BY DEF IInv, FramesOK
<1>al. Alone
  BY DEF AloneInv
<1>iv. TypeOK /\ FramesOK /\ t \in Threads
  BY DEF IInv
<1> USE DEF At, Places
<1>pl. ASSUME thread'[t].at \in Plain PROVE Alone'
  BY <1>pl DEF Alone
<1>1. CASE Disconnect(t) \/ IsConnected(t) \/ Favorite(t) \/ Change(t) \/ Request(t)
  <2>1. thread'[t].at \in Plain
    BY <1>1, <1>iv, Enters DEF Disconnect, IsConnected, Favorite, Change, Request
  <2>2. QED  BY <2>1, <1>pl
<1>2. CASE DisconnectChannel(t) \/ DisconnectTokens(t)
  <2>1. thread'[t].at \in Plain
    BY <1>2, <1>iv, Goes DEF DisconnectChannel, DisconnectTokens
  <2>2. QED  BY <2>1, <1>pl
<1>3. CASE DisconnectFavorites(t)
  <2>1. r.at = "d_favorite" /\ UNCHANGED channel /\ thread'[t].at = r.ret
    BY <1>3, <1>iv, Returns DEF DisconnectFavorites
  <2>2. channel = NoChannel
    BY <2>1 DEF IInv, Emptied
  <2>3. thread'[t].at \in Plain \union {"c_flag", "c_open"}
    BY <1>fr, <2>1 DEF ComesBack
  <2>4. QED  BY <2>1, <2>2, <2>3 DEF Alone
<1>4. ASSUME NEW op \in {"connect", "generic"}, Connect(t, op) PROVE Alone'
  <2>1. UNCHANGED channel
    BY <1>4 DEF Connect, connection
  <2>2. \/ thread'[t].at = "d_channel"
        \/ thread'[t].at \in {"c_flag", "c_open"} /\ channel = NoChannel
    BY <1>4, <1>iv, <1>fr DEF Connect, ConnectAt, FramesOK, Frames
  <2>3. QED  BY <2>1, <2>2 DEF Alone
<1>5. CASE ConnectGeneric(t)
  <2>1. r.at = "c_flag" /\ thread'[t].at = "c_open" /\ UNCHANGED channel
    BY <1>5, <1>iv, Goes DEF ConnectGeneric
  <2>2. QED  BY <1>al, <2>1 DEF Alone
<1>6. CASE ConnectOpen(t)
  <2>1. \/ Goto(t, "c_end") \/ Goto(t, "c_connected")
        \/ CallPart(t, "d_channel", "c_end") \/ CallPart(t, "t_ask", "c_connected")
    BY <1>6 DEF ConnectOpen
  <2>2. thread'[t].at \in Plain
    BY <1>iv, <2>1, Goes, Calls
  <2>3. QED  BY <2>2, <1>pl
<1>7. CASE ConnectDone(t)
  <2>1. thread'[t].at \in Plain
    BY <1>7, <1>iv, Goes DEF ConnectDone
  <2>2. QED  BY <2>1, <1>pl
<1>8. CASE LeaveChannel(t) \/ Leave(t)
  <2>1. thread'[t].at = "idle"
    BY <1>8, <1>fr, <1>iv, Returns DEF LeaveChannel, Leave, ComesBack
  <2>2. QED  BY <2>1, <1>pl
<1>9. CASE IsConnectedTest(t)
  <2>1. CallPart(t, "d_channel", "end") \/ Goto(t, "end")
    BY <1>9 DEF IsConnectedTest, Test
  <2>2. thread'[t].at \in Plain
    BY <1>iv, <2>1, Goes, Calls
  <2>3. QED  BY <2>2, <1>pl
<1>10. CASE \/ LoadTokensAsk(t) \/ LoadTokensMerge(t)
            \/ LoadFavoritesAsk(t) \/ LoadFavoritesMerge(t)
  <2>1. r.at \in {"t_ask", "t_merge", "f_ask", "f_merge"}
    BY <1>10 DEF LoadTokensAsk, LoadTokensMerge, LoadFavoritesAsk, LoadFavoritesMerge
  <2>2. CASE Return(t)
    <3>1. thread'[t].at \in Plain
      BY <1>fr, <1>iv, <2>1, <2>2, Returns DEF ComesBack
    <3>2. QED  BY <3>1, <1>pl
  <2>3. CASE ~Return(t)
    <3>1. thread'[t].at \in {"t_merge", "f_merge"}
      BY <1>10, <1>fr, <1>iv, <2>3
         DEF LoadTokensAsk, LoadTokensMerge, LoadFavoritesAsk, LoadFavoritesMerge, FramesOK, Frames
    <3>2. QED  BY <3>1, <1>pl
  <2>4. QED  BY <2>2, <2>3
<1>11. CASE Refresh(t)
  <2>1. thread'[t].at = "r_clear" /\ thread'[t].snap = channel /\ UNCHANGED channel
    BY <1>11, <1>iv, Enters DEF Refresh, connection
  <2>2. QED  BY <2>1 DEF Alone
<1>12. CASE RefreshClear(t)
  <2>1. /\ r.at = "r_clear" /\ UNCHANGED channel /\ thread'[t].at = "r_open"
        /\ thread'[t] = [r EXCEPT !.at = "r_open"]
    BY <1>12, <1>iv, Goes DEF RefreshClear, connection
  <2>2. thread'[t].snap = r.snap
    BY <1>fr, <2>1 DEF Frames
  <2>3. QED  BY <1>al, <2>1, <2>2 DEF Alone
<1>13. CASE RefreshOpen(t)
  <2>1. /\ r.at = "r_open" /\ UNCHANGED channel
        /\ \/ Goto(t, "c_end") \/ (Goto(t, "r_auth") /\ r.snap # NoChannel)
           \/ CallPart(t, "d_channel", "c_end")
    BY <1>13 DEF RefreshOpen, connection
  <2>2. CASE Goto(t, "c_end") \/ CallPart(t, "d_channel", "c_end")
    <3>1. thread'[t].at \in Plain
      BY <1>iv, <2>2, Goes, Calls
    <3>2. QED  BY <3>1, <1>pl
  <2>3. CASE Goto(t, "r_auth") /\ r.snap # NoChannel
    <3>1. thread'[t].at = "r_auth" /\ thread'[t] = [r EXCEPT !.at = "r_auth"]
      BY <1>iv, <2>3, Goes
    <3>2. thread'[t].snap = r.snap
      BY <1>fr, <3>1 DEF Frames
    <3>3. QED  BY <1>al, <2>1, <2>3, <3>1, <3>2 DEF Alone
  <2>4. QED  BY <2>1, <2>2, <2>3
<1>14. CASE RefreshAuthenticate(t)
  <2>1. \/ Goto(t, "c_end") \/ Goto(t, "crash")
        \/ CallPart(t, "d_channel", "c_end") \/ CallPart(t, "t_ask", "c_end")
    BY <1>14 DEF RefreshAuthenticate, RefreshLoad
  <2>2. thread'[t].at \in Plain
    BY <1>iv, <2>1, Goes, Calls
  <2>3. QED  BY <2>2, <1>pl
<1>15. CASE Token(t)
  <2>1. /\ UNCHANGED tokens
        /\ \/ thread'[t].at = "end"
           \/ thread'[t].at = "k_item" /\ thread'[t].index < TokenCount(tokens)
    BY <1>15, <1>fr, <1>iv DEF Token, FramesOK, Frames
  <2>2. QED  BY <2>1 DEF Alone, TokenCount, Items
<1>16. CASE TokenCountForEnterprise(t)
  <2>1. /\ UNCHANGED tokens
        /\ thread'[t].at = "e_others" /\ thread'[t].count = TokenCount(tokens)
    BY <1>16, <1>fr, <1>iv DEF TokenCountForEnterprise, FramesOK, Frames
  <2>2. QED  BY <2>1 DEF Alone, TokenCount, Items
<1>17. CASE TokenItem(t) \/ TokenCountOthers(t) \/ FavoriteItem(t)
  <2>1. thread'[t].at \in {"end", "crash", "wrapped"}
    BY <1>17, <1>iv, Goes DEF TokenItem, TokenCountOthers, FavoriteItem
  <2>2. QED  BY <2>1, <1>pl
<1>18. CASE FavoriteCountLock(t)
  <2>1. thread'[t].at \in {"f_ask", "f_counted"}
    BY <1>18, <1>fr, <1>iv DEF FavoriteCountLock, Goto, FramesOK, Frames
  <2>2. QED  BY <2>1, <1>pl
<1>19. CASE FavoriteCounted(t)
  <2>1. /\ UNCHANGED favorites
        /\ \/ thread'[t].at = "end"
           \/ thread'[t].at = "f_item" /\ thread'[t].index < FavoriteCount(favorites)
    BY <1>19, <1>fr, <1>iv DEF FavoriteCounted, FramesOK, Frames
  <2>2. QED  BY <2>1 DEF Alone, FavoriteCount, Items
<1>20. CASE ChangeLock(t)
  <2>1. CallPart(t, "d_channel", "c_end") \/ Goto(t, "h_send") \/ Goto(t, "c_end")
    BY <1>20 DEF ChangeLock, Test
  <2>2. thread'[t].at \in Plain
    BY <1>iv, <2>1, Goes, Calls
  <2>3. QED  BY <2>2, <1>pl
<1>21. CASE ChangeSend(t)
  <2>1. thread'[t].at \in {"f_ask", "c_end"}
    BY <1>21, <1>fr, <1>iv DEF ChangeSend, Goto, FramesOK, Frames
  <2>2. QED  BY <2>1, <1>pl
<1>22. CASE Response(t)
  <2>1. thread'[t].at = "a_use" /\ thread'[t].snap = channel /\ UNCHANGED channel
    BY <1>22, <1>iv, Enters DEF Response, connection
  <2>2. QED  BY <2>1 DEF Alone
<1>23. CASE RequestSend(t) \/ ResponseUse(t)
  <2>1. thread'[t].at \in {"end", "crash"}
    BY <1>23, <1>iv, Goes DEF RequestSend, ResponseUse
  <2>2. QED  BY <2>1, <1>pl
<1>24. QED
  BY <1>1, <1>2, <1>3, <1>4, <1>5, <1>6, <1>7, <1>8, <1>9, <1>10, <1>11, <1>12, <1>13,
     <1>14, <1>15, <1>16, <1>17, <1>18, <1>19, <1>20, <1>21, <1>22, <1>23 DEF Step

\* Its tokens are those of the connection there is.
LEMMA StepTokens ==
    ASSUME NEW t, Threads = {t}, IInv, AloneInv, Step(t)
    PROVE  channel' # NoChannel /\ tokens' # 0 => loaded'
<1>to. channel # NoChannel /\ tokens # 0 => loaded
  BY DEF AloneInv, TokensOfThisConnection
<1>1. CASE DisconnectChannel(t)
  BY <1>1 DEF DisconnectChannel
<1>2. CASE DisconnectTokens(t)
  BY <1>2 DEF DisconnectTokens
<1>3. CASE DisconnectFavorites(t)
  BY <1>3, <1>to DEF DisconnectFavorites, history
<1>4. CASE ConnectOpen(t)
  <2>1. thread[t].at = "c_open" /\ channel = NoChannel
    BY <1>4 DEF ConnectOpen, At, AloneInv, Alone
  <2>2. tokens = 0
    BY <2>1 DEF IInv, Emptied, At
  <2>3. QED  BY <1>4, <2>2 DEF ConnectOpen
<1>5. CASE LoadTokensMerge(t)
  BY <1>5 DEF LoadTokensMerge
<1>6. CASE LoadFavoritesMerge(t)
  BY <1>6, <1>to DEF LoadFavoritesMerge, connection
<1>7. CASE \/ Disconnect(t) \/ Connect(t, "connect") \/ Connect(t, "generic")
           \/ ConnectGeneric(t) \/ ConnectDone(t) \/ LeaveChannel(t)
           \/ IsConnected(t) \/ IsConnectedTest(t) \/ Leave(t)
           \/ LoadTokensAsk(t) \/ LoadFavoritesAsk(t)
  BY <1>7, <1>to DEF Disconnect, Connect, ConnectGeneric, ConnectDone, LeaveChannel,
     IsConnected, IsConnectedTest, Leave, LoadTokensAsk, LoadFavoritesAsk, connection, history
<1>8. CASE Refresh(t) \/ RefreshClear(t) \/ RefreshOpen(t) \/ RefreshAuthenticate(t)
  BY <1>8, <1>to DEF Refresh, RefreshClear, RefreshOpen, RefreshAuthenticate, connection, history
<1>9. CASE \/ Token(t) \/ TokenItem(t) \/ TokenCountForEnterprise(t) \/ TokenCountOthers(t)
           \/ Favorite(t) \/ FavoriteCountLock(t) \/ FavoriteCounted(t) \/ FavoriteItem(t)
  <2>1. UNCHANGED <<connection, tokens, history>>
    BY <1>9 DEF Token, TokenItem, TokenCountForEnterprise, TokenCountOthers, Favorite,
       FavoriteCountLock, FavoriteCounted, FavoriteItem
  <2>2. QED  BY <1>to, <2>1 DEF connection, history
<1>10. CASE \/ Change(t) \/ ChangeLock(t) \/ ChangeSend(t)
            \/ Request(t) \/ RequestSend(t) \/ Response(t) \/ ResponseUse(t)
  BY <1>10, <1>to DEF Change, ChangeLock, ChangeSend, Request, RequestSend, Response, ResponseUse,
     connection, history
<1>11. QED  BY <1>1, <1>2, <1>3, <1>4, <1>5, <1>6, <1>7, <1>8, <1>9, <1>10 DEF Step

\* It dies in two places: in refresh, with a channel and without a message processor, and
\* in an accessor of the last response, without a channel.
LEMMA StepDies ==
    ASSUME NEW t, Threads = {t}, IInv, AloneInv, ~Crashed, Step(t)
    PROVE  TwoPlacesToDie'
<1> DEFINE r == thread[t]
           Lives == thread'[t].at \notin {"crash", "wrapped"}
<1>fr. r \in Frames /\ ComesBack(r) /\ InMethod(r)
  BY DEF IInv, FramesOK
<1>iv. TypeOK /\ FramesOK /\ t \in Threads
  BY DEF IInv
<1>al. Alone
  BY DEF AloneInv
<1> USE DEF At, Places
<1>li. ASSUME Lives PROVE TwoPlacesToDie'
  BY <1>li DEF TwoPlacesToDie
<1>1. CASE TokenItem(t)
  <2>1. r.at = "k_item" /\ r.index < TokenCount(tokens)
    BY <1>1, <1>al DEF TokenItem, Alone
  <2>2. thread'[t].at = "end"
    BY <1>1, <1>iv, <2>1, Goes DEF TokenItem
  <2>3. QED  BY <2>2, <1>li
<1>2. CASE FavoriteItem(t)
  <2>1. r.at = "f_item" /\ r.index < FavoriteCount(favorites)
    BY <1>2, <1>al DEF FavoriteItem, Alone
  <2>2. thread'[t].at = "end"
    BY <1>2, <1>iv, <2>1, Goes DEF FavoriteItem
  <2>3. QED  BY <2>2, <1>li
<1>3. CASE TokenCountOthers(t)
  <2> DEFINE now == Items(TokenLists, tokens)
  <2>1. now.size \in Nat /\ now.mine \in Nat /\ r.count = now.size
    BY <1>3, <1>al, <1>iv, CountsAreNat DEF TokenCountOthers, Alone
  <2>2. now.size - now.mine <= r.count
    BY <2>1
  <2>3. Goto(t, "end")
    BY <1>3, <2>2 DEF TokenCountOthers
  <2>4. thread'[t].at = "end"
    BY <1>iv, <2>3, Goes
  <2>5. QED  BY <2>4, <1>li
<1>4. CASE RefreshAuthenticate(t)
  <2>1. r.at = "r_auth" /\ r.op = "refresh" /\ channel # NoChannel
    BY <1>4, <1>fr, <1>al DEF RefreshAuthenticate, Alone, InMethod
  <2>2. \/ Goto(t, "crash") /\ ~processor
        \/ Goto(t, "c_end")
        \/ CallPart(t, "d_channel", "c_end") \/ CallPart(t, "t_ask", "c_end")
    BY <1>4 DEF RefreshAuthenticate, RefreshLoad
  <2>3. CASE Goto(t, "crash") /\ ~processor
    <3>1. thread'[t].at = "crash" /\ thread'[t].op = "refresh"
      BY <1>iv, <2>1, <2>3, Goes
    <3>2. channel' = channel /\ processor' = processor
      BY <1>4 DEF RefreshAuthenticate, connection
    <3>3. QED  BY <2>1, <2>3, <3>1, <3>2 DEF TwoPlacesToDie
  <2>4. CASE Goto(t, "c_end") \/ CallPart(t, "d_channel", "c_end") \/ CallPart(t, "t_ask", "c_end")
    <3>1. Lives
      BY <1>iv, <2>4, Goes, Calls
    <3>2. QED  BY <3>1, <1>li
  <2>5. QED  BY <2>2, <2>3, <2>4
<1>5. CASE ResponseUse(t)
  <2>1. r.at = "a_use" /\ r.op = "response" /\ r.snap = channel /\ UNCHANGED channel
    BY <1>5, <1>fr, <1>al DEF ResponseUse, Alone, InMethod, connection
  <2>2. Goto(t, "end") \/ (Goto(t, "crash") /\ channel = NoChannel)
    BY <1>5, <2>1 DEF ResponseUse
  <2>3. CASE Goto(t, "end")
    <3>1. Lives
      BY <1>iv, <2>3, Goes
    <3>2. QED  BY <3>1, <1>li
  <2>4. CASE Goto(t, "crash") /\ channel = NoChannel
    <3>1. thread'[t].at = "crash" /\ thread'[t].op = "response"
      BY <1>iv, <2>1, <2>4, Goes
    <3>2. QED  BY <2>1, <2>4, <3>1 DEF TwoPlacesToDie
  <2>5. QED  BY <2>2, <2>3, <2>4
<1>6. CASE ~(\/ TokenItem(t) \/ FavoriteItem(t) \/ TokenCountOthers(t)
            \/ RefreshAuthenticate(t) \/ ResponseUse(t))
  <2>1. CASE Busy(t)
    <3>1. CASE \/ DisconnectChannel(t) \/ DisconnectTokens(t) \/ DisconnectFavorites(t)
               \/ LoadTokensMerge(t) \/ LoadFavoritesMerge(t) \/ RefreshClear(t)
      BY <3>1, <1>li, <1>fr, <1>iv, Goes, Returns DEF DisconnectChannel, DisconnectTokens,
         DisconnectFavorites, LoadTokensMerge, LoadFavoritesMerge, RefreshClear, Frames
    <3>2. CASE ConnectOpen(t)
      <4>1. \/ Goto(t, "c_end") \/ Goto(t, "c_connected")
            \/ CallPart(t, "d_channel", "c_end") \/ CallPart(t, "t_ask", "c_connected")
        BY <3>2 DEF ConnectOpen
      <4>2. Lives
        BY <1>iv, <4>1, Goes, Calls
      <4>3. QED  BY <4>2, <1>li
    <3>3. CASE LoadTokensAsk(t) \/ LoadFavoritesAsk(t)
      <4>1. CASE Return(t)
        BY <1>fr, <1>iv, <1>li, <4>1, Returns DEF Frames
      <4>2. CASE ~Return(t)
        BY <1>fr, <1>iv, <1>li, <3>3, <4>2 DEF LoadTokensAsk, LoadFavoritesAsk, FramesOK, Frames
      <4>3. QED  BY <4>1, <4>2
    <3>4. CASE ChangeSend(t)
      BY <1>fr, <1>iv, <1>li, <3>4 DEF ChangeSend, Goto, FramesOK, Frames
    <3>5. QED  BY <2>1, <3>1, <3>2, <3>3, <3>4 DEF Busy
  <2>2. CASE \/ Disconnect(t) \/ IsConnected(t) \/ Refresh(t) \/ Favorite(t) \/ Change(t)
             \/ Request(t) \/ Response(t)
    BY <1>iv, <1>li, <2>2, Enters DEF Disconnect, IsConnected, Refresh, Favorite, Change,
       Request, Response
  <2>3. ASSUME NEW op \in {"connect", "generic"}, Connect(t, op) PROVE TwoPlacesToDie'
    BY <1>fr, <1>iv, <1>li, <2>3 DEF Connect, ConnectAt, FramesOK, Frames
  <2>4. CASE ConnectGeneric(t) \/ ConnectDone(t)
    BY <1>iv, <1>li, <2>4, Goes DEF ConnectGeneric, ConnectDone
  <2>5. CASE LeaveChannel(t) \/ Leave(t)
    BY <1>fr, <1>iv, <1>li, <2>5, Returns DEF LeaveChannel, Leave, Frames
  <2>6. CASE IsConnectedTest(t) \/ ChangeLock(t) \/ RefreshOpen(t)
    <3>1. \/ Goto(t, "end") \/ Goto(t, "c_end") \/ Goto(t, "h_send") \/ Goto(t, "r_auth")
          \/ CallPart(t, "d_channel", "c_end") \/ CallPart(t, "d_channel", "end")
      BY <2>6 DEF IsConnectedTest, ChangeLock, Test, RefreshOpen
    <3>2. Lives
      BY <1>iv, <3>1, Goes, Calls
    <3>3. QED  BY <3>2, <1>li
  <2>7. CASE Token(t)
    BY <1>fr, <1>iv, <1>li, <2>7 DEF Token, FramesOK, Frames
  <2>8. CASE TokenCountForEnterprise(t)
    BY <1>fr, <1>iv, <1>li, <2>8 DEF TokenCountForEnterprise, FramesOK, Frames
  <2>9. CASE FavoriteCountLock(t)
    BY <1>fr, <1>iv, <1>li, <2>9 DEF FavoriteCountLock, Goto, FramesOK, Frames
  <2>10. CASE FavoriteCounted(t)
    BY <1>fr, <1>iv, <1>li, <2>10 DEF FavoriteCounted, FramesOK, Frames
  <2>12. CASE RequestSend(t)
    BY <1>iv, <1>li, <2>12, Goes DEF RequestSend
  <2>11. QED
    BY <1>6, <2>1, <2>2, <2>3, <2>4, <2>5, <2>6, <2>7, <2>8, <2>9, <2>10, <2>12 DEF Step, Busy
<1>7. QED  BY <1>1, <1>2, <1>3, <1>4, <1>5, <1>6

\* The invariant of a connector that one thread uses alone.
LEMMA AloneHolds ==
    ASSUME NEW t, Threads = {t}
    PROVE  Spec => []AloneInv
<1>1. Init => AloneInv
  <2>1. ASSUME Init PROVE IInv
    BY <2>1, InitIInv
  <2>2. ASSUME Init PROVE AloneInv
    <3>1. thread[t].at = "idle" /\ TypeOK
      BY <2>1, <2>2 DEF Init, Idle, IInv
    <3>2. QED  BY <2>2, <3>1
               DEF Init, AloneInv, Alone, TokensOfThisConnection, TwoPlacesToDie, At
  <2>3. QED  BY <2>2
<1>2. IInv /\ AloneInv /\ [Next]_vars => AloneInv'
  <2> SUFFICES ASSUME IInv, AloneInv, [Next]_vars PROVE AloneInv'
    OBVIOUS
  <2>1. TypeOK'
    BY NextIInv DEF IInv
  <2>2. CASE ~Crashed /\ Step(t)
    BY <2>1, <2>2, StepAlone, StepTokens, StepDies DEF AloneInv, TokensOfThisConnection
  <2>3. CASE UNCHANGED <<connection, tokens, favorites, thread, history>>
    BY <2>1, <2>3
       DEF AloneInv, Alone, TokensOfThisConnection, TwoPlacesToDie, At, connection, history,
           TokenCount, FavoriteCount, Items
  <2>4. QED  BY <2>2, <2>3 DEF Next, LinkLost, ServerChanges, vars
<1>3. QED  BY <1>1, <1>2, Invariant, PTL DEF Spec

\* With one thread the tokens listed were read over the connection there is.
THEOREM TokensAreOfThisConnection ==
    ASSUME NEW t, Threads = {t}
    PROVE  Spec => []TokensOfThisConnection
<1>1. AloneInv => TokensOfThisConnection
  BY DEF AloneInv
<1>2. Spec => []AloneInv
  BY AloneHolds
<1>3. QED  BY <1>1, <1>2, PTL

\* A single thread never reads past a list that it counted, and the count of an
\* enterprise does not wrap; it dies only in refresh, on the message processor that a
\* connect without a server has dropped, and in the accessors of the last response, on
\* the _hdr that is null without a connection.
THEOREM OnlyTwoPlacesDie ==
    ASSUME NEW t, Threads = {t}
    PROVE  Spec => []TwoPlacesToDie
<1>1. AloneInv => TwoPlacesToDie
  BY DEF AloneInv
<1>2. Spec => []AloneInv
  BY AloneHolds
<1>3. QED  BY <1>1, <1>2, PTL
=============================================================================
