--------------------------- MODULE ChannelProofs ---------------------------
(***************************************************************************)
(* Theorems about what comes over a connection: about MsgTunnel, the       *)
(* sealed messages, for any number of sessions and requests, and about     *)
(* HttpReceive, the HTTP responses, for any answers of a server.           *)
(***************************************************************************)
EXTENDS MsgTunnel, HttpReceive, FiniteSetTheorems, SequenceTheorems,
        WellFoundedInduction, TLAPS

(* What is under way is appended at one end and taken from the other. *)

\* An element of a sequence that was appended to.
LEMMA Appended ==
    ASSUME NEW S, NEW s \in Seq(S), NEW x \in S
    PROVE  /\ Append(s, x) \in Seq(S)
           /\ Len(Append(s, x)) = Len(s) + 1
           /\ \A i \in DOMAIN Append(s, x) :
                 Append(s, x)[i] = x \/ \E j \in DOMAIN s : Append(s, x)[i] = s[j]
<1>1. QED  OBVIOUS

\* The elements that are left when the first is taken.
LEMMA Taken ==
    ASSUME NEW S, NEW s \in Seq(S), s # <<>>
    PROVE  /\ Tail(s) \in Seq(S)
           /\ Len(Tail(s)) = Len(s) - 1 /\ Len(s) \in Nat \ {0}
           /\ Head(s) \in S
           /\ 1 \in DOMAIN s /\ Head(s) = s[1]
           /\ \A i \in DOMAIN Tail(s) : \E j \in DOMAIN s : Tail(s)[i] = s[j]
<1>1. QED  OBVIOUS

\* There is nothing in an empty sequence.
LEMMA Nothing ==
    ASSUME NEW S
    PROVE  <<>> \in Seq(S) /\ Len(<<>>) = 0 /\ \A i \in DOMAIN <<>> : FALSE
<1>1. QED  OBVIOUS

-----------------------------------------------------------------------------
(* Type correctness *)

\* The initial state has the types.
LEMMA InitTypeOK == Init => TypeOK
<1> SUFFICES ASSUME Init PROVE TypeOK
  OBVIOUS
<1> USE DEF Init
<1>no. NoKey \in Keys
  BY DEF NoKey, Keys
<1>1. processor \in [key : Nat, seq : Nat, msg : Keys]
  BY <1>no DEF Cleared
<1>2. requests \in Seq(Requests) /\ answers \in Seq(Answers)
  BY Nothing
<1>3. accepted \in Answers
  BY <1>no DEF NoAnswer, Answers
<1>4. /\ scheme \in {"none", "login", "tunnel"} /\ link \in {"up", "lost", "down"}
      /\ known \subseteq Nat /\ call \in {"idle", "waiting", "success", "failure"}
      /\ used \subseteq Requests /\ unread \in BOOLEAN
  OBVIOUS
<1>5. sessions \in 0 .. MaxSessions /\ sent \in 0 .. MaxRequests
  BY MsgAssumption
<1> HIDE DEF Init
<1>6. QED
  BY <1>1, <1>2, <1>3, <1>4, <1>5 DEF TypeOK

Processors == [key : Nat, seq : Nat, msg : Keys]

\* What the processor's operations leave it in.
LEMMA ProcessorTypes ==
    ASSUME processor \in Processors
    PROVE  /\ Cleared \in Processors
           /\ SessionOver \in Processors
           /\ Wrap \in Processors /\ Wrap.msg \in Keys
           /\ Unwrapped \in Processors
<1>no. NoKey \in Keys
  BY DEF NoKey, Keys
<1>1. Cleared \in Processors
  BY <1>no DEF Processors, Cleared
<1>2. SessionOver \in Processors
  BY DEF Processors, SessionOver
<1>3. Wrap \in Processors /\ Wrap.msg \in Keys
  <2>1. /\ processor.key \in Nat /\ processor.seq \in Nat /\ processor.seq + 1 \in Nat
        /\ [key |-> processor.key, seq |-> processor.seq] \in Keys
    BY DEF Processors, Keys
  <2>2. QED  BY <2>1 DEF Processors, Wrap
<1>4. Unwrapped \in Processors
  BY <1>no DEF Processors, Unwrapped
<1>5. QED  BY <1>1, <1>2, <1>3, <1>4

\* A new session begins with its key and no number used.
LEMMA NewSession ==
    ASSUME processor \in Processors, NEW key \in Nat
    PROVE  /\ Start(key) \in Processors /\ Start(key).key = key
           /\ TunnelActive(key) \in Processors /\ TunnelActive(key).key = key
<1>1. Cleared \in Processors
  BY ProcessorTypes
<1>2. QED
  BY <1>1 DEF Processors, Keys, Start, TunnelActive

\* Every step keeps the types.
LEMMA NextTypeOK ==
    ASSUME TypeOK, [Next]_vars
    PROVE  TypeOK'
<1> USE MsgAssumption DEF TypeOK, Processors
<1>no. <<>> \in Seq(Requests) /\ <<>> \in Seq(Answers)
  BY Nothing
<1>key. sessions + 1 \in Nat
  OBVIOUS
<1>1. ASSUME NEW s \in {"login", "tunnel"}, Connect(s) PROVE TypeOK'
  <2>1. processor' \in Processors
    <3>1. processor' = Start(sessions + 1)
      BY <1>1 DEF Connect
    <3>2. QED  BY <3>1, <1>key, NewSession
  <2>2. /\ UNCHANGED <<sent, used, accepted>>
        /\ sessions' \in 0 .. MaxSessions /\ known' \subseteq Nat
        /\ scheme' \in {"none", "login", "tunnel"} /\ call' = "idle"
    BY <1>1, <1>key DEF Connect
  <2>3. link' = "up" /\ requests' = <<>> /\ answers' = <<>> /\ unread' = FALSE
    BY <1>1 DEF Connect, NewSocket
  <2>4. QED  BY <1>no, <2>1, <2>2, <2>3
<1>2. CASE Refresh
  <2>1. processor' \in Processors
    <3>1. processor' = TunnelActive(sessions + 1)
      BY <1>2 DEF Refresh
    <3>2. QED  BY <3>1, <1>key, NewSession
  <2>2. /\ UNCHANGED <<sent, used, accepted>>
        /\ sessions' \in 0 .. MaxSessions /\ known' \subseteq Nat
        /\ scheme' \in {"none", "login", "tunnel"} /\ call' = "idle"
    BY <1>2, <1>key DEF Refresh
  <2>3. link' = "up" /\ requests' = <<>> /\ answers' = <<>> /\ unread' = FALSE
    BY <1>2 DEF Refresh, NewSocket
  <2>4. QED  BY <1>no, <2>1, <2>2, <2>3
<1>3. CASE RefreshSocket
  BY <1>3, <1>no DEF RefreshSocket, NewSocket, KnownOnNewSocket, history
<1>4. CASE TunnelStops
  BY <1>4, ProcessorTypes DEF TunnelStops, socket, history
<1>5. CASE Disconnect
  BY <1>5, <1>no, ProcessorTypes DEF Disconnect, history
<1>6. CASE Send
  <2>1. processor' = Wrap /\ sent' = sent + 1 /\ sent' \in 0 .. MaxRequests
        /\ used' = used \union {Sealed}
        /\ UNCHANGED <<scheme, sessions, accepted>>
    BY <1>6 DEF Send
  <2>2. processor' \in [key : Nat, seq : Nat, msg : Keys] /\ Sealed \in Requests
    BY <2>1, ProcessorTypes DEF Sealed, Requests
  <2>3. /\ link' \in {"up", "lost", "down"}
        /\ answers' \in Seq(Answers)
        /\ known' \subseteq Nat
        /\ call' \in {"idle", "waiting", "success", "failure"}
        /\ unread' \in BOOLEAN
    BY <1>6, <1>no DEF Send, KnownOnNewSocket, socket
  <2>4. requests' \in Seq(Requests)
    <3>1. Append(requests, Sealed) \in Seq(Requests) /\ <<Sealed>> \in Seq(Requests)
      BY <2>2, Appended
    <3>2. requests' \in {requests, Append(requests, Sealed), <<Sealed>>}
      BY <1>6 DEF Send, socket
    <3>3. QED  BY <3>1, <3>2
  <2>5. QED  BY <2>1, <2>2, <2>3, <2>4
<1>7. CASE SendUnwrapped
  BY <1>7 DEF SendUnwrapped, socket, history
<1>8. CASE Receive
  <2>1. Head(answers) \in Answers /\ Tail(answers) \in Seq(Answers)
    BY <1>8, Taken DEF Receive
  <2>2. QED  BY <1>8, <2>1, ProcessorTypes DEF Receive
<1>9. CASE ReceiveInterrupted
  BY <1>9 DEF ReceiveInterrupted, history
<1>10. CASE ReceiveEnd
  BY <1>10, <1>no DEF ReceiveEnd, history
<1>11. CASE ServerAnswers
  <2>1. Head(requests) \in Requests /\ Tail(requests) \in Seq(Requests)
    BY <1>11, Taken DEF ServerAnswers
  <2>2. PICK kind \in {"sealed", "plain", "empty"} :
           answers' = Append(answers, [kind |-> kind, key |-> Head(requests).key,
                                       request |-> Head(requests).request])
    BY <1>11 DEF ServerAnswers
  <2>3. answers' \in Seq(Answers)
    BY <2>1, <2>2, Appended DEF Requests, Answers
  <2>4. QED  BY <1>11, <2>1, <2>3 DEF ServerAnswers, history
<1>12. CASE ServerForgets
  BY <1>12 DEF ServerForgets, socket, history
<1>13. CASE LinkLost
  BY <1>13, <1>no DEF LinkLost, history
<1>14. CASE UNCHANGED vars
  BY <1>14 DEF vars
<1>15. QED
  BY <1>1, <1>2, <1>3, <1>4, <1>5, <1>6, <1>7, <1>8, <1>9, <1>10, <1>11, <1>12,
     <1>13, <1>14 DEF Next

-----------------------------------------------------------------------------
(* The steps that leave the session or the history alone *)

\* Steps that do not touch what the numbers are about.
LEMMA Untouched ==
    ASSUME \/ RefreshSocket \/ SendUnwrapped \/ ReceiveInterrupted \/ ReceiveEnd
           \/ ServerAnswers \/ ServerForgets \/ LinkLost \/ UNCHANGED vars
    PROVE  UNCHANGED <<processor, sessions, sent, used, accepted>>
<1>1. QED
  BY DEF RefreshSocket, SendUnwrapped, ReceiveInterrupted, ReceiveEnd, ServerAnswers,
     ServerForgets, LinkLost, vars, history

\* What a request leaves in the processor and in the history.
LEMMA Sent ==
    ASSUME TypeOK, Send
    PROVE  /\ processor.key # 0 /\ call # "waiting"
           /\ processor.key \in Nat /\ processor.seq \in Nat /\ sent \in Nat
           /\ processor'.key = processor.key /\ processor'.seq = processor.seq + 1
           /\ processor'.msg = [key |-> processor.key, seq |-> processor.seq]
           /\ Sealed.key.key = processor.key /\ Sealed.key.seq = processor.seq
           /\ Sealed.key = processor'.msg /\ Sealed.request = sent + 1
           /\ Sealed = [key |-> processor'.msg, request |-> sent']
           /\ sent' = sent + 1 /\ used' = used \union {Sealed}
           /\ UNCHANGED <<sessions, accepted>>
<1>1. QED  BY DEF TypeOK, Send, Wrap, Sealed

-----------------------------------------------------------------------------
(* A session's numbers go up, so that no key is used twice *)

\* At first nothing has been sealed.
LEMMA InitNumbers == Init => NumbersGoUp /\ KeyUsedOnce
<1>1. QED  BY DEF Init, Cleared, NumbersGoUp, KeyUsedOnce

\* A session that begins, or ends, has not sealed anything.
LEMMA FreshSession ==
    ASSUME TypeOK, NumbersGoUp, KeyUsedOnce, UNCHANGED <<sent, used>>,
           \/ /\ sessions' = sessions + 1 /\ processor'.key = sessions'
           \/ /\ sessions' = sessions /\ processor'.key = 0
    PROVE  NumbersGoUp' /\ KeyUsedOnce'
<1>1. sessions \in Nat
  BY DEF TypeOK
<1>2. \A u \in used : u.key.key \in 1 .. sessions /\ u.request <= sent
  BY DEF NumbersGoUp
<1>3. \A u \in used : u.key.key \in 1 .. sessions' /\ u.key.key # processor'.key
  BY <1>1, <1>2
<1>4. processor'.key <= sessions'
  BY <1>1
<1>5. QED  BY <1>2, <1>3, <1>4 DEF NumbersGoUp, KeyUsedOnce

\* Every step keeps the numbers and the keys.
LEMMA NextNumbers ==
    ASSUME TypeOK, NumbersGoUp, KeyUsedOnce, [Next]_vars
    PROVE  NumbersGoUp' /\ KeyUsedOnce'
<1>ty. processor \in Processors /\ sessions \in Nat /\ sessions + 1 \in Nat
  BY DEF TypeOK, Processors
<1>1. ASSUME NEW s \in {"login", "tunnel"}, Connect(s)
      PROVE  NumbersGoUp' /\ KeyUsedOnce'
  <2>1. processor'.key = sessions' /\ sessions' = sessions + 1
    BY <1>1, <1>ty, NewSession DEF Connect
  <2>2. QED  BY <1>1, <2>1, FreshSession DEF Connect
<1>2. CASE Refresh
  <2>1. processor'.key = sessions' /\ sessions' = sessions + 1
    BY <1>2, <1>ty, NewSession DEF Refresh
  <2>2. QED  BY <1>2, <2>1, FreshSession DEF Refresh
<1>3. CASE TunnelStops
  <2>1. processor'.key = 0
    BY <1>3, <1>ty DEF TunnelStops, SessionOver, Processors
  <2>2. QED  BY <1>3, <2>1, FreshSession DEF TunnelStops, history
<1>4. CASE Disconnect
  <2>1. processor'.key = 0
    BY <1>4 DEF Disconnect, Cleared
  <2>2. QED  BY <1>4, <2>1, FreshSession DEF Disconnect, history
<1>5. CASE Send
  <2>1. NumbersGoUp'
    <3>1. ASSUME NEW u \in used'
          PROVE  /\ u.key.key \in 1 .. sessions' /\ u.request <= sent'
                 /\ u.key.key = processor'.key => u.key.seq < processor'.seq
      <4>1. CASE u \in used
        <5>1. u.key.seq \in Nat /\ u.request \in Nat
          BY <4>1 DEF TypeOK, Requests, Keys
        <5>2. QED  BY <1>5, <4>1, <5>1, Sent DEF NumbersGoUp
      <4>2. CASE u = Sealed
        BY <1>5, <1>ty, <4>2, Sent DEF NumbersGoUp
      <4>3. QED  BY <1>5, <4>1, <4>2, Sent
    <3>2. processor'.key <= sessions'
      BY <1>5, Sent DEF NumbersGoUp
    <3>3. QED  BY <3>1, <3>2 DEF NumbersGoUp
  <2>2. KeyUsedOnce'
    <3>1. ASSUME NEW u \in used PROVE u.key # Sealed.key
      <4>1. u.key.seq \in Nat
        BY DEF TypeOK, Requests, Keys
      <4>2. ~(u.key.key = processor.key /\ u.key.seq = processor.seq)
        BY <1>5, <4>1, Sent DEF NumbersGoUp
      <4>3. QED  BY <1>5, <4>2, Sent
    <3>2. QED  BY <1>5, <3>1, Sent DEF KeyUsedOnce
  <2>3. QED  BY <2>1, <2>2
<1>6. CASE Receive
  <2>1. processor'.key = processor.key /\ processor'.seq = processor.seq
    BY <1>6, <1>ty DEF Receive, Unwrapped, Processors
  <2>2. QED  BY <1>6, <2>1 DEF Receive, NumbersGoUp, KeyUsedOnce
<1>7. CASE \/ RefreshSocket \/ SendUnwrapped \/ ReceiveInterrupted \/ ReceiveEnd
           \/ ServerAnswers \/ ServerForgets \/ LinkLost \/ UNCHANGED vars
  BY <1>7, Untouched DEF NumbersGoUp, KeyUsedOnce
<1>8. QED
  BY <1>1, <1>2, <1>3, <1>4, <1>5, <1>6, <1>7 DEF Next

-----------------------------------------------------------------------------
(* A call that waits has its key, and what is under way is its own *)

\* Every step keeps the key of a call that waits.
LEMMA NextWaits ==
    ASSUME TypeOK, WaitsWithKey, [Next]_vars
    PROVE  WaitsWithKey'
<1>ty. processor \in Processors
  BY DEF TypeOK, Processors
<1>1. ASSUME call' # "waiting" PROVE WaitsWithKey'
  BY <1>1 DEF WaitsWithKey
<1>2. CASE Send
  <2>1. Sealed = [key |-> processor'.msg, request |-> sent'] /\ Sealed \in used'
        /\ processor'.msg.key # 0
    BY <1>2, Sent
  <2>2. QED  BY <2>1 DEF WaitsWithKey
<1>3. CASE TunnelStops
  <2>1. processor'.msg = processor.msg
    BY <1>3, <1>ty DEF TunnelStops, SessionOver, Processors
  <2>2. QED  BY <1>3, <2>1 DEF TunnelStops, WaitsWithKey, history
<1>4. CASE ServerAnswers \/ ServerForgets \/ LinkLost \/ UNCHANGED vars
  BY <1>4 DEF ServerAnswers, ServerForgets, LinkLost, WaitsWithKey, vars, history
<1>5. ASSUME \/ \E s \in {"login", "tunnel"} : Connect(s)
             \/ Refresh \/ RefreshSocket \/ Disconnect \/ SendUnwrapped
             \/ Receive \/ ReceiveInterrupted \/ ReceiveEnd
      PROVE  call' # "waiting"
  BY <1>5 DEF Connect, Refresh, RefreshSocket, Disconnect, SendUnwrapped, Receive,
     ReceiveInterrupted, ReceiveEnd
<1>6. QED
  BY <1>1, <1>2, <1>3, <1>4, <1>5 DEF Next

\* Nothing is under way on a new socket, or on none.
LEMMA EmptySocket ==
    ASSUME requests' = <<>>, answers' = <<>>
    PROVE  UnderWay'
<1>1. QED  BY Nothing DEF UnderWay

\* Steps that change neither the socket nor the request.
LEMMA SameSocket ==
    ASSUME UnderWay, UNCHANGED <<requests, answers, unread, sent, used>>,
           call = "waiting" => call' = "waiting"
    PROVE  UnderWay'
<1>1. QED  BY DEF UnderWay

\* A request that goes out on a socket.
LEMMA SendUnderWay ==
    ASSUME TypeOK, UnderWay, Send
    PROVE  UnderWay'
<1>1. call # "waiting" /\ used' = used \union {Sealed} /\ Sealed.request = sent'
  BY Sent
<1>2. Sealed \in Requests
  BY Sent DEF TypeOK, Requests, Keys
<1>3. CASE call' = "waiting" /\ requests' = Append(requests, Sealed)
           /\ UNCHANGED <<answers, unread>>
  <2>1. /\ Len(requests') = Len(requests) + 1
        /\ \A i \in DOMAIN requests' :
              requests'[i] = Sealed \/ \E j \in DOMAIN requests : requests'[i] = requests[j]
    BY <1>2, <1>3, Appended DEF TypeOK
  <2>2. \A i \in DOMAIN requests' : requests'[i] \in used'
    BY <1>1, <2>1 DEF UnderWay
  <2>3. ASSUME ~unread'
        PROVE  /\ Len(requests') + Len(answers') <= 1
               /\ \A i \in DOMAIN requests' : requests'[i].request = sent'
               /\ \A i \in DOMAIN answers' : FALSE
    <3>1. Len(requests) \in Nat /\ Len(answers) \in Nat
          /\ Len(requests) + Len(answers) <= 0
      BY <1>1, <1>3, <2>3 DEF UnderWay, TypeOK
    <3>2. requests = <<>> /\ answers = <<>>
      BY <3>1, EmptySeq DEF TypeOK
    <3>3. QED  BY <1>1, <1>3, <2>1, <3>1, <3>2, Nothing
  <2>4. QED  BY <1>1, <1>3, <2>2, <2>3 DEF UnderWay
<1>4. CASE call' = "waiting" /\ answers' = <<>> /\ requests' = <<Sealed>>
  <2>1. DOMAIN requests' = {1} /\ requests'[1] = Sealed /\ Len(requests') = 1
    BY <1>4
  <2>2. QED  BY <1>1, <1>4, <2>1, Nothing DEF UnderWay
<1>5. CASE UNCHANGED <<requests, answers, unread>>
  <2>1. ASSUME ~unread PROVE requests = <<>> /\ answers = <<>>
    <3>1. Len(requests) \in Nat /\ Len(answers) \in Nat
          /\ Len(requests) + Len(answers) <= 0
      BY <1>1, <2>1 DEF UnderWay, TypeOK
    <3>2. QED  BY <3>1, EmptySeq DEF TypeOK
  <2>2. CASE unread
    BY <1>1, <1>5, <2>2 DEF UnderWay
  <2>3. CASE ~unread
    BY <1>5, <2>1, <2>3, EmptySocket
  <2>4. QED  BY <2>2, <2>3
<1>6. QED  BY <1>3, <1>4, <1>5 DEF Send, socket

\* The server takes a request and puts its answer.
LEMMA ServerUnderWay ==
    ASSUME TypeOK, UnderWay, ServerAnswers
    PROVE  UnderWay'
<1>1. /\ requests # <<>> /\ requests' = Tail(requests)
      /\ UNCHANGED <<call, sent, used, unread>>
  BY DEF ServerAnswers, history
<1>2. PICK kind \in {"sealed", "plain", "empty"} :
         answers' = Append(answers, [kind |-> kind, key |-> Head(requests).key,
                                     request |-> Head(requests).request])
  BY DEF ServerAnswers
<1> DEFINE a == [kind |-> kind, key |-> Head(requests).key,
                 request |-> Head(requests).request]
<1>3. /\ Head(requests) \in Requests /\ Head(requests) = requests[1]
      /\ 1 \in DOMAIN requests
      /\ Len(requests') = Len(requests) - 1 /\ Len(requests) \in Nat
      /\ \A i \in DOMAIN requests' : \E j \in DOMAIN requests : requests'[i] = requests[j]
  BY <1>1, Taken DEF TypeOK
<1>4. a \in Answers
  BY <1>3 DEF Requests, Answers
<1>5. /\ Len(answers') = Len(answers) + 1 /\ Len(answers) \in Nat
      /\ \A i \in DOMAIN answers' :
            answers'[i] = a \/ \E j \in DOMAIN answers : answers'[i] = answers[j]
  BY <1>2, <1>4, Appended DEF TypeOK
<1>6. a.kind # "none" /\ a.key = Head(requests).key /\ a.request = Head(requests).request
  OBVIOUS
<1>7. [key |-> a.key, request |-> a.request] \in used
  <2>1. [key |-> a.key, request |-> a.request] = Head(requests)
    BY <1>3, <1>6 DEF Requests
  <2>2. QED  BY <1>3, <2>1 DEF UnderWay
<1> HIDE DEF a
<1>8. \A i \in DOMAIN requests' : requests'[i] \in used'
  BY <1>1, <1>3 DEF UnderWay
<1>9. \A i \in DOMAIN answers' :
         /\ answers'[i].kind # "none"
         /\ [key |-> answers'[i].key, request |-> answers'[i].request] \in used'
  BY <1>1, <1>5, <1>6, <1>7 DEF UnderWay
<1>10. ASSUME ~unread'
       PROVE  /\ Len(requests') + Len(answers') <= IF call' = "waiting" THEN 1 ELSE 0
              /\ \A i \in DOMAIN requests' : requests'[i].request = sent'
              /\ \A i \in DOMAIN answers' : answers'[i].request = sent'
  <2>1. Len(requests) + Len(answers) <= IF call = "waiting" THEN 1 ELSE 0
    BY <1>1, <1>10 DEF UnderWay
  <2>2. Head(requests).request = sent
    BY <1>1, <1>3, <1>10 DEF UnderWay
  <2>3. Len(requests') + Len(answers') = Len(requests) + Len(answers)
    BY <1>3, <1>5
  <2>4. \A i \in DOMAIN requests' : requests'[i].request = sent'
    BY <1>1, <1>3, <1>10 DEF UnderWay
  <2>5. \A i \in DOMAIN answers' : answers'[i].request = sent'
    BY <1>1, <1>5, <1>6, <1>10, <2>2 DEF UnderWay
  <2>6. QED  BY <1>1, <2>1, <2>3, <2>4, <2>5
<1>11. QED  BY <1>8, <1>9, <1>10 DEF UnderWay

\* Receive takes the answer; no other is left, unless one was left unread.
LEMMA ReceiveUnderWay ==
    ASSUME TypeOK, UnderWay, Receive
    PROVE  UnderWay'
<1>1. /\ answers # <<>> /\ answers' = Tail(answers)
      /\ call = "waiting" /\ call' # "waiting"
      /\ UNCHANGED <<requests, sent, used, unread>>
  BY DEF Receive
<1>2. /\ Len(answers') = Len(answers) - 1 /\ Len(answers) \in Nat \ {0}
      /\ \A i \in DOMAIN answers' : \E j \in DOMAIN answers : answers'[i] = answers[j]
  BY <1>1, Taken DEF TypeOK
<1>3. \A i \in DOMAIN answers' :
         /\ answers'[i].kind # "none"
         /\ [key |-> answers'[i].key, request |-> answers'[i].request] \in used'
  BY <1>1, <1>2 DEF UnderWay
<1>4. ASSUME ~unread'
      PROVE  /\ Len(requests') + Len(answers') <= 0
             /\ \A i \in DOMAIN answers' : answers'[i].request = sent'
  <2>1. Len(requests) + Len(answers) <= 1 /\ Len(requests) \in Nat
    BY <1>1, <1>4 DEF UnderWay, TypeOK
  <2>2. QED  BY <1>1, <1>2, <1>4, <2>1 DEF UnderWay
<1>5. QED  BY <1>1, <1>3, <1>4 DEF UnderWay

\* Every step keeps what is under way in order.
LEMMA NextUnderWay ==
    ASSUME TypeOK, UnderWay, [Next]_vars
    PROVE  UnderWay'
<1>1. CASE \/ \E s \in {"login", "tunnel"} : Connect(s)
           \/ Refresh \/ RefreshSocket \/ Disconnect \/ ReceiveEnd
  <2>1. requests' = <<>> /\ answers' = <<>>
    BY <1>1 DEF Connect, Refresh, RefreshSocket, Disconnect, ReceiveEnd, NewSocket
  <2>2. QED  BY <2>1, EmptySocket
<1>2. CASE TunnelStops \/ SendUnwrapped \/ ServerForgets \/ UNCHANGED vars
  <2>1. /\ UNCHANGED <<requests, answers, unread, sent, used>>
        /\ call = "waiting" => call' = "waiting"
    BY <1>2 DEF TunnelStops, SendUnwrapped, ServerForgets, vars, socket, history
  <2>2. QED  BY <2>1, SameSocket
<1>3. CASE ReceiveInterrupted
  BY <1>3 DEF ReceiveInterrupted, UnderWay, history
<1>4. CASE LinkLost
  <2>1. requests' = <<>> /\ UNCHANGED <<call, unread, sent, used>>
    BY <1>4 DEF LinkLost, history
  <2>2. CASE answers' = <<>>
    BY <2>1, <2>2, EmptySocket
  <2>3. CASE answers' = answers
    <3>1. Len(requests) \in Nat /\ Len(answers) \in Nat
      BY DEF TypeOK
    <3>2. Len(requests') + Len(answers') <= Len(requests) + Len(answers)
      BY <2>1, <2>3, <3>1, Nothing
    <3>3. Len(requests') = 0 /\ \A i \in DOMAIN requests' : FALSE
      BY <2>1, Nothing
    <3>4. QED  BY <2>1, <2>3, <3>1, <3>2, <3>3 DEF UnderWay
  <2>4. QED  BY <1>4, <2>2, <2>3 DEF LinkLost
<1>5. QED
  BY <1>1, <1>2, <1>3, <1>4, SendUnderWay, ServerUnderWay, ReceiveUnderWay DEF Next

-----------------------------------------------------------------------------
(* A call that succeeds has its own answer *)

\* What opens was sealed for the call that waits.
LEMMA OpensItsOwn ==
    ASSUME TypeOK, KeyUsedOnce, WaitsWithKey, UnderWay, Receive, Opens(Head(answers))
    PROVE  Head(answers).request = sent \/ (unread /\ Head(answers).kind = "empty")
<1> DEFINE a == Head(answers)
<1>1. a \in Answers /\ 1 \in DOMAIN answers /\ a = answers[1]
  BY Taken DEF TypeOK, Receive
<1>2. call = "waiting"
  BY DEF Receive
<1>3. a.kind = "empty" \/ (a.kind = "sealed" /\ a.key = processor.msg)
  BY <1>2 DEF Opens, WaitsWithKey, NoKey
<1>4. ~unread => a.request = sent
  BY <1>1 DEF UnderWay
<1>5. ASSUME a.key = processor.msg PROVE a.request = sent
  <2> DEFINE u == [key |-> a.key, request |-> a.request]
             v == [key |-> processor.msg, request |-> sent]
  <2>1. u \in used
    BY <1>1 DEF UnderWay
  <2>2. v \in used
    BY <1>2 DEF WaitsWithKey
  <2>3. u.key = v.key => u.request = v.request
    BY <2>1, <2>2 DEF KeyUsedOnce
  <2>4. QED  BY <1>5, <2>3
<1>6. QED  BY <1>3, <1>4, <1>5

\* Every step keeps the answer of a call that has succeeded.
LEMMA NextAnswer ==
    ASSUME TypeOK, KeyUsedOnce, WaitsWithKey, UnderWay, AnswerIsForRequest, [Next]_vars
    PROVE  AnswerIsForRequest'
<1>1. CASE Receive
  <2>1. CASE Opens(Head(answers))
    BY <1>1, <2>1, OpensItsOwn DEF Receive, AnswerIsForRequest
  <2>2. CASE ~Opens(Head(answers))
    BY <1>1, <2>2 DEF Receive, AnswerIsForRequest
  <2>3. QED  BY <2>1, <2>2
<1>2. CASE \/ \E s \in {"login", "tunnel"} : Connect(s)
           \/ Refresh \/ RefreshSocket \/ Disconnect \/ Send \/ SendUnwrapped
           \/ ReceiveInterrupted \/ ReceiveEnd
  <2>1. call' # "success"
    BY <1>2 DEF Connect, Refresh, RefreshSocket, Disconnect, Send, SendUnwrapped,
       ReceiveInterrupted, ReceiveEnd
  <2>2. QED  BY <2>1 DEF AnswerIsForRequest
<1>3. CASE TunnelStops \/ ServerAnswers \/ ServerForgets \/ LinkLost \/ UNCHANGED vars
  BY <1>3 DEF TunnelStops, ServerAnswers, ServerForgets, LinkLost, vars, socket, history,
     AnswerIsForRequest
<1>4. QED  BY <1>1, <1>2, <1>3 DEF Next

-----------------------------------------------------------------------------
(* Theorems *)

\* The inductive invariant holds in every reachable state.
THEOREM Invariant == Spec => []IInv
<1>1. Init => IInv
  <2>1. ASSUME Init PROVE WaitsWithKey /\ UnderWay /\ AnswerIsForRequest
    BY <2>1, Nothing DEF Init, WaitsWithKey, UnderWay, AnswerIsForRequest
  <2>2. QED  BY <2>1, InitTypeOK, InitNumbers DEF IInv
<1>2. IInv /\ [Next]_vars => IInv'
  BY NextTypeOK, NextNumbers, NextWaits, NextUnderWay, NextAnswer DEF IInv
<1>3. QED  BY <1>1, <1>2, PTL DEF Spec

\* The processor, the socket and the history keep their types.
THEOREM TypeCorrect == Spec => []TypeOK
<1>1. IInv => TypeOK
  BY DEF IInv
<1>2. QED  BY <1>1, Invariant, PTL

\* WrapMessage never seals two requests with one key, whatever connections break and
\* however many sessions follow each other.
THEOREM NoKeyTwice == Spec => []KeyUsedOnce
<1>1. IInv => KeyUsedOnce
  BY DEF IInv
<1>2. QED  BY <1>1, Invariant, PTL

\* A call that succeeds has the answer to its own request (UnwrapMessage opens no other),
\* except that after a call that left its answer unread it may have an answer without a
\* body, which is not protected and may be the older one.
THEOREM OwnAnswer == Spec => []AnswerIsForRequest
<1>1. IInv => AnswerIsForRequest
  BY DEF IInv
<1>2. QED  BY <1>1, Invariant, PTL

-----------------------------------------------------------------------------
(* The stream of tokens *)

\* Every nonempty set of numbers has a least one.
LEMMA LeastNumber ==
    ASSUME NEW S, S \subseteq Nat, S # {}
    PROVE  \E m \in S : \A n \in S : m <= n
<1> DEFINE F == {0 .. n : n \in S}
<1>1. F \subseteq FiniteSubsetsOf(Nat)
  <2>1. \A n \in S : IsFiniteSet(0 .. n) /\ 0 .. n \subseteq Nat
    BY FS_Interval
  <2>2. QED  BY <2>1 DEF FiniteSubsetsOf
<1>2. F # {}
  OBVIOUS
<1>3. PICK x \in F : \A y \in F : ~(<<y, x>> \in StrictSubsetOrdering(Nat))
  BY <1>1, <1>2, FS_StrictSubsetOrderingWellFounded, WFMin
<1>4. PICK m \in S : x = 0 .. m
  OBVIOUS
<1>5. ASSUME NEW n \in S, n < m PROVE FALSE
  <2>1. /\ 0 .. n \in F /\ 0 .. n \subseteq x /\ 0 .. n # x
        /\ 0 .. n \in SUBSET Nat /\ x \in SUBSET Nat
    <3>1. m \in Nat /\ n \in Nat
      OBVIOUS
    <3>2. 0 .. n \subseteq 0 .. m /\ m \in 0 .. m /\ m \notin 0 .. n
      BY <1>5, <3>1
    <3>3. 0 .. n \in F
      OBVIOUS
    <3>4. 0 .. n \subseteq Nat /\ 0 .. m \subseteq Nat
      OBVIOUS
    <3>5. QED  BY <1>4, <3>2, <3>3, <3>4
  <2>2. <<0 .. n, x>> \in StrictSubsetOrdering(Nat)
    BY <2>1 DEF StrictSubsetOrdering
  <2>3. QED  BY <1>3, <2>1, <2>2
<1>6. QED  BY <1>5

\* Induction over the numbers, for a set instead of a predicate.
LEMMA Induction ==
    ASSUME NEW S, 0 \in S, \A n \in Nat : n \in S => n + 1 \in S
    PROVE  Nat \subseteq S
<1> DEFINE T == Nat \ S
<1> SUFFICES ASSUME T # {} PROVE FALSE
  OBVIOUS
<1>1. PICK m \in T : \A n \in T : m <= n
  BY LeastNumber
<1>2. m # 0 /\ m - 1 \in Nat /\ (m - 1) + 1 = m /\ ~(m <= m - 1)
  OBVIOUS
<1>3. m - 1 \in S
  BY <1>1, <1>2
<1>4. QED  BY <1>2, <1>3

\* The pieces of a sequence of sequences, one after the other.
Grows(f, s, n) == f = [i \in 1 .. n |-> IF i = 1 THEN s[i] ELSE f[i - 1] \o s[i]]

\* One piece of it.
LEMMA Grown ==
    ASSUME NEW f, NEW s, NEW n, Grows(f, s, n)
    PROVE  \A i \in 1 .. n : f[i] = IF i = 1 THEN s[i] ELSE f[i - 1] \o s[i]
<1> DEFINE G == [i \in 1 .. n |-> IF i = 1 THEN s[i] ELSE f[i - 1] \o s[i]]
<1>1. f = G
  BY Zenon DEF Grows
<1>2. \A i \in 1 .. n : G[i] = IF i = 1 THEN s[i] ELSE f[i - 1] \o s[i]
  OBVIOUS
<1> HIDE DEF G
<1>3. QED  BY <1>1, <1>2, Zenon

\* FlattenSeq is a recursion that has exactly one solution.
LEMMA FlattenGrows ==
    ASSUME NEW s, NEW m \in Nat \ {0}, Len(s) = m
    PROVE  \E g : Grows(g, s, m) /\ FlattenSeq(s) = g[m]
<1> DEFINE Made == {n \in Nat : \E f : Grows(f, s, n)}
<1>1. \A n \in Nat : n \in Made
  <2>1. 0 \in Made
    <3> DEFINE f == [i \in 1 .. 0 |-> 0]
    <3>1. Grows(f, s, 0)
      BY DEF Grows
    <3>2. QED  BY <3>1
  <2>2. ASSUME NEW n \in Nat, n \in Made PROVE n + 1 \in Made
    <3>1. PICK f : Grows(f, s, n)
      BY <2>2
    <3> DEFINE g == [i \in 1 .. n + 1 |->
                        IF i <= n THEN f[i]
                        ELSE IF i = 1 THEN s[i] ELSE f[n] \o s[i]]
    <3>2. \A i \in 1 .. n + 1 : g[i] = IF i = 1 THEN s[i] ELSE g[i - 1] \o s[i]
      <4> SUFFICES ASSUME NEW i \in 1 .. n + 1
                   PROVE  g[i] = IF i = 1 THEN s[i] ELSE g[i - 1] \o s[i]
        OBVIOUS
      <4>1. CASE i <= n
        <5>a. i \in 1 .. n
          BY <4>1
        <5>1. f[i] = IF i = 1 THEN s[i] ELSE f[i - 1] \o s[i]
          BY <3>1, <5>a, Grown
        <5>2. i # 1 => g[i - 1] = f[i - 1]
          BY <4>1
        <5>3. QED  BY <4>1, <5>1, <5>2
      <4>2. CASE i = n + 1
        <5>1. i # 1 => i - 1 = n /\ g[i - 1] = f[n]
          BY <4>2
        <5>2. QED  BY <4>2, <5>1
      <4>3. QED  BY <4>1, <4>2
    <3>3. Grows(g, s, n + 1)
      BY <3>2 DEF Grows
    <3>4. QED  BY <3>3
  <2>3. QED  BY <2>1, <2>2, Induction
<1>2. PICK g : Grows(g, s, m)
  BY <1>1
<1>3. ASSUME NEW f, Grows(f, s, m) PROVE f = g
  <2> DEFINE Same == {n \in Nat : n \in 1 .. m => f[n] = g[n]}
  <2>1. 0 \in Same
    OBVIOUS
  <2>2. ASSUME NEW n \in Nat, n \in Same PROVE n + 1 \in Same
    <3>1. SUFFICES ASSUME n + 1 \in 1 .. m PROVE f[n + 1] = g[n + 1]
      OBVIOUS
    <3>a. (n + 1) - 1 = n
      OBVIOUS
    <3>2. /\ f[n + 1] = IF n + 1 = 1 THEN s[n + 1] ELSE f[n] \o s[n + 1]
          /\ g[n + 1] = IF n + 1 = 1 THEN s[n + 1] ELSE g[n] \o s[n + 1]
      BY <1>2, <1>3, <3>1, <3>a, Grown
    <3>3. n + 1 # 1 => f[n] = g[n]
      BY <2>2, <3>1
    <3>4. QED  BY <3>2, <3>3
  <2>3. \A n \in 1 .. m : f[n] = g[n]
    <3>1. Nat \subseteq Same
      BY <2>1, <2>2, Induction
    <3>2. QED  BY <3>1
  <2>4. QED  BY <1>2, <1>3, <2>3 DEF Grows
<1>4. FlattenSeq(s) = g[m]
  BY <1>2, <1>3 DEF FlattenSeq, Grows
<1>5. QED  BY <1>2, <1>4

\* Where the stream of an answer ends.
EndOf(s) == 2 * Len(s) + s[Len(s)].body

\* What the two tokens of the header of the j-th message are.
HeaderAt(s, j, e) ==
    e[2 * j - 1] = Line(s[j].status) /\ e[2 * j] = Blank(s[j].length)

\* What the n-th request's answer s is as a stream e, token by token.
IsStream(s, n, e) ==
    /\ e \in Seq(Tokens)
    /\ Len(e) = EndOf(s)
    /\ \A j \in 1 .. Len(s) : HeaderAt(s, j, e)
    /\ \A i \in 1 .. s[Len(s)].body : e[2 * Len(s) + i] = [is |-> "body", value |-> n]

\* A script of messages.
IsScript(s) ==
    /\ Len(s) \in Nat \ {0} /\ DOMAIN s = 1 .. Len(s)
    /\ \A i \in 1 .. Len(s) :
          /\ s[i].status \in Nat /\ s[i].body \in Nat
          /\ s[i].length \in Nat \union {NoLength}
          /\ s[i].length \in {s[i].body, NoLength}
          /\ s[i].status = 100 \/ s[i].length = NoLength => s[i].body = 0
          /\ s[i].status = 100 <=> i < Len(s)

\* The scripts of the constant are some.
LEMMA Scripted ==
    ASSUME NEW s \in Scripts
    PROVE  IsScript(s)
<1>1. s \in Seq(Messages) /\ s # <<>>
  BY ReceiveAssumption
<1>2. Len(s) \in Nat \ {0} /\ DOMAIN s = 1 .. Len(s)
  BY <1>1
<1>3. ASSUME NEW i \in 1 .. Len(s)
      PROVE  /\ s[i].status \in Nat /\ s[i].body \in Nat
             /\ s[i].length \in Nat \union {NoLength}
             /\ s[i].length \in {s[i].body, NoLength}
             /\ s[i].status = 100 \/ s[i].length = NoLength => s[i].body = 0
             /\ s[i].status = 100 <=> i < Len(s)
  <2>1. s[i] \in Messages
    BY <1>1, <1>2
  <2>2. s[i].status = 100 <=> i < Len(s)
    BY <1>2, ReceiveAssumption
  <2>3. /\ s[i].status \in Nat /\ s[i].body \in Nat
        /\ s[i].length \in {s[i].body, NoLength}
        /\ s[i].status = 100 \/ s[i].length = NoLength => s[i].body = 0
    BY <2>1, ReceiveAssumption
  <2>4. QED  BY <2>2, <2>3
<1>4. QED  BY <1>2, <1>3, Zenon DEF IsScript

\* The tokens of an answer are tokens.
LEMMA AreTokens ==
    ASSUME NEW v \in Nat \union {NoLength}
    PROVE  /\ Blank(v) \in Tokens
           /\ v \in Nat => Line(v) \in Tokens /\ [is |-> "body", value |-> v] \in Tokens
  BY DEF Line, Blank, Tokens

\* Short sequences, one after another, and a sequence of one thing.
LEMMA One ==
    ASSUME NEW S, NEW x \in S
    PROVE  <<x>> \in Seq(S) /\ Len(<<x>>) = 1 /\ <<x>>[1] = x
  OBVIOUS

LEMMA Two ==
    ASSUME NEW S, NEW x \in S, NEW y \in S
    PROVE  /\ <<x, y>> \in Seq(S) /\ Len(<<x, y>>) = 2
           /\ <<x, y>>[1] = x /\ <<x, y>>[2] = y
  OBVIOUS

LEMMA Many ==
    ASSUME NEW S, NEW x \in S, NEW m \in Nat
    PROVE  LET b == [i \in 1 .. m |-> x]
           IN b \in Seq(S) /\ Len(b) = m /\ \A i \in 1 .. m : b[i] = x
<1> DEFINE b == [i \in 1 .. m |-> x]
<1>1. b \in Seq(S)
  OBVIOUS
<1>2. Len(b) = m
  OBVIOUS
<1>3. QED  BY <1>1, <1>2

LEMMA Joined ==
    ASSUME NEW S, NEW s \in Seq(S), NEW t \in Seq(S)
    PROVE  /\ s \o t \in Seq(S) /\ Len(s \o t) = Len(s) + Len(t)
           /\ Len(s) \in Nat /\ Len(t) \in Nat
           /\ \A i \in 1 .. Len(s) : (s \o t)[i] = s[i]
           /\ \A i \in 1 .. Len(t) : (s \o t)[Len(s) + i] = t[i]
  OBVIOUS

\* One message on the wire.
LEMMA EncodedIs ==
    ASSUME NEW s, IsScript(s), NEW n \in Nat, NEW j \in 1 .. Len(s)
    PROVE  LET e == Encoded(s[j], n)
           IN /\ e \in Seq(Tokens)
              /\ Len(e) = 2 + s[j].body
              /\ e[1] = Line(s[j].status) /\ e[2] = Blank(s[j].length)
              /\ \A i \in 1 .. s[j].body : e[2 + i] = [is |-> "body", value |-> n]
              /\ j < Len(s) => Len(e) = 2
<1> DEFINE a == s[j]
           e == Encoded(a, n)
           b == Body(n, a.body)
           h == <<Line(a.status), Blank(a.length)>>
<1>1. /\ a.status \in Nat /\ a.body \in Nat /\ a.length \in Nat \union {NoLength}
      /\ a.status = 100 => a.body = 0
      /\ a.status = 100 <=> j < Len(s)
      /\ Len(s) \in Nat
  BY DEF IsScript
<1>2. e = h \o b
  BY DEF Encoded
<1>3. /\ h \in Seq(Tokens) /\ Len(h) = 2
      /\ h[1] = Line(a.status) /\ h[2] = Blank(a.length)
  <2>1. Line(a.status) \in Tokens /\ Blank(a.length) \in Tokens
    BY <1>1, AreTokens
  <2>2. QED  BY <2>1, Two, Zenon
<1>4. [is |-> "body", value |-> n] \in Tokens
  BY AreTokens
<1>5. /\ b \in Seq(Tokens) /\ Len(b) = a.body
      /\ \A i \in 1 .. a.body : b[i] = [is |-> "body", value |-> n]
  BY <1>1, <1>4, Many, Zenon DEF Body
<1> HIDE DEF b, h
<1>6. /\ h \o b \in Seq(Tokens) /\ Len(h \o b) = Len(h) + Len(b)
      /\ \A i \in 1 .. Len(h) : (h \o b)[i] = h[i]
      /\ \A i \in 1 .. Len(b) : (h \o b)[Len(h) + i] = b[i]
  <2>1. h \in Seq(Tokens) /\ b \in Seq(Tokens)
    BY <1>3, <1>5
  <2>2. QED  BY <2>1, Joined
<1>7. /\ h \o b \in Seq(Tokens) /\ Len(h \o b) = 2 + a.body
      /\ (h \o b)[1] = Line(a.status) /\ (h \o b)[2] = Blank(a.length)
  <2>1. 1 \in 1 .. Len(h) /\ 2 \in 1 .. Len(h)
    BY <1>3
  <2>2. QED  BY <1>3, <1>5, <1>6, <2>1
<1>8. \A i \in 1 .. a.body : (h \o b)[2 + i] = [is |-> "body", value |-> n]
  BY <1>3, <1>5, <1>6
<1>9. j < Len(s) => 2 + a.body = 2
  BY <1>1
<1> HIDE DEF e, a
<1>10. /\ e \in Seq(Tokens) /\ Len(e) = 2 + a.body
       /\ e[1] = Line(a.status) /\ e[2] = Blank(a.length)
       /\ \A i \in 1 .. a.body : e[2 + i] = [is |-> "body", value |-> n]
  BY <1>2, <1>7, <1>8, Zenon
<1>11. j < Len(s) => Len(e) = 2
  BY <1>9, <1>10
<1>12. QED  BY <1>10, <1>11, Zenon DEF e, a

\* The stream of the first i messages.
Held(s, i, q) ==
    q \in Seq(Tokens) /\ Len(q) = 2 * i /\ \A j \in 1 .. i : HeaderAt(s, j, q)

\* A message more on the stream.
LEMMA AddMessage ==
    ASSUME NEW s, IsScript(s), NEW n \in Nat, NEW i \in Nat, i + 1 \in 1 .. Len(s),
           NEW q, Held(s, i, q)
    PROVE  LET r == q \o Encoded(s[i + 1], n)
           IN IF i + 1 < Len(s) THEN Held(s, i + 1, r) ELSE IsStream(s, n, r)
<1> DEFINE k == i + 1
           a == s[k]
           e == Encoded(a, n)
           r == q \o e
<1>1. /\ e \in Seq(Tokens)
      /\ Len(e) = 2 + a.body
      /\ e[1] = Line(a.status) /\ e[2] = Blank(a.length)
      /\ \A x \in 1 .. a.body : e[2 + x] = [is |-> "body", value |-> n]
      /\ k < Len(s) => Len(e) = 2
  BY EncodedIs
<1>2. q \in Seq(Tokens) /\ Len(q) = 2 * i /\ \A j \in 1 .. i : HeaderAt(s, j, q)
  BY DEF Held
<1>3. /\ Len(s) \in Nat \ {0} /\ k \in 1 .. Len(s) /\ a.status \in Nat /\ a.body \in Nat
  BY DEF IsScript
<1>len. /\ Len(q) \in Nat /\ Len(e) \in Nat
        /\ Len(e) = 2 + a.body
        /\ k < Len(s) => Len(e) = 2
  BY <1>1, <1>2
<1> HIDE DEF e, a
<1>4. /\ r \in Seq(Tokens) /\ Len(r) = Len(q) + Len(e)
      /\ Len(e) \in Nat
      /\ \A x \in 1 .. Len(q) : r[x] = q[x]
      /\ \A x \in 1 .. Len(e) : r[Len(q) + x] = e[x]
  <2>1. q \in Seq(Tokens) /\ e \in Seq(Tokens)
    BY <1>1, <1>2
  <2>2. QED  BY <2>1, Joined
<1> HIDE DEF r
<1> DEFINE d == 2 * i
<1>d. d \in Nat /\ 2 * k = d + 2 /\ 2 * k - 1 = d + 1
  OBVIOUS
<1> DEFINE f == 2 * Len(s)
<1>f. k = Len(s) => f = d + 2
  BY <1>d
<1> HIDE DEF f
<1>num. Len(q) = d /\ Len(r) = d + Len(e) /\ Len(e) \in Nat
  BY <1>2, <1>4
<1> HIDE DEF d
<1>5. ASSUME NEW j \in 1 .. i PROVE HeaderAt(s, j, r)
  <2>1. HeaderAt(s, j, q)
    BY <1>2
  <2>2. 2 * j - 1 \in 1 .. Len(q) /\ 2 * j \in 1 .. Len(q)
    BY <1>2
  <2>3. r[2 * j - 1] = q[2 * j - 1] /\ r[2 * j] = q[2 * j]
    BY <1>4, <2>2
  <2>4. QED  BY <2>1, <2>3, Zenon DEF HeaderAt
<1>6. HeaderAt(s, k, r)
  <2>1. 2 * k - 1 = Len(q) + 1 /\ 2 * k = Len(q) + 2
    BY <1>num, <1>d
  <2>2. 1 \in 1 .. Len(e) /\ 2 \in 1 .. Len(e)
    BY <1>len, <1>3
  <2>3. r[2 * k - 1] = Line(a.status) /\ r[2 * k] = Blank(a.length)
    BY <1>1, <1>4, <2>1, <2>2
  <2>4. QED  BY <2>3 DEF HeaderAt, a
<1>7. \A j \in 1 .. k : HeaderAt(s, j, r)
  BY <1>5, <1>6
<1>8. CASE k < Len(s)
  <2>1. Len(r) = 2 * k
    BY <1>len, <1>num, <1>d, <1>8
  <2>2. Held(s, k, r)
    BY <1>4, <1>7, <2>1, Zenon DEF Held
  <2>3. QED  BY <1>8, <2>2 DEF r, e, a
<1>9. CASE k = Len(s)
  <2>1. Len(r) = EndOf(s)
    <3>1. EndOf(s) = f + a.body
      BY <1>9 DEF EndOf, a, f
    <3>2. Len(r) = d + (2 + a.body) /\ a.body \in Nat
      BY <1>len, <1>num, <1>d, <1>3
    <3>3. f = d + 2 /\ d \in Nat
      BY <1>d, <1>f, <1>9
    <3>4. d + (2 + a.body) = f + a.body
      BY <3>2, <3>3
    <3>5. QED  BY <3>1, <3>2, <3>4, Zenon
  <2>2. \A x \in 1 .. s[Len(s)].body : r[2 * Len(s) + x] = [is |-> "body", value |-> n]
    <3> SUFFICES ASSUME NEW x \in 1 .. a.body
                 PROVE  r[2 * Len(s) + x] = [is |-> "body", value |-> n]
      BY <1>9 DEF a
    <3>1. /\ 2 + x \in 1 .. Len(e) /\ f + x = Len(q) + (2 + x)
      <4>1. x \in Nat \ {0} /\ x <= a.body /\ a.body \in Nat /\ Len(e) = 2 + a.body
        BY <1>len, <1>3
      <4>2. f = d + 2 /\ d \in Nat
        BY <1>9, <1>d, <1>f
      <4>3. Len(q) = d
        BY <1>num
      <4>4. 2 + x \in 1 .. 2 + a.body
        BY <4>1
      <4>5. f + x = d + (2 + x)
        BY <4>1, <4>2
      <4>6. QED  BY <4>1, <4>3, <4>4, <4>5, Zenon
    <3>a. e[2 + x] = [is |-> "body", value |-> n]
      BY <1>1, <1>3
    <3>2. QED  BY <1>4, <3>1, <3>a DEF f
  <2>3. \A j \in 1 .. Len(s) : HeaderAt(s, j, r)
    BY <1>7, <1>9
  <2>4. IsStream(s, n, r)
    BY <1>4, <2>1, <2>2, <2>3 DEF IsStream
  <2>5. QED  BY <1>9, <2>4 DEF r, e, a
<1>10. QED  BY <1>3, <1>8, <1>9

\* The stream of nothing.
LEMMA NothingHeld == ASSUME NEW s PROVE Held(s, 0, <<>>)
<1>1. <<>> \in Seq(Tokens) /\ Len(<<>>) = 2 * 0
  OBVIOUS
<1>2. QED  BY <1>1 DEF Held

\* What the answers of a script are as a stream.
LEMMA EncodedAllIs ==
    ASSUME NEW s, IsScript(s), NEW n \in Nat
    PROVE  IsStream(s, n, EncodedAll(s, n))
<1> DEFINE m == Len(s)
           t == [i \in DOMAIN s |-> Encoded(s[i], n)]
<1>1. m \in Nat \ {0} /\ DOMAIN s = 1 .. m
  BY DEF IsScript
<1>2. Len(t) = m /\ \A i \in 1 .. m : t[i] = Encoded(s[i], n)
  BY <1>1
<1> HIDE DEF t, m
<1>3. PICK g : Grows(g, t, m) /\ FlattenSeq(t) = g[m]
  BY <1>1, <1>2, FlattenGrows
<1>4. \A i \in 1 .. m : g[i] = IF i = 1 THEN t[i] ELSE g[i - 1] \o t[i]
  BY <1>3, Grown
<1> DEFINE Good(i) == IF i < m THEN Held(s, i, g[i]) ELSE IsStream(s, n, g[i])
           Shown == {i \in Nat : i \in 1 .. m => Good(i)}
<1>5. ASSUME NEW i \in Nat, i \in Shown PROVE i + 1 \in Shown
  <2> SUFFICES ASSUME i + 1 \in 1 .. m PROVE Good(i + 1)
    OBVIOUS
  <2>1. PICK q : q = IF i = 0 THEN <<>> ELSE g[i]
    OBVIOUS
  <2>2. Held(s, i, q)
    <3>1. CASE i = 0
      BY <2>1, <3>1, NothingHeld, Zenon
    <3>2. CASE i # 0
      <4>1. i \in 1 .. m /\ i < m
        BY <1>1, <3>2
      <4>2. Good(i)
        BY <1>5, <4>1
      <4>3. QED  BY <2>1, <3>2, <4>1, <4>2
    <3>3. QED  BY <3>1, <3>2
  <2>3. PICK e : e = Encoded(s[i + 1], n)
    OBVIOUS
  <2>4. g[i + 1] = q \o e
    <3>1. g[i + 1] = IF i + 1 = 1 THEN t[i + 1] ELSE g[(i + 1) - 1] \o t[i + 1]
      BY <1>4
    <3>2. t[i + 1] = e /\ (i + 1) - 1 = i
      BY <1>2, <2>3
    <3>3. CASE i = 0
      <4>1. i + 1 \in 1 .. Len(s)
        BY DEF m
      <4>2. e \in Seq(Tokens)
        BY <2>3, <4>1, EncodedIs
      <4>3. <<>> \o e = e
        BY <4>2
      <4>4. g[i + 1] = e
        BY <3>1, <3>2, <3>3
      <4>5. QED  BY <2>1, <3>3, <4>3, <4>4, Zenon
    <3>4. CASE i # 0
      <4>1. g[i + 1] = g[i] \o e
        BY <3>1, <3>2, <3>4
      <4>2. QED  BY <2>1, <3>4, <4>1
    <3>5. QED  BY <3>3, <3>4
  <2>5. IF i + 1 < m THEN Held(s, i + 1, q \o e) ELSE IsStream(s, n, q \o e)
    <3>1. i + 1 \in 1 .. Len(s)
      BY DEF m
    <3>2. QED  BY <2>2, <2>3, <3>1, AddMessage DEF m
  <2>6. QED  BY <2>4, <2>5, Zenon
<1>6. 0 \in Shown
  OBVIOUS
<1>7. m \in Shown
  <2>1. Nat \subseteq Shown
    <3> HIDE DEF Shown
    <3>1. QED  BY <1>5, <1>6, Induction
  <2>2. QED  BY <1>1, <2>1
<1>8. m \in 1 .. m /\ ~(m < m)
  BY <1>1
<1>9. IsStream(s, n, g[m])
  BY <1>7, <1>8
<1>10. EncodedAll(s, n) = FlattenSeq(t)
  BY DEF EncodedAll, t
<1>11. QED  BY <1>3, <1>9, <1>10, Zenon

-----------------------------------------------------------------------------
(* Reading the stream *)

\* The data d that was read and the bytes w still on the socket are what comes in
\* the stream e after the first p tokens.
At(d, w, p, e) ==
    /\ d \in Seq(Tokens) /\ w \in Seq(Tokens) /\ p \in Nat
    /\ Len(e) \in Nat /\ p + Len(d) + Len(w) <= Len(e)
    /\ \A i \in 1 .. Len(d) : d[i] = e[p + i]
    /\ \A i \in 1 .. Len(w) : w[i] = e[p + Len(d) + i]

\* Both ends of a sequence.
LEMMA Parts ==
    ASSUME NEW S, NEW w \in Seq(S), NEW c \in 0 .. Len(w)
    PROVE  /\ Len(w) \in Nat
           /\ SubSeq(w, 1, c) \in Seq(S) /\ Len(SubSeq(w, 1, c)) = c
           /\ SubSeq(w, c + 1, Len(w)) \in Seq(S)
           /\ Len(SubSeq(w, c + 1, Len(w))) = Len(w) - c
           /\ \A i \in 1 .. c : SubSeq(w, 1, c)[i] = w[i]
           /\ \A i \in 1 .. Len(w) - c : SubSeq(w, c + 1, Len(w))[i] = w[c + i]
<1>1. /\ Len(w) \in Nat
      /\ SubSeq(w, 1, c) \in Seq(S) /\ Len(SubSeq(w, 1, c)) = c
      /\ \A i \in 1 .. c : SubSeq(w, 1, c)[i] = w[i]
  OBVIOUS
<1>2. /\ SubSeq(w, c + 1, Len(w)) \in Seq(S)
      /\ Len(SubSeq(w, c + 1, Len(w))) = Len(w) - c
  OBVIOUS
<1>3. \A i \in 1 .. Len(w) - c : SubSeq(w, c + 1, Len(w))[i] = w[c + i]
  OBVIOUS
<1>4. QED  BY <1>1, <1>2, <1>3

\* A read moves bytes from the socket to the data.
LEMMA AtMore ==
    ASSUME NEW d, NEW w, NEW p, NEW e, At(d, w, p, e), NEW c \in 1 .. Len(w)
    PROVE  /\ At(d \o SubSeq(w, 1, c), SubSeq(w, c + 1, Len(w)), p, e)
           /\ d \o SubSeq(w, 1, c) # <<>>
<1> DEFINE b == SubSeq(w, 1, c)
           v == SubSeq(w, c + 1, Len(w))
           r == d \o b
<1>at. /\ d \in Seq(Tokens) /\ w \in Seq(Tokens) /\ p \in Nat
       /\ Len(e) \in Nat /\ p + Len(d) + Len(w) <= Len(e)
       /\ Len(d) \in Nat /\ Len(w) \in Nat
  BY DEF At
<1>ds. /\ \A i \in 1 .. Len(d) : d[i] = e[p + i]
       /\ \A i \in 1 .. Len(w) : w[i] = e[p + Len(d) + i]
  BY DEF At
<1>c. c \in 0 .. Len(w) /\ c \in Nat \ {0} /\ c <= Len(w)
  BY <1>at
<1>1. /\ b \in Seq(Tokens) /\ Len(b) = c
      /\ v \in Seq(Tokens) /\ Len(v) = Len(w) - c
      /\ \A i \in 1 .. c : b[i] = w[i]
      /\ \A i \in 1 .. Len(w) - c : v[i] = w[c + i]
  BY <1>at, <1>c, Parts
<1> HIDE DEF b, v
<1>b. b \in Seq(Tokens)
  BY <1>1
<1>2. /\ r \in Seq(Tokens) /\ Len(r) = Len(d) + Len(b)
      /\ \A i \in 1 .. Len(d) : r[i] = d[i]
      /\ \A i \in 1 .. Len(b) : r[Len(d) + i] = b[i]
  BY <1>at, <1>b, Joined
<1> HIDE DEF r
<1>n. /\ Len(r) = Len(d) + c /\ Len(v) = Len(w) - c /\ Len(r) \in Nat /\ Len(v) \in Nat
  BY <1>at, <1>c, <1>1, <1>2
<1>3. p + Len(r) + Len(v) <= Len(e)
  BY <1>at, <1>c, <1>n
<1>4. ASSUME NEW i \in 1 .. Len(r) PROVE r[i] = e[p + i]
  <2>1. CASE i \in 1 .. Len(d)
    BY <1>2, <1>ds, <2>1
  <2>2. CASE i \notin 1 .. Len(d)
    <3>1. PICK x : x = i - Len(d)
      OBVIOUS
    <3>2. x \in 1 .. c /\ x \in 1 .. Len(w) /\ i = Len(d) + x
      BY <1>at, <1>c, <1>n, <2>2, <3>1
    <3>3. r[i] = w[x]
      BY <1>1, <1>2, <3>2
    <3>4. p + Len(d) + x = p + i
      BY <1>at, <1>c, <3>2
    <3>5. w[x] = e[p + Len(d) + x]
      BY <1>ds, <3>2
    <3>6. QED  BY <3>3, <3>4, <3>5
  <2>3. QED  BY <2>1, <2>2
<1>5. ASSUME NEW i \in 1 .. Len(v) PROVE v[i] = e[p + Len(r) + i]
  <2>1. i \in 1 .. Len(w) - c /\ c + i \in 1 .. Len(w)
    BY <1>at, <1>c, <1>n
  <2>2. v[i] = w[c + i] /\ w[c + i] = e[p + Len(d) + (c + i)]
    BY <1>1, <1>ds, <2>1
  <2>3. p + Len(d) + (c + i) = p + Len(r) + i
    BY <1>at, <1>c, <1>n
  <2>4. QED  BY <2>2, <2>3
<1>6. At(r, v, p, e)
  BY <1>at, <1>1, <1>2, <1>3, <1>4, <1>5 DEF At
<1>7. r # <<>>
  <2>1. Len(r) # 0
    BY <1>at, <1>c, <1>n
  <2>2. QED  BY <2>1
<1>8. QED  BY <1>6, <1>7 DEF r, b, v

\* What is parsed off is the next token.
LEMMA AtNext ==
    ASSUME NEW d, NEW w, NEW p, NEW e, At(d, w, p, e), d # <<>>
    PROVE  /\ d[1] = e[p + 1] /\ 1 \in 1 .. Len(d)
           /\ At(SubSeq(d, 2, Len(d)), w, p + 1, e)
<1>at. /\ d \in Seq(Tokens) /\ w \in Seq(Tokens) /\ p \in Nat
       /\ Len(e) \in Nat /\ p + Len(d) + Len(w) <= Len(e)
       /\ Len(d) \in Nat /\ Len(w) \in Nat
  BY DEF At
<1>ds. /\ \A i \in 1 .. Len(d) : d[i] = e[p + i]
       /\ \A i \in 1 .. Len(w) : w[i] = e[p + Len(d) + i]
  BY DEF At
<1> DEFINE t == SubSeq(d, 2, Len(d))
<1>a. Len(d) \in Nat \ {0} /\ 1 \in 0 .. Len(d)
  BY <1>at
<1>1. /\ Len(d) \in Nat \ {0}
      /\ t \in Seq(Tokens) /\ Len(t) = Len(d) - 1
      /\ \A i \in 1 .. Len(d) - 1 : t[i] = d[i + 1]
  <2>1. /\ SubSeq(d, 1 + 1, Len(d)) \in Seq(Tokens)
        /\ Len(SubSeq(d, 1 + 1, Len(d))) = Len(d) - 1
        /\ \A i \in 1 .. Len(d) - 1 : SubSeq(d, 1 + 1, Len(d))[i] = d[1 + i]
    <3>1. PICK c : c = 1
      OBVIOUS
    <3>2. c \in 0 .. Len(d)
      BY <1>a, <3>1
    <3>3. /\ SubSeq(d, c + 1, Len(d)) \in Seq(Tokens)
          /\ Len(SubSeq(d, c + 1, Len(d))) = Len(d) - c
          /\ \A i \in 1 .. Len(d) - c : SubSeq(d, c + 1, Len(d))[i] = d[c + i]
      BY <1>at, <3>2, Parts
    <3>4. QED  BY <3>1, <3>3, Zenon
  <2>2. 1 + 1 = 2 /\ \A i \in 1 .. Len(d) - 1 : 1 + i = i + 1
    BY <1>a
  <2>3. QED  BY <1>a, <2>1, <2>2
<1> HIDE DEF t
<1>2. d[1] = e[p + 1] /\ 1 \in 1 .. Len(d)
  <2>1. 1 \in 1 .. Len(d)
    BY <1>1
  <2>2. QED  BY <1>ds, <1>1, <2>1
<1>3. (p + 1) + Len(t) = p + Len(d) /\ p + 1 \in Nat
  BY <1>at, <1>1
<1>4. (p + 1) + Len(t) + Len(w) <= Len(e)
  BY <1>at, <1>3
<1>5. ASSUME NEW i \in 1 .. Len(t) PROVE t[i] = e[(p + 1) + i]
  <2>1. i \in 1 .. Len(d) - 1 /\ i + 1 \in 1 .. Len(d) /\ p + (i + 1) = (p + 1) + i
    BY <1>at, <1>1
  <2>2. t[i] = d[i + 1] /\ d[i + 1] = e[p + (i + 1)]
    BY <1>1, <1>ds, <2>1
  <2>3. QED  BY <2>1, <2>2
<1>6. ASSUME NEW i \in 1 .. Len(w) PROVE w[i] = e[(p + 1) + Len(t) + i]
  BY <1>ds, <1>3
<1>7. At(t, w, p + 1, e)
  BY <1>at, <1>1, <1>3, <1>4, <1>5, <1>6 DEF At
<1>8. QED  BY <1>2, <1>7 DEF t

\* A server that goes away takes the end of it along.
LEMMA AtCut ==
    ASSUME NEW d, NEW w, NEW p, NEW e, At(d, w, p, e), NEW c \in 0 .. Len(w)
    PROVE  At(d, SubSeq(w, 1, c), p, e)
<1>at. /\ d \in Seq(Tokens) /\ w \in Seq(Tokens) /\ p \in Nat
       /\ Len(e) \in Nat /\ p + Len(d) + Len(w) <= Len(e)
       /\ Len(d) \in Nat /\ Len(w) \in Nat
  BY DEF At
<1>ds. /\ \A i \in 1 .. Len(d) : d[i] = e[p + i]
       /\ \A i \in 1 .. Len(w) : w[i] = e[p + Len(d) + i]
  BY DEF At
<1> DEFINE b == SubSeq(w, 1, c)
<1>1. b \in Seq(Tokens) /\ Len(b) = c /\ \A i \in 1 .. c : b[i] = w[i]
  BY <1>at, Parts
<1> HIDE DEF b
<1>2. p + Len(d) + Len(b) <= Len(e)
  BY <1>at, <1>1
<1>3. ASSUME NEW i \in 1 .. Len(b) PROVE b[i] = e[p + Len(d) + i]
  <2>1. i \in 1 .. c /\ i \in 1 .. Len(w)
    BY <1>at, <1>1
  <2>2. b[i] = w[i]
    BY <1>1, <2>1
  <2>3. QED  BY <1>ds, <2>1, <2>2
<1>4. At(d, b, p, e)
  BY <1>at, <1>ds, <1>1, <1>2, <1>3 DEF At
<1>5. QED  BY <1>4 DEF b

\* A stream that has just been sent, and one that went into the void.
LEMMA AtStart ==
    ASSUME NEW e \in Seq(Tokens)
    PROVE  At(<<>>, e, 0, e) /\ At(<<>>, <<>>, 0, e)
<1>1. /\ Len(e) \in Nat /\ <<>> \in Seq(Tokens) /\ Len(<<>>) = 0 /\ 0 \in Nat
      /\ 1 .. 0 = {}
  OBVIOUS
<1>2. At(<<>>, e, 0, e)
  <2>1. 0 + Len(<<>>) + Len(e) <= Len(e)
    BY <1>1
  <2>2. \A i \in 1 .. Len(e) : e[i] = e[0 + Len(<<>>) + i]
    BY <1>1
  <2>3. \A i \in 1 .. Len(<<>>) : <<>>[i] = e[0 + i]
    BY <1>1
  <2>4. QED  BY <1>1, <2>1, <2>2, <2>3 DEF At
<1>3. At(<<>>, <<>>, 0, e)
  <2>1. 0 + Len(<<>>) + Len(<<>>) <= Len(e)
    BY <1>1
  <2>2. \A i \in 1 .. Len(<<>>) : <<>>[i] = e[0 + Len(<<>>) + i]
    BY <1>1
  <2>3. \A i \in 1 .. Len(<<>>) : <<>>[i] = e[0 + i]
    BY <1>1
  <2>4. QED  BY <1>1, <2>1, <2>2, <2>3 DEF At
<1>4. QED  BY <1>2, <1>3

Headers == [state : {"request", "header", "data", "done", "error", "refused"},
            status : Nat, length : Nat \union {NoLength}, data : Seq(Tokens)]

\* The response h is the k-th message of s, parsed as far as its state says.
Progress(h, w, k, s, e) ==
    /\ h \in Headers
    /\ \/ h.state = "request" /\ h.status = 0 /\ At(h.data, w, 2 * k - 2, e)
       \/ /\ h.state = "header" /\ h.status = s[k].status
          /\ At(h.data, w, 2 * k - 1, e)
       \/ /\ h.state = "data" /\ h.status = s[k].status
          /\ h.length = s[k].length
          /\ At(h.data, w, 2 * k, e)

\* Nothing is left on a stream whose end was reached.
LEMMA AtEnd ==
    ASSUME NEW d, NEW w, NEW p, NEW e, At(d, w, p, e), NEW m \in Nat, m <= Len(d),
           Len(e) <= p + m
    PROVE  w = <<>> /\ Len(d) = m
<1>1. /\ w \in Seq(Tokens) /\ p \in Nat /\ Len(d) \in Nat /\ Len(w) \in Nat
      /\ Len(e) \in Nat /\ p + Len(d) + Len(w) <= Len(e)
  BY DEF At
<1>2. Len(w) = 0 /\ Len(d) = m
  BY <1>1
<1>3. QED  BY <1>1, <1>2

\* The bytes that a read takes go to the data of the message.
LEMMA ProgressMore ==
    ASSUME NEW h, NEW w, NEW k, NEW s, NEW e, Progress(h, w, k, s, e),
           NEW c \in 1 .. Len(w), NEW g,
           g = [h EXCEPT !.data = @ \o SubSeq(w, 1, c)]
    PROVE  Progress(g, SubSeq(w, c + 1, Len(w)), k, s, e) /\ g.data # <<>>
<1> DEFINE v == SubSeq(w, c + 1, Len(w))
           b == SubSeq(w, 1, c)
<1>h. h \in Headers
  BY DEF Progress
<1>1. ASSUME NEW p, At(h.data, w, p, e)
      PROVE  At(h.data \o b, v, p, e) /\ h.data \o b # <<>>
  BY <1>1, AtMore
<1>2. \E p : At(h.data, w, p, e)
  BY DEF Progress
<1>3. h.data \o b \in Seq(Tokens) /\ h.data \o b # <<>>
  <2>1. PICK p : At(h.data, w, p, e)
    BY <1>2
  <2>2. QED  BY <1>1, <2>1 DEF At
<1> HIDE DEF b, v
<1>4. /\ g \in Headers /\ g.state = h.state /\ g.status = h.status /\ g.length = h.length
      /\ g.data = h.data \o b
  BY <1>h, <1>3 DEF Headers, b
<1>5. Progress(g, v, k, s, e)
  BY <1>1, <1>4 DEF Progress
<1>6. QED  BY <1>3, <1>4, <1>5 DEF v

\* The first line of the data ends somewhere in it, and at the first token when that
\* ends a line.
LEMMA FirstLine ==
    ASSUME NEW d \in Seq(Tokens), LineEnds(d) # {}
    PROVE  /\ Min(LineEnds(d)) \in 1 .. Len(d)
           /\ d[1].is # "body" => Min(LineEnds(d)) = 1
<1> DEFINE S == LineEnds(d)
<1>1. S \subseteq 1 .. Len(d) /\ S \subseteq Nat /\ Len(d) \in Nat
  BY DEF LineEnds
<1>2. d[1].is # "body" => 1 \in S
  <2>1. Len(d) # 0
    BY <1>1
  <2>2. 1 \in DOMAIN d
    BY <1>1, <2>1
  <2>3. QED  BY <2>2 DEF LineEnds
<1> HIDE DEF S
<1>3. \E m \in S : \A n \in S : m <= n
  BY <1>1, LeastNumber DEF S
<1>4. Min(S) \in S /\ \A n \in S : Min(S) <= n
  BY <1>3 DEF Min
<1>5. ASSUME 1 \in S PROVE Min(S) = 1
  <2>1. PICK m : m = Min(S)
    OBVIOUS
  <2>2. m \in 1 .. Len(d) /\ m <= 1
    BY <1>1, <1>4, <1>5, <2>1 DEF S
  <2>3. QED  BY <1>1, <2>1, <2>2
<1>6. QED  BY <1>1, <1>2, <1>4, <1>5 DEF S

\* Whatever the data is, the parsers make a response of a response.
LEMMA LineTypes ==
    ASSUME NEW h \in Headers
    PROVE  ParseOffResponseLine(h) \in Headers
<1> DEFINE i == Min(LineEnds(h.data))
           end == h.data[i]
           rest == SubSeq(h.data, i + 1, Len(h.data))
           g == ParseOffResponseLine(h)
           Parsed(data) == [h EXCEPT !.state = "header", !.status = end.value, !.data = data]
<1>1. CASE h.state # "request" \/ LineEnds(h.data) = {}
  BY <1>1 DEF ParseOffResponseLine
<1>2. CASE h.state = "request" /\ LineEnds(h.data) # {}
  <2>1. h.data \in Seq(Tokens)
    BY DEF Headers
  <2>2. i \in 1 .. Len(h.data) /\ i \in 0 .. Len(h.data) /\ Len(h.data) \in Nat
    BY <1>2, <2>1, FirstLine
  <2>3. end \in Tokens
    BY <2>1, <2>2
  <2>4. rest \in Seq(Tokens)
    BY <2>1, <2>2, Parts
  <2>5. <<Blank(NoLength)>> \in Seq(Tokens)
    <3>1. Blank(NoLength) \in Tokens
      BY AreTokens
    <3>2. QED  BY <3>1, One
  <2>6. <<Blank(NoLength)>> \o rest \in Seq(Tokens)
    BY <2>4, <2>5
  <2>7. \/ g = Parsed(rest) /\ end.is = "line"
        \/ g = Parsed(<<Blank(NoLength)>> \o rest) /\ end.is = "blank" /\ end.value # NoLength
        \/ g = h
        \/ g = [h EXCEPT !.state = "error"]
    BY <1>2 DEF ParseOffResponseLine
  <2>8. ASSUME NEW q \in Seq(Tokens), end.value \in Nat PROVE Parsed(q) \in Headers
    BY <2>8 DEF Headers
  <2>9. end.is = "line" => end.value \in Nat
    BY <2>3 DEF Tokens
  <2>10. end.is = "blank" /\ end.value # NoLength => end.value \in Nat
    BY <2>3 DEF Tokens
  <2>11. [h EXCEPT !.state = "error"] \in Headers
    BY DEF Headers
  <2> HIDE DEF end, rest, i, g, Parsed
  <2>12. QED  BY <2>4, <2>6, <2>7, <2>8, <2>9, <2>10, <2>11 DEF g
<1>3. QED  BY <1>1, <1>2

LEMMA AttributeTypes ==
    ASSUME NEW h \in Headers
    PROVE  ParseOffAttributes(h) \in Headers
<1> DEFINE i == Min(LineEnds(h.data))
           end == h.data[i]
           rest == SubSeq(h.data, i + 1, Len(h.data))
           g == ParseOffAttributes(h)
           n == IF i = 1 THEN end.value ELSE NoLength
<1>1. CASE h.state # "header" \/ LineEnds(h.data) = {}
  BY <1>1 DEF ParseOffAttributes
<1>2. CASE h.state = "header" /\ LineEnds(h.data) # {}
  <2>1. h.data \in Seq(Tokens)
    BY DEF Headers
  <2>2. i \in 1 .. Len(h.data) /\ i \in 0 .. Len(h.data) /\ Len(h.data) \in Nat
    BY <1>2, <2>1, FirstLine
  <2>3. end \in Tokens
    BY <2>1, <2>2
  <2>4. rest \in Seq(Tokens)
    BY <2>1, <2>2, Parts
  <2>5. n \in Nat \union {NoLength}
    BY <2>3 DEF Tokens
  <2>6. \/ g = [h EXCEPT !.state = "data", !.length = n, !.data = rest]
        \/ g = [h EXCEPT !.state = "error"]
    BY <1>2 DEF ParseOffAttributes
  <2> HIDE DEF end, rest, i, g, n
  <2>7. [h EXCEPT !.state = "data", !.length = n, !.data = rest] \in Headers
    BY <2>4, <2>5 DEF Headers
  <2>8. [h EXCEPT !.state = "error"] \in Headers
    BY DEF Headers
  <2>9. QED  BY <2>6, <2>7, <2>8 DEF g
<1>3. QED  BY <1>1, <1>2

LEMMA HeaderTypes ==
    ASSUME NEW h \in Headers
    PROVE  ParseOffHeaders(h) \in Headers
<1>1. PICK g : g = ParseOffAttributes(ParseOffResponseLine(h))
  OBVIOUS
<1>2. g \in Headers
  BY <1>1, LineTypes, AttributeTypes
<1>3. ParseOffHeaders(h) = IF g.state = "error" THEN [g EXCEPT !.data = h.data] ELSE g
  BY <1>1, Zenon DEF ParseOffHeaders
<1>4. [g EXCEPT !.data = h.data] \in Headers
  BY <1>2 DEF Headers
<1>5. QED  BY <1>2, <1>3, <1>4

\* A turn of the loop of ReadStream, whatever the bytes are.
LEMMA TakeTypes ==
    ASSUME NEW h \in Headers, NEW b \in Seq(Tokens)
    PROVE  LET t == Take(h, b)
           IN /\ t \in Headers
              /\ t.state = "data" => t.length \in Nat /\ Len(t.data) < t.length
<1>1. PICK g : g = [h EXCEPT !.data = @ \o b]
  OBVIOUS
<1>2. PICK p : p = ParseOffHeaders(g)
  OBVIOUS
<1>3. g \in Headers
  <2>1. h.data \o b \in Seq(Tokens)
    BY DEF Headers
  <2>2. g = [h EXCEPT !.data = h.data \o b]
    BY <1>1
  <2>3. QED  BY <2>1, <2>2 DEF Headers
<1>4. p \in Headers
  BY <1>2, <1>3, HeaderTypes
<1>5. PICK t : t = Take(h, b)
  OBVIOUS
<1>6. t = IF p.state # "data" THEN p
          ELSE IF p.length = NoLength
               THEN [p EXCEPT !.state = IF p.status = 200 THEN "refused" ELSE "done"]
          ELSE IF Len(p.data) >= p.length
               THEN [p EXCEPT !.state = "done"] ELSE p
  BY <1>1, <1>2, <1>5, Zenon DEF Take
<1>7. CASE p.state = "data" /\ (p.length = NoLength \/ Len(p.data) >= p.length)
  <2>1. PICK x \in {"done", "refused"} : t = [p EXCEPT !.state = x]
    BY <1>6, <1>7
  <2>2. t \in Headers /\ t.state = x
    BY <1>4, <2>1 DEF Headers
  <2>3. QED  BY <1>5, <2>2
<1>8. CASE ~(p.state = "data" /\ (p.length = NoLength \/ Len(p.data) >= p.length))
  <2>1. t = p
    BY <1>6, <1>8
  <2>2. p.state = "data" => p.length \in Nat /\ Len(p.data) < p.length
    <3>1. Len(p.data) \in Nat /\ p.length \in Nat \union {NoLength}
      BY <1>4 DEF Headers
    <3>2. QED  BY <1>8, <3>1
  <2>3. QED  BY <1>4, <1>5, <2>1, <2>2
<1>9. QED  BY <1>7, <1>8

\* The response line is parsed off.
LEMMA LineParsed ==
    ASSUME NEW h, NEW w, NEW k, NEW s, NEW e, NEW n, IsScript(s), IsStream(s, n, e),
           k \in 1 .. Len(s), Progress(h, w, k, s, e)
    PROVE  Progress(ParseOffResponseLine(h), w, k, s, e)
<1> DEFINE g == ParseOffResponseLine(h)
           d == h.data
<1>h. /\ h \in Headers /\ Len(s) \in Nat \ {0} /\ s[k].status \in Nat /\ k \in Nat \ {0}
  BY DEF Progress, IsScript
<1>1. CASE h.state # "request" \/ LineEnds(d) = {}
  <2>1. g = h
    BY <1>1 DEF ParseOffResponseLine
  <2>2. QED  BY <2>1
<1>2. CASE h.state = "request" /\ LineEnds(d) # {}
  <2>a. d # <<>> /\ d \in Seq(Tokens)
    BY <1>h, <1>2 DEF LineEnds, Headers
  <2>1. h.status = 0 /\ At(d, w, 2 * k - 2, e)
    BY <1>2 DEF Progress
  <2>2. d[1] = e[(2 * k - 2) + 1] /\ At(SubSeq(d, 2, Len(d)), w, (2 * k - 2) + 1, e)
    <3>1. PICK p, x : p = 2 * k - 2 /\ x = d
      OBVIOUS
    <3>2. x[1] = e[p + 1] /\ At(SubSeq(x, 2, Len(x)), w, p + 1, e)
      BY <2>a, <2>1, <3>1, AtNext
    <3>3. QED  BY <3>1, <3>2
  <2>3. (2 * k - 2) + 1 = 2 * k - 1
    BY <1>h
  <2>4. d[1] = e[2 * k - 1] /\ At(SubSeq(d, 2, Len(d)), w, 2 * k - 1, e)
    BY <2>2, <2>3
  <2>5. e[2 * k - 1] = Line(s[k].status)
    BY DEF IsStream, HeaderAt
  <2>6. d[1].is = "line" /\ d[1].value = s[k].status
    BY <2>4, <2>5 DEF Line
  <2>7. Min(LineEnds(d)) = 1 /\ 1 + 1 = 2
    BY <1>2, <2>a, <2>6, FirstLine
  <2>8. g = [h EXCEPT !.state = "header", !.status = d[1].value, !.data = SubSeq(d, 2, Len(d))]
    BY <1>2, <2>6, <2>7 DEF ParseOffResponseLine
  <2>9. SubSeq(d, 2, Len(d)) \in Seq(Tokens)
    BY <2>4 DEF At
  <2>10. PICK q : q = SubSeq(d, 2, Len(d))
    OBVIOUS
  <2>11. /\ g \in Headers /\ g.state = "header" /\ g.status = s[k].status /\ g.data = q
    BY <1>h, <2>6, <2>8, <2>9, <2>10 DEF Headers
  <2>12. QED  BY <2>4, <2>10, <2>11 DEF Progress
<1>3. QED  BY <1>1, <1>2

\* The rest of the header is parsed off.
LEMMA AttributesParsed ==
    ASSUME NEW h, NEW w, NEW k, NEW s, NEW e, NEW n, IsScript(s), IsStream(s, n, e),
           k \in 1 .. Len(s), Progress(h, w, k, s, e)
    PROVE  Progress(ParseOffAttributes(h), w, k, s, e)
<1> DEFINE g == ParseOffAttributes(h)
           d == h.data
<1>h. /\ h \in Headers /\ k \in Nat \ {0} /\ s[k].length \in Nat \union {NoLength}
  BY DEF Progress, IsScript
<1>1. CASE h.state # "header" \/ LineEnds(d) = {}
  <2>1. g = h
    BY <1>1 DEF ParseOffAttributes
  <2>2. QED  BY <2>1
<1>2. CASE h.state = "header" /\ LineEnds(d) # {}
  <2>a. d # <<>> /\ d \in Seq(Tokens)
    BY <1>h, <1>2 DEF LineEnds, Headers
  <2>1. h.status = s[k].status /\ At(d, w, 2 * k - 1, e)
    BY <1>2 DEF Progress
  <2>2. d[1] = e[(2 * k - 1) + 1] /\ At(SubSeq(d, 2, Len(d)), w, (2 * k - 1) + 1, e)
    <3>1. PICK p, x : p = 2 * k - 1 /\ x = d
      OBVIOUS
    <3>2. x[1] = e[p + 1] /\ At(SubSeq(x, 2, Len(x)), w, p + 1, e)
      BY <2>a, <2>1, <3>1, AtNext
    <3>3. QED  BY <3>1, <3>2
  <2>3. (2 * k - 1) + 1 = 2 * k
    BY <1>h
  <2>4. d[1] = e[2 * k] /\ At(SubSeq(d, 2, Len(d)), w, 2 * k, e)
    BY <2>2, <2>3
  <2>5. e[2 * k] = Blank(s[k].length)
    BY DEF IsStream, HeaderAt
  <2>6. d[1].is = "blank" /\ d[1].value = s[k].length
    BY <2>4, <2>5 DEF Blank
  <2>7. Min(LineEnds(d)) = 1 /\ 1 + 1 = 2
    BY <1>2, <2>a, <2>6, FirstLine
  <2>8. g = [h EXCEPT !.state = "data", !.length = d[1].value, !.data = SubSeq(d, 2, Len(d))]
    BY <1>2, <2>6, <2>7 DEF ParseOffAttributes
  <2>9. SubSeq(d, 2, Len(d)) \in Seq(Tokens)
    BY <2>4 DEF At
  <2>10. PICK q : q = SubSeq(d, 2, Len(d))
    OBVIOUS
  <2>11. /\ g \in Headers /\ g.state = "data" /\ g.status = h.status
         /\ g.length = s[k].length /\ g.data = q
    BY <1>h, <2>6, <2>8, <2>9, <2>10 DEF Headers
  <2>12. QED  BY <2>1, <2>4, <2>10, <2>11 DEF Progress
<1>3. QED  BY <1>1, <1>2

\* The header is parsed as far as it is there.
LEMMA HeadersParsed ==
    ASSUME NEW h, NEW w, NEW k, NEW s, NEW e, NEW n, IsScript(s), IsStream(s, n, e),
           k \in 1 .. Len(s), Progress(h, w, k, s, e)
    PROVE  Progress(ParseOffHeaders(h), w, k, s, e)
<1>1. PICK g : g = ParseOffAttributes(ParseOffResponseLine(h))
  OBVIOUS
<1>2. Progress(ParseOffResponseLine(h), w, k, s, e)
  BY LineParsed
<1>3. Progress(g, w, k, s, e)
  BY <1>1, <1>2, AttributesParsed
<1>4. g.state # "error"
  BY <1>3 DEF Progress
<1>5. ParseOffHeaders(h) = IF g.state = "error" THEN [g EXCEPT !.data = h.data] ELSE g
  BY <1>1, Zenon DEF ParseOffHeaders
<1>6. QED  BY <1>3, <1>4, <1>5

\* What a turn of the loop of ReadStream comes to: the message goes on, or it was a
\* 100 and another one follows, or the answer has ended.
Goes(t, v, k, s, e) ==
    /\ Progress(t, v, k, s, e)
    /\ t.state = "data" => t.length \in Nat /\ Len(t.data) < t.length

Continues(t, v, k, s, e) ==
    /\ t \in Headers /\ t.state = "done" /\ t.status = 100 /\ k < Len(s)
    /\ At(t.data, v, 2 * k, e)

Ends(t, v, s, n) ==
    /\ t \in Headers /\ v = <<>>
    /\ (t.state = "done" /\ t.status # 100) \/ t.state = "refused"
    /\ Complete(t) =>
          t.status = s[Len(s)].status /\ t.data = Body(n, s[Len(s)].body)

\* The body of the answer, when as much of it is there as it has.
LEMMA WholeBody ==
    ASSUME NEW d, NEW w, NEW s, NEW e, NEW n, IsScript(s), IsStream(s, n, e),
           At(d, w, 2 * Len(s), e), s[Len(s)].body <= Len(d)
    PROVE  w = <<>> /\ d = Body(n, s[Len(s)].body)
<1> DEFINE m == s[Len(s)].body
           p == 2 * Len(s)
<1>1. m \in Nat /\ Len(s) \in Nat /\ Len(s) # 0
  BY DEF IsScript
<1>2. Len(e) = p + m
  BY DEF IsStream, EndOf
<1>3. Len(e) <= p + m
  BY <1>1, <1>2
<1>i. \A i \in 1 .. m : e[p + i] = [is |-> "body", value |-> n]
  BY DEF IsStream
<1>at. At(d, w, p, e)
  OBVIOUS
<1> HIDE DEF p, m
<1>4. m <= Len(d)
  BY DEF m
<1>5. w = <<>> /\ Len(d) = m
  BY <1>1, <1>3, <1>4, <1>at, AtEnd
<1>6. d \in Seq(Tokens) /\ \A i \in 1 .. Len(d) : d[i] = e[p + i]
  BY <1>at DEF At
<1>7. \A i \in 1 .. m : d[i] = [is |-> "body", value |-> n]
  BY <1>5, <1>6, <1>i
<1> DEFINE b == [i \in 1 .. m |-> [is |-> "body", value |-> n]]
<1>8. d = b
  <2>1. d = [i \in 1 .. Len(d) |-> d[i]]
    BY <1>6
  <2>2. QED  BY <1>5, <1>7, <2>1
<1>9. Body(n, m) = b
  BY DEF Body
<1>10. QED  BY <1>5, <1>8, <1>9 DEF m

\* A message whose header is there, and what becomes of it.
LEMMA DataTaken ==
    ASSUME NEW h, NEW w, NEW k, NEW s, NEW e, NEW n, IsScript(s), IsStream(s, n, e),
           k \in 1 .. Len(s), Progress(h, w, k, s, e), h.state = "data", NEW t,
           t = IF h.length = NoLength
               THEN [h EXCEPT !.state = IF h.status = 200 THEN "refused" ELSE "done"]
               ELSE IF Len(h.data) >= h.length THEN [h EXCEPT !.state = "done"] ELSE h
    PROVE  Goes(t, w, k, s, e) \/ Continues(t, w, k, s, e) \/ Ends(t, w, s, n)
<1>h. h \in Headers
  BY DEF Progress
<1>1. /\ h.status = s[k].status /\ h.length = s[k].length
      /\ At(h.data, w, 2 * k, e)
  BY DEF Progress
<1>2. /\ Len(s) \in Nat \ {0} /\ k <= Len(s) /\ k \in Nat
      /\ s[k].body \in Nat /\ s[k].length \in {s[k].body, NoLength}
      /\ s[k].status = 100 \/ s[k].length = NoLength => s[k].body = 0
      /\ s[k].status = 100 <=> k < Len(s)
      /\ NoLength \notin Nat
  BY ReceiveAssumption DEF IsScript
<1>3. Len(h.data) \in Nat
  BY <1>h DEF Headers
<1>4. CASE h.length # NoLength /\ ~(Len(h.data) >= h.length)
  <2>1. t = h
    BY <1>4
  <2>2. h.length \in Nat /\ Len(h.data) < h.length
    BY <1>1, <1>2, <1>3, <1>4
  <2>3. QED  BY <2>1, <2>2 DEF Goes
<1>5. CASE h.length = NoLength \/ Len(h.data) >= h.length
  <2>1. PICK x : x = IF h.length = NoLength /\ h.status = 200 THEN "refused" ELSE "done"
    OBVIOUS
  <2>2. t = [h EXCEPT !.state = x]
    BY <1>5, <2>1
  <2>3. /\ t \in Headers /\ t.state = x /\ t.status = s[k].status /\ t.data = h.data
    BY <1>h, <1>1, <2>1, <2>2 DEF Headers
  <2>4. CASE k < Len(s)
    <3>1. t.status = 100 /\ x = "done"
      BY <1>1, <1>2, <2>1, <2>3, <2>4
    <3>2. QED  BY <1>1, <2>3, <2>4, <3>1 DEF Continues
  <2>5. CASE k = Len(s)
    <3>1. s[Len(s)].body <= Len(h.data)
      BY <1>1, <1>2, <1>3, <1>5, <2>5
    <3>2. At(h.data, w, 2 * Len(s), e)
      BY <1>1, <2>5
    <3>3. w = <<>> /\ h.data = Body(n, s[Len(s)].body)
      BY <3>1, <3>2, WholeBody
    <3>4. t.status # 100
      BY <1>2, <2>3, <2>5
    <3>5. QED  BY <2>1, <2>3, <2>5, <3>3, <3>4 DEF Ends
  <2>6. QED  BY <1>2, <2>4, <2>5
<1>6. QED  BY <1>4, <1>5

\* A turn of the loop of ReadStream, with any of the bytes on the socket.
LEMMA Took ==
    ASSUME NEW h, NEW w, NEW k, NEW s, NEW e, NEW n, IsScript(s), IsStream(s, n, e),
           k \in 1 .. Len(s), Progress(h, w, k, s, e), NEW c \in 1 .. Len(w)
    PROVE  LET t == Take(h, SubSeq(w, 1, c))
               v == SubSeq(w, c + 1, Len(w))
           IN Goes(t, v, k, s, e) \/ Continues(t, v, k, s, e) \/ Ends(t, v, s, n)
<1> DEFINE t == Take(h, SubSeq(w, 1, c))
           v == SubSeq(w, c + 1, Len(w))
<1>1. PICK g : g = [h EXCEPT !.data = @ \o SubSeq(w, 1, c)]
  OBVIOUS
<1>2. PICK parsed : parsed = ParseOffHeaders(g)
  OBVIOUS
<1>3. Progress(g, v, k, s, e)
  BY <1>1, ProgressMore
<1>4. t = IF parsed.state # "data" THEN parsed
          ELSE IF parsed.length = NoLength
               THEN [parsed EXCEPT !.state = IF parsed.status = 200 THEN "refused" ELSE "done"]
          ELSE IF Len(parsed.data) >= parsed.length
               THEN [parsed EXCEPT !.state = "done"] ELSE parsed
  BY <1>1, <1>2, Zenon DEF Take
<1> HIDE DEF t, v
<1>5. Progress(parsed, v, k, s, e)
  BY <1>2, <1>3, HeadersParsed
<1>7. CASE parsed.state = "data"
  <2>1. t = IF parsed.length = NoLength
            THEN [parsed EXCEPT !.state = IF parsed.status = 200 THEN "refused" ELSE "done"]
            ELSE IF Len(parsed.data) >= parsed.length
                 THEN [parsed EXCEPT !.state = "done"] ELSE parsed
    BY <1>4, <1>7
  <2>2. Goes(t, v, k, s, e) \/ Continues(t, v, k, s, e) \/ Ends(t, v, s, n)
    BY <1>5, <1>7, <2>1, DataTaken
  <2>3. QED  BY <2>2 DEF t, v
<1>8. CASE parsed.state # "data"
  <2>1. t = parsed
    BY <1>4, <1>8
  <2>2. Goes(t, v, k, s, e)
    BY <1>5, <1>8, <2>1 DEF Goes
  <2>3. QED  BY <2>2 DEF t, v
<1>9. QED  BY <1>7, <1>8

-----------------------------------------------------------------------------
(* The invariant of HttpReceive *)

\* On a clean connection, while Receive reads, the response is one of the messages of
\* the answer, parsed as far as its state says, and the stream follows where the data
\* ends, or nothing was answered and nothing will be; otherwise there is nothing on the
\* socket.
OnTheWay ==
    \/ asked = <<>> /\ wire = <<>> /\ closed
    \/ /\ asked \in Scripts
       /\ \E k \in 1 .. Len(asked) :
             Progress(header, wire, k, asked, EncodedAll(asked, request))

HttpIInv ==
    /\ header \in Headers /\ wire \in Seq(Tokens)
    /\ header.state = "data" => header.length \in Nat /\ Len(header.data) < header.length
    /\ receive \in {"idle", "reading", "success", "failure"}
    /\ connected \in BOOLEAN /\ closed \in BOOLEAN /\ clean \in BOOLEAN
    /\ request \in 0 .. MaxHttpRequests
    /\ asked \in Scripts \union {<<>>}
    /\ clean /\ receive = "reading" => OnTheWay
    /\ clean /\ receive # "reading" => wire = <<>>
    /\ clean /\ receive = "success" =>
          /\ header.status = asked[Len(asked)].status
          /\ header.data = Body(request, asked[Len(asked)].body)

\* A response that is read from its beginning.
LEMMA ClearedIs ==
    ASSUME NEW d \in Seq(Tokens), NEW h, h = ClearedHeader(d)
    PROVE  /\ h \in Headers /\ h.state = "request" /\ h.status = 0 /\ h.data = d
  BY DEF ClearedHeader, Headers

\* A request has been sent, and its answer is on the socket.
LEMMA Asked ==
    ASSUME NEW s \in Scripts, NEW n \in Nat, NEW w, NEW h, h = ClearedHeader(<<>>),
           w = EncodedAll(s, n)
    PROVE  \E k \in 1 .. Len(s) : Progress(h, w, k, s, EncodedAll(s, n))
<1> DEFINE e == EncodedAll(s, n)
<1>1. IsScript(s)
  BY Scripted
<1>2. IsStream(s, n, e)
  BY <1>1, EncodedAllIs
<1>3. e \in Seq(Tokens)
  BY <1>2 DEF IsStream
<1> HIDE DEF e
<1>4. At(<<>>, w, 0, e)
  BY <1>3, AtStart DEF e
<1>5. /\ h \in Headers /\ h.state = "request" /\ h.status = 0 /\ h.data = <<>>
  <2>1. <<>> \in Seq(Tokens)
    OBVIOUS
  <2>2. QED  BY <2>1, ClearedIs
<1>6. 1 \in 1 .. Len(s) /\ 2 * 1 - 2 = 0
  BY <1>1 DEF IsScript
<1>7. At(h.data, w, 2 * 1 - 2, e)
  BY <1>4, <1>5, <1>6
<1>8. Progress(h, w, 1, s, e)
  BY <1>5, <1>7 DEF Progress
<1>9. QED  BY <1>6, <1>8 DEF e

\* The lesser of two numbers.
LEMMA Lesser ==
    ASSUME NEW a \in Int, NEW b \in Int
    PROVE  Min({a, b}) \in Int /\ Min({a, b}) <= a
<1>1. \E x \in {a, b} : \A y \in {a, b} : x <= y
  <2>1. CASE a <= b
    BY <2>1
  <2>2. CASE b <= a
    BY <2>2
  <2>3. QED  BY <2>1, <2>2
<1>2. Min({a, b}) \in {a, b} /\ \A y \in {a, b} : Min({a, b}) <= y
  BY <1>1 DEF Min
<1>3. QED  BY <1>2

\* It holds in the initial state.
LEMMA InitHttpIInv == HttpInit => HttpIInv
<1> SUFFICES ASSUME HttpInit PROVE HttpIInv
  OBVIOUS
<1>1. <<>> \in Seq(Tokens)
  OBVIOUS
<1>2. header \in Headers /\ header.state = "request"
  BY <1>1, ClearedIs DEF HttpInit
<1>3. 0 \in 0 .. MaxHttpRequests
  BY ReceiveAssumption
<1>4. QED  BY <1>1, <1>2, <1>3 DEF HttpInit, HttpIInv

\* A request is sent, and the server answers it in one way or the other.
LEMMA SendHttpIInv ==
    ASSUME HttpIInv, HttpSend
    PROVE  HttpIInv'
<1> DEFINE kept == IF connected /\ ~closed THEN wire ELSE <<>>
<1>1. /\ receive # "reading" /\ request < MaxHttpRequests
      /\ request' = request + 1 /\ header' = ClearedHeader(<<>>) /\ receive' = "reading"
      /\ connected' = TRUE /\ closed' = FALSE
  BY DEF HttpSend
<1>2. /\ request \in 0 .. MaxHttpRequests /\ wire \in Seq(Tokens) /\ clean \in BOOLEAN
      /\ clean => wire = <<>>
  BY <1>1 DEF HttpIInv
<1>3. request' \in Nat /\ request' \in 0 .. MaxHttpRequests
  BY <1>1, <1>2, ReceiveAssumption
<1>4. /\ kept \in Seq(Tokens)
      /\ clean \/ ~connected \/ closed => kept = <<>>
  BY <1>2
<1>5. header' \in Headers /\ header'.state = "request"
  <2>1. <<>> \in Seq(Tokens)
    OBVIOUS
  <2>2. QED  BY <1>1, <2>1, ClearedIs
<1>6. ASSUME NEW s \in Scripts, wire' = kept \o EncodedAll(s, request + 1),
             clean' = (clean \/ ~connected \/ closed),
             asked' = IF clean' THEN s ELSE <<>>
      PROVE  HttpIInv'
  <2>1. EncodedAll(s, request') \in Seq(Tokens)
    BY <1>3, Scripted, EncodedAllIs DEF IsStream
  <2>2. wire' = kept \o EncodedAll(s, request')
    BY <1>1, <1>6
  <2>3. wire' \in Seq(Tokens)
    BY <1>4, <2>1, <2>2
  <2>4. CASE clean'
    <3>1. wire' = <<>> \o EncodedAll(s, request')
      BY <1>4, <1>6, <2>2, <2>4
    <3>2. <<>> \o EncodedAll(s, request') = EncodedAll(s, request')
      BY <2>1
    <3>3. wire' = EncodedAll(s, request') /\ asked' = s
      BY <1>6, <2>4, <3>1, <3>2, Zenon
    <3>4. \E k \in 1 .. Len(s) :
             Progress(header', wire', k, s, EncodedAll(s, request'))
      BY <1>1, <1>3, <3>3, Asked
    <3>5. OnTheWay'
      BY <3>3, <3>4, Zenon DEF OnTheWay
    <3>6. clean' \in BOOLEAN
      BY <1>2, <1>6
    <3>7. QED  BY <1>1, <1>3, <1>5, <2>3, <3>3, <3>5, <3>6 DEF HttpIInv
  <2>5. CASE ~clean'
    <3>1. asked' = <<>> /\ clean' \in BOOLEAN
      BY <1>6, <2>5
    <3>2. QED  BY <1>1, <1>3, <1>5, <2>3, <2>5, <3>1 DEF HttpIInv
  <2>6. QED  BY <2>4, <2>5
<1>7. ASSUME NEW m \in Malformed, wire' = kept \o m, clean' = FALSE, asked' = <<>>
      PROVE  HttpIInv'
  <2>1. m \in Seq(Tokens)
    BY ReceiveAssumption
  <2>2. wire' \in Seq(Tokens)
    BY <1>4, <1>7, <2>1
  <2>3. QED  BY <1>1, <1>3, <1>5, <1>7, <2>2 DEF HttpIInv
<1>8. \/ \E s \in Scripts :
            /\ wire' = kept \o EncodedAll(s, request + 1)
            /\ clean' = (clean \/ ~connected \/ closed)
            /\ asked' = IF clean' THEN s ELSE <<>>
      \/ \E m \in Malformed :
            wire' = kept \o m /\ clean' = FALSE /\ asked' = <<>>
  BY DEF HttpSend
<1> HIDE DEF kept
<1>9. QED  BY <1>6, <1>7, <1>8

\* A request is sent into the void.
LEMMA VainHttpIInv ==
    ASSUME HttpIInv, SendInVain
    PROVE  HttpIInv'
<1>1. /\ receive # "reading" /\ request < MaxHttpRequests /\ closed /\ asked' = <<>>
      /\ request' = request + 1 /\ header' = ClearedHeader(<<>>) /\ receive' = "reading"
      /\ UNCHANGED <<wire, connected, closed, clean>>
  BY DEF SendInVain
<1>2. request' \in 0 .. MaxHttpRequests
  BY <1>1, ReceiveAssumption DEF HttpIInv
<1>3. header' \in Headers /\ header'.state = "request"
  <2>1. <<>> \in Seq(Tokens)
    OBVIOUS
  <2>2. QED  BY <1>1, <2>1, ClearedIs
<1>4. clean' => OnTheWay'
  BY <1>1 DEF HttpIInv, OnTheWay
<1>5. QED  BY <1>1, <1>2, <1>3, <1>4 DEF HttpIInv

\* What a read leaves on the socket, and how much it may take.
LEMMA ReadTypes ==
    ASSUME HttpIInv, NEW c \in 0 .. Min({Len(wire), TargetLength(header)}),
           InHeader(header) \/ header.state = "data"
    PROVE  /\ c \in 0 .. Len(wire) /\ Len(wire) \in Nat
           /\ SubSeq(wire, 1, c) \in Seq(Tokens)
           /\ SubSeq(wire, c + 1, Len(wire)) \in Seq(Tokens)
<1>1. wire \in Seq(Tokens) /\ Len(wire) \in Nat /\ Len(wire) \in Int
  BY DEF HttpIInv
<1>2. TargetLength(header) \in Int
  <2>1. CASE InHeader(header)
    BY <2>1, ReceiveAssumption DEF TargetLength
  <2>2. CASE ~InHeader(header)
    <3>1. header.length \in Nat /\ Len(header.data) \in Nat
      BY <2>2 DEF HttpIInv, Headers
    <3>2. header.length - Len(header.data) \in Int /\ Chunk \in Int
      BY <3>1, ReceiveAssumption
    <3>3. QED  BY <2>2, <3>2, Lesser DEF TargetLength
  <2>3. QED  BY <2>1, <2>2
<1>3. PICK x : x = Min({Len(wire), TargetLength(header)})
  OBVIOUS
<1>4. x \in Int /\ x <= Len(wire)
  BY <1>1, <1>2, <1>3, Lesser
<1>5. c \in 0 .. Len(wire)
  BY <1>1, <1>3, <1>4
<1>6. QED  BY <1>1, <1>5, Parts

\* A response that is being read is in its header or in its data: the others are
\* returned at once.
Unfinished == receive = "reading" => InHeader(header) \/ header.state = "data"

\* Bytes are read off the socket.
LEMMA ReadHttpIInv ==
    ASSUME HttpIInv, Unfinished, Read
    PROVE  HttpIInv' /\ Unfinished'
<1> DEFINE e == EncodedAll(asked, request)
<1>1. /\ receive = "reading" /\ wire # <<>>
      /\ UNCHANGED <<connected, closed, request, asked, clean>>
  BY DEF Read
<1>2. request \in Nat
  BY <1>1, ReceiveAssumption DEF HttpIInv
<1>3. PICK c \in 1 .. Min({Len(wire), TargetLength(header)}) :
         /\ wire' = SubSeq(wire, c + 1, Len(wire))
         /\ ReturnOrContinue(Take(header, SubSeq(wire, 1, c)))
  BY DEF Read
<1>4. /\ c \in 0 .. Len(wire) /\ Len(wire) \in Nat
      /\ SubSeq(wire, 1, c) \in Seq(Tokens) /\ wire' \in Seq(Tokens)
  <2>1. PICK x : x = Min({Len(wire), TargetLength(header)})
    OBVIOUS
  <2>2. c \in 0 .. x
    BY <1>3, <2>1
  <2>3. InHeader(header) \/ header.state = "data"
    BY <1>1 DEF Unfinished
  <2>4. /\ c \in 0 .. Len(wire) /\ Len(wire) \in Nat
        /\ SubSeq(wire, 1, c) \in Seq(Tokens)
        /\ SubSeq(wire, c + 1, Len(wire)) \in Seq(Tokens)
    BY <2>1, <2>2, <2>3, ReadTypes
  <2>5. QED  BY <1>3, <2>4
<1>5. c \in 1 .. Len(wire)
  BY <1>3, <1>4
<1>6. PICK t : t = Take(header, SubSeq(wire, 1, c))
  OBVIOUS
<1>7. /\ t \in Headers
      /\ t.state = "data" => t.length \in Nat /\ Len(t.data) < t.length
  BY <1>4, <1>6, TakeTypes DEF HttpIInv
<1>8. ReturnOrContinue(t)
  BY <1>3, <1>6
<1>9. CASE Complete(t) /\ t.status = 100
  <2>1. header' = ClearedHeader(t.data) /\ receive' = "reading"
    BY <1>8, <1>9 DEF ReturnOrContinue
  <2>2. t.data \in Seq(Tokens)
    BY <1>7 DEF Headers
  <2>3. /\ header' \in Headers /\ header'.state = "request" /\ header'.status = 0
        /\ header'.data = t.data
    BY <2>1, <2>2, ClearedIs
  <2>4. ASSUME clean PROVE OnTheWay'
    <3>1. OnTheWay
      BY <1>1, <2>4 DEF HttpIInv
    <3>2. asked \in Scripts /\ \E k \in 1 .. Len(asked) : Progress(header, wire, k, asked, e)
      BY <1>1, <3>1 DEF OnTheWay
    <3>3. PICK k \in 1 .. Len(asked) : Progress(header, wire, k, asked, e)
      BY <3>2
    <3>4. IsScript(asked) /\ IsStream(asked, request, e)
      BY <1>2, <3>2, Scripted, EncodedAllIs
    <3> HIDE DEF e
    <3>5. Goes(t, wire', k, asked, e) \/ Continues(t, wire', k, asked, e)
          \/ Ends(t, wire', asked, request)
      BY <1>3, <1>5, <1>6, <3>3, <3>4, Took
    <3>6. ~Goes(t, wire', k, asked, e)
      BY <1>9 DEF Goes, Progress, Complete
    <3>7. ~Ends(t, wire', asked, request)
      BY <1>9 DEF Ends, Complete
    <3>8. k < Len(asked) /\ At(t.data, wire', 2 * k, e)
      BY <3>5, <3>6, <3>7 DEF Continues
    <3>9. k + 1 \in 1 .. Len(asked) /\ 2 * (k + 1) - 2 = 2 * k
      BY <3>4, <3>8 DEF IsScript
    <3>10. At(header'.data, wire', 2 * (k + 1) - 2, e)
      BY <2>3, <3>8, <3>9
    <3>11. Progress(header', wire', k + 1, asked, e)
      BY <2>3, <3>10 DEF Progress
    <3>12. \E x \in 1 .. Len(asked) : Progress(header', wire', x, asked, e)
      BY <3>9, <3>11
    <3>13. e = EncodedAll(asked', request') /\ asked' = asked
      BY <1>1 DEF e
    <3>14. QED  BY <3>2, <3>12, <3>13, Zenon DEF OnTheWay
  <2>5. HttpIInv'
    BY <1>1, <1>4, <2>1, <2>3, <2>4 DEF HttpIInv
  <2>6. Unfinished'
    BY <2>3 DEF Unfinished, InHeader
  <2>7. QED  BY <2>5, <2>6
<1>10. CASE ~(Complete(t) /\ t.status = 100)
  <2>1. /\ header' = t
        /\ receive' = IF Complete(t) THEN "success"
                      ELSE IF t.state = "refused" THEN "failure" ELSE "reading"
    BY <1>8, <1>10 DEF ReturnOrContinue
  <2>2. ASSUME clean
        PROVE  /\ receive' = "reading" => OnTheWay'
               /\ receive' # "reading" => wire' = <<>>
               /\ receive' = "success" =>
                     /\ t.status = asked[Len(asked)].status
                     /\ t.data = Body(request, asked[Len(asked)].body)
    <3>1. OnTheWay
      BY <1>1, <2>2 DEF HttpIInv
    <3>2. asked \in Scripts /\ \E k \in 1 .. Len(asked) : Progress(header, wire, k, asked, e)
      BY <1>1, <3>1 DEF OnTheWay
    <3>3. PICK k \in 1 .. Len(asked) : Progress(header, wire, k, asked, e)
      BY <3>2
    <3>4. IsScript(asked) /\ IsStream(asked, request, e)
      BY <1>2, <3>2, Scripted, EncodedAllIs
    <3> HIDE DEF e
    <3>5. Goes(t, wire', k, asked, e) \/ Continues(t, wire', k, asked, e)
          \/ Ends(t, wire', asked, request)
      BY <1>3, <1>5, <1>6, <3>3, <3>4, Took
    <3>6. ~Continues(t, wire', k, asked, e)
      BY <1>10 DEF Continues, Complete
    <3>7. CASE Goes(t, wire', k, asked, e)
      <4>1. t.state \in {"request", "header", "data"} /\ Progress(t, wire', k, asked, e)
        BY <3>7 DEF Goes, Progress
      <4>2. receive' = "reading"
        BY <2>1, <4>1 DEF Complete
      <4>3. \E x \in 1 .. Len(asked) : Progress(header', wire', x, asked, e)
        BY <2>1, <4>1
      <4>4. e = EncodedAll(asked', request') /\ asked' = asked
        BY <1>1 DEF e
      <4>5. OnTheWay'
        BY <3>2, <4>3, <4>4, Zenon DEF OnTheWay
      <4>6. QED  BY <4>2, <4>5
    <3>8. CASE Ends(t, wire', asked, request)
      <4>1. /\ wire' = <<>> /\ t.state \in {"done", "refused"}
            /\ Complete(t) => /\ t.status = asked[Len(asked)].status
                              /\ t.data = Body(request, asked[Len(asked)].body)
        BY <3>8 DEF Ends
      <4>2. receive' # "reading" /\ (receive' = "success" => Complete(t))
        BY <2>1, <4>1 DEF Complete
      <4>3. QED  BY <4>1, <4>2
    <3>9. QED  BY <3>5, <3>6, <3>7, <3>8
  <2>3. receive' \in {"success", "failure", "reading"}
    BY <2>1
  <2>4. HttpIInv'
    BY <1>1, <1>4, <1>7, <2>1, <2>2, <2>3 DEF HttpIInv
  <2>5. Unfinished'
    <3>1. receive' = "reading" => ~Complete(t) /\ t.state # "refused"
      BY <2>1
    <3>2. QED  BY <1>7, <2>1, <3>1 DEF Unfinished, Headers, Complete, InHeader
  <2>6. QED  BY <2>4, <2>5
<1>11. QED  BY <1>9, <1>10

\* A read fails.
LEMMA FailHttpIInv ==
    ASSUME HttpIInv, Unfinished, ReadFails
    PROVE  HttpIInv'
<1>1. /\ receive = "reading" /\ receive' = "failure" /\ clean' = FALSE /\ asked' = <<>>
      /\ UNCHANGED <<connected, closed, header, request>>
  BY DEF ReadFails
<1>2. PICK c \in 0 .. Min({Len(wire), TargetLength(header)}) :
         wire' = SubSeq(wire, c + 1, Len(wire))
  BY DEF ReadFails
<1>3. InHeader(header) \/ header.state = "data"
  BY <1>1 DEF Unfinished
<1>4. wire' \in Seq(Tokens)
  BY <1>2, <1>3, ReadTypes
<1>5. QED  BY <1>1, <1>4 DEF HttpIInv

\* The stream has ended, or the server ends it.
LEMMA EndHttpIInv ==
    ASSUME HttpIInv, ReadEnd \/ ServerCloses
    PROVE  HttpIInv'
<1>1. CASE ReadEnd
  BY <1>1 DEF HttpIInv, ReadEnd
<1>2. CASE ServerCloses
  <2>1. PICK c \in 0 .. Len(wire) : wire' = SubSeq(wire, 1, c)
    BY <1>2 DEF ServerCloses
  <2>2. /\ closed' = TRUE /\ ~closed
        /\ UNCHANGED <<connected, header, receive, request, asked, clean>>
    BY <1>2 DEF ServerCloses
  <2>3. wire' \in Seq(Tokens)
    BY <2>1, Parts DEF HttpIInv
  <2>4. ASSUME clean, receive = "reading" PROVE OnTheWay'
    <3>1. OnTheWay
      BY <2>4 DEF HttpIInv
    <3>2. PICK k \in 1 .. Len(asked) :
             Progress(header, wire, k, asked, EncodedAll(asked, request))
      BY <2>2, <3>1 DEF OnTheWay
    <3>3. Progress(header, wire', k, asked, EncodedAll(asked, request))
      BY <2>1, <3>2, AtCut DEF Progress
    <3>4. asked \in Scripts
      BY <2>2, <3>1 DEF OnTheWay
    <3>5. QED  BY <2>2, <3>3, <3>4 DEF OnTheWay
  <2>5. ASSUME clean, receive # "reading" PROVE wire' = <<>>
    <3>1. wire = <<>>
      BY <2>5 DEF HttpIInv
    <3>2. SubSeq(wire, 1, c) = <<>>
      BY <2>1, <3>1
    <3>3. QED  BY <2>1, <3>2
  <2>6. QED  BY <2>2, <2>3, <2>4, <2>5 DEF HttpIInv
<1>3. QED  BY <1>1, <1>2

\* HttpIInv holds in every reachable state: on a clean connection, while Receive reads,
\* the response it has and the bytes on the socket are together what is left of the
\* answer from a place that the state of the response tells, and a message is never
\* parsed twice; on any other the parser of HttpHeader still makes a response of
\* whatever comes.
THEOREM HttpInvariant == HttpSpec => []HttpIInv
<1>1. HttpInit => HttpIInv /\ Unfinished
  BY InitHttpIInv DEF HttpInit, Unfinished
<1>2. HttpIInv /\ Unfinished /\ [HttpNext]_httpVars => HttpIInv' /\ Unfinished'
  <2> SUFFICES ASSUME HttpIInv, Unfinished, [HttpNext]_httpVars
               PROVE  HttpIInv' /\ Unfinished'
    OBVIOUS
  <2>1. CASE HttpSend
    <3>1. Unfinished'
      BY <2>1 DEF HttpSend, ClearedHeader, Unfinished, InHeader
    <3>2. QED  BY <2>1, <3>1, SendHttpIInv
  <2>2. CASE SendInVain
    <3>1. Unfinished'
      BY <2>2 DEF SendInVain, ClearedHeader, Unfinished, InHeader
    <3>2. QED  BY <2>2, <3>1, VainHttpIInv
  <2>3. CASE Read
    BY <2>3, ReadHttpIInv
  <2>4. CASE ReadFails
    <3>1. Unfinished'
      BY <2>4 DEF ReadFails, Unfinished
    <3>2. QED  BY <2>4, <3>1, FailHttpIInv
  <2>5. CASE ReadEnd \/ ServerCloses
    <3>1. Unfinished'
      BY <2>5 DEF ReadEnd, ServerCloses, Unfinished, InHeader
    <3>2. QED  BY <2>5, <3>1, EndHttpIInv
  <2>6. CASE UNCHANGED httpVars
    BY <2>6 DEF httpVars, HttpIInv, OnTheWay, Unfinished, InHeader
  <2>7. QED  BY <2>1, <2>2, <2>3, <2>4, <2>5, <2>6 DEF HttpNext
<1>3. QED  BY <1>1, <1>2, PTL DEF HttpSpec

\* For any scripts of a server, any malformed answers in between, in whatever pieces they
\* come and wherever the server breaks off: a Receive that succeeds on a connection on
\* which every answer so far was one of the scripts and no read has failed has the
\* status and exactly the body of the answer to the last request.  The loop of
\* HttpHeader::ReadStream neither stops early nor takes what belongs to nothing, and
\* HttpChannel::Receive keeps what follows a 100.  After a malformed answer or a failed
\* read on the same connection nothing is claimed.
THEOREM ExactAnswer == HttpSpec => []AnswerIsExact
<1>1. HttpIInv => ResponseTypeOK
  BY DEF HttpIInv, ResponseTypeOK, Headers
<1>2. HttpIInv => AnswerIsExact
  BY <1>1 DEF HttpIInv, AnswerIsExact
<1>3. QED  BY <1>2, HttpInvariant, PTL

\* Nothing of an answer is left on the socket for the next request to read, when
\* HttpChannel::Receive succeeds on such a connection.
THEOREM NothingLeft == HttpSpec => []NothingLeftOver
<1>1. HttpIInv => NothingLeftOver
  BY DEF HttpIInv, NothingLeftOver
<1>2. QED  BY <1>1, HttpInvariant, PTL

=============================================================================
