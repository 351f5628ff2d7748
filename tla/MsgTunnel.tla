------------------------------ MODULE MsgTunnel ------------------------------
(***************************************************************************)
(* Requests and answers sealed by TcpMsgProcessor::WrapMessage and         *)
(* UnwrapMessage, over a connection that breaks.  The session either comes *)
(* with a TLS tunnel and lives as long as it does, or from the three       *)
(* messages of KeyVEILConnector::Login, and then it is known to the server *)
(* by its id whatever connection a request comes over.                     *)
(*                                                                         *)
(* A session's key and id are its number, 0 when there is none; the key of *)
(* a message is derived from both and from the sequence number.            *)
(***************************************************************************)
EXTENDS Naturals, Sequences

CONSTANTS
    MaxSessions,  \* logins, on all connections
    MaxRequests   \* calls of Send (far below 2^31, where the number would wrap)

ASSUME MsgAssumption == MaxSessions \in Nat /\ MaxRequests \in Nat

VARIABLES
    scheme,     \* "none" (not connected), "login" or "tunnel"
    processor,  \* [key, seq, msg]: _sessionKey and _sessionId, _sequenceNumber,
                \* _msgKey with _msgIv2
    link,       \* the socket: "up", "lost" unnoticed, or "down"
    requests, answers,  \* what is under way on it
    known,      \* the sessions the server knows
    call,       \* "idle", "waiting" in Receive, "success" or "failure"
    sessions,   \* how many there have been
    sent,       \* how many requests were sealed
    used,       \* history: which request each key of a message has sealed
    accepted,   \* history: the last answer Receive has accepted
    unread      \* history: a Receive on this connection has left its answer behind

vars == <<scheme, processor, link, requests, answers, known, call, sessions,
          sent, used, accepted, unread>>
socket == <<link, requests, answers, unread>>
history == <<sessions, sent, used, accepted>>

NoKey == [key |-> 0, seq |-> 0]
NoAnswer == [kind |-> "none", key |-> NoKey, request |-> 0]

\* TcpMsgProcessor as it is made, and after clear.
Cleared == [key |-> 0, seq |-> 0, msg |-> NoKey]

Init ==
    /\ scheme = "none"
    /\ processor = Cleared
    /\ link = "down"
    /\ requests = <<>> /\ answers = <<>>
    /\ known = {}
    /\ call = "idle"
    /\ sessions = 0 /\ sent = 0
    /\ used = {}
    /\ accepted = NoAnswer
    /\ unread = FALSE

\* A slip: what was received before is kept.
NewSocketKeepsAnswers ==
    link' = "up" /\ requests' = <<>> /\ answers' = answers /\ unread' = FALSE

NewSocket == link' = "up" /\ requests' = <<>> /\ answers' = <<>> /\ unread' = FALSE

\* The server at the other end of a new socket knows the sessions by their id, but
\* has no tunnel there.
KnownOnNewSocket == IF scheme = "tunnel" THEN known \ {processor.key} ELSE known

-----------------------------------------------------------------------------
(* The processor *)

\* start, for a session from Login: everything is cleared first.
Start(key) == [Cleared EXCEPT !.key = key]

\* stateChanged to active: the message key of the session before stays.
TunnelActive(key) == [processor EXCEPT !.key = key, !.seq = 0]

\* stateChanged to anything else, and Logout: so does the sequence number.
SessionOver == [processor EXCEPT !.key = 0]

\* A slip: the number moves on only when the answer is there.
WrapKeepingNumber == [processor EXCEPT !.msg = [key |-> processor.key, seq |-> processor.seq]]

\* WrapMessage, where there is a session.
Wrap == [key |-> processor.key, seq |-> processor.seq + 1,
         msg |-> [key |-> processor.key, seq |-> processor.seq]]

\* A slip: an answer is believed by the session it names.
OpensBySession(a) ==
    \/ a.kind = "empty"
    \/ a.kind = "sealed" /\ a.key.key = processor.key

\* UnwrapMessage: without a body, or a key to open it with, an answer is taken as it
\* is; else it must name the session and the last number, and open with the key.
Opens(a) ==
    \/ a.kind = "empty" \/ processor.msg = NoKey
    \/ /\ a.kind = "sealed"
       /\ a.key.key = processor.key
       /\ a.key.seq + 1 = processor.seq
       /\ a.key = processor.msg

\* UnwrapMessage forgets the key it has used.
Unwrapped == [processor EXCEPT !.msg = NoKey]

-----------------------------------------------------------------------------
(* The connector and the channel *)

\* connect, with a new channel and a new processor, and its login.
Connect(s) ==
    /\ call # "waiting"
    /\ sessions < MaxSessions
    /\ scheme' = s
    /\ NewSocket
    /\ sessions' = sessions + 1
    /\ processor' = Start(sessions')
    /\ known' = known \union {sessions'}
    /\ call' = "idle"
    /\ UNCHANGED <<sent, used, accepted>>

\* refresh when the tunnel is gone: another one on the same processor, over the
\* same socket if it is up, where a handshake works if nothing else is under way.
Refresh ==
    /\ call # "waiting"
    /\ scheme = "tunnel" /\ processor.key = 0
    /\ link = "up" => requests = <<>> /\ answers = <<>>
    /\ sessions < MaxSessions
    /\ NewSocket
    /\ sessions' = sessions + 1
    /\ processor' = TunnelActive(sessions')
    /\ known' = known \union {sessions'}
    /\ call' = "idle"
    /\ UNCHANGED <<scheme, sent, used, accepted>>

\* refresh when only the socket is gone: it is replaced, and nobody logs in again.
RefreshSocket ==
    /\ call # "waiting"
    /\ scheme # "none" /\ processor.key # 0
    /\ link # "up"
    /\ NewSocket
    /\ known' = KnownOnNewSocket
    /\ call' = "idle"
    /\ UNCHANGED <<scheme, processor, history>>

\* The tunnel stops: an alert or a close, at any time.
TunnelStops ==
    /\ scheme = "tunnel" /\ processor.key # 0
    /\ processor' = SessionOver
    /\ known' = known \ {processor.key}
    /\ UNCHANGED <<scheme, socket, call, history>>

\* disconnect; the connector's next channel and processor are new ones.
Disconnect ==
    /\ call # "waiting" /\ scheme # "none"
    /\ scheme' = "none"
    /\ processor' = Cleared
    /\ link' = "down" /\ requests' = <<>> /\ answers' = <<>> /\ unread' = FALSE
    /\ call' = "idle"
    /\ UNCHANGED <<known, history>>

Sealed == [key |-> processor'.msg, request |-> sent']

\* Send: the request is sealed and written, or lost with a connection that breaks.
\* A socket that is known to be down, or found to be, is replaced and the same bytes
\* are written to the new one; or that fails, with the socket kept or closed.
Send ==
    /\ call # "waiting" /\ scheme # "none"
    /\ sent < MaxRequests
    /\ processor.key # 0
    /\ processor' = Wrap
    /\ sent' = sent + 1
    /\ used' = used \union {Sealed}
    /\ \/ /\ link = "up"
          /\ requests' = Append(requests, Sealed)
          /\ call' = "waiting" /\ UNCHANGED <<link, answers, unread, known>>
       \/ /\ link = "lost"
          /\ call' = "waiting" /\ UNCHANGED <<socket, known>>
       \/ /\ link # "up"
          /\ link' = "up" /\ answers' = <<>> /\ unread' = FALSE
          /\ requests' = <<Sealed>>
          /\ known' = KnownOnNewSocket
          /\ call' = "waiting"
       \/ /\ link # "up"
          /\ link' \in {link, "down"}
          /\ call' = "failure" /\ UNCHANGED <<requests, answers, unread, known>>
    /\ UNCHANGED <<scheme, sessions, accepted>>

\* Without a session there is no cipher, and WrapMessage fails.
SendUnwrapped ==
    /\ call # "waiting" /\ scheme # "none"
    /\ processor.key = 0
    /\ call' = "failure"
    /\ UNCHANGED <<scheme, processor, socket, known, history>>

\* Receive: an answer has come in whole.
Receive ==
    /\ call = "waiting"
    /\ answers # <<>>
    /\ answers' = Tail(answers)
    /\ LET a == Head(answers)
       IN IF Opens(a)
          THEN /\ call' = "success"
               /\ accepted' = a
               /\ processor' = IF a.kind = "empty" THEN processor
                               ELSE Unwrapped
          ELSE call' = "failure" /\ UNCHANGED <<accepted, processor>>
    /\ UNCHANGED <<scheme, link, requests, known, sessions, sent, used, unread>>

\* The recv after the peek fails: the socket stays, and the answer in it.
ReceiveInterrupted ==
    /\ call = "waiting"
    /\ answers # <<>>
    /\ call' = "failure"
    /\ unread' = TRUE
    /\ UNCHANGED <<scheme, processor, link, requests, answers, known, history>>

\* The peek finds the end of the stream, or fails: the socket is closed.
ReceiveEnd ==
    /\ call = "waiting"
    /\ link' = "down" /\ requests' = <<>> /\ answers' = <<>> /\ unread' = FALSE
    /\ call' = "failure"
    /\ UNCHANGED <<scheme, processor, known, history>>

-----------------------------------------------------------------------------
(* The server and the network *)

\* The server answers in order: sealed or without a body where it knows the
\* session, in clear or without a body where it does not; where it reads records of
\* a tunnel it does not have, not at all.
ServerAnswers ==
    /\ requests # <<>>
    /\ requests' = Tail(requests)
    /\ LET r == Head(requests)
           knows == r.key.key \in known
       IN /\ knows \/ scheme = "login"
          /\ \E kind \in {IF knows THEN "sealed" ELSE "plain", "empty"} :
                answers' = Append(answers, [kind |-> kind, key |-> r.key, request |-> r.request])
    /\ UNCHANGED <<scheme, processor, link, known, call, history, unread>>

\* The server starts anew, or the sessions have expired.
ServerForgets ==
    /\ known # {}
    /\ known' = {}
    /\ UNCHANGED <<scheme, processor, socket, call, history>>

\* The connection breaks, and with it what is under way; some answers may have come.
LinkLost ==
    /\ link = "up"
    /\ link' = "lost"
    /\ requests' = <<>>
    /\ answers' \in {answers, <<>>}
    /\ UNCHANGED <<scheme, processor, known, call, history, unread>>

Next ==
    \/ \E s \in {"login", "tunnel"} : Connect(s)
    \/ Refresh \/ RefreshSocket \/ TunnelStops \/ Disconnect
    \/ Send \/ SendUnwrapped \/ Receive \/ ReceiveInterrupted \/ ReceiveEnd
    \/ ServerAnswers \/ ServerForgets \/ LinkLost

Spec == Init /\ [][Next]_vars

-----------------------------------------------------------------------------
(* Properties *)

Keys == [key : Nat, seq : Nat]
Requests == [key : Keys, request : Nat]
Answers == [kind : {"none", "sealed", "plain", "empty"}, key : Keys, request : Nat]

\* The variables have their types.
TypeOK ==
    /\ scheme \in {"none", "login", "tunnel"}
    /\ processor \in [key : Nat, seq : Nat, msg : Keys]
    /\ link \in {"up", "lost", "down"}
    /\ requests \in Seq(Requests) /\ answers \in Seq(Answers)
    /\ known \subseteq Nat
    /\ call \in {"idle", "waiting", "success", "failure"}
    /\ sessions \in 0 .. MaxSessions /\ sent \in 0 .. MaxRequests
    /\ used \subseteq Requests
    /\ accepted \in Answers
    /\ unread \in BOOLEAN

\* The key derived from a session and a number never seals two requests, through
\* failed calls, retries on a new socket, tunnels that stop and new logins
\* (WrapMessage, 214-284; Logout and clear, which keep or reset the number).
KeyUsedOnce == \A r, s \in used : r.key = s.key => r.request = s.request

\* A call that succeeds has the answer to its own request, even where an answer was
\* left unread on the connection by a call before it; only an answer without a body,
\* which nothing ties to its request, may then be an older one (UnwrapMessage, 302-360).
AnswerIsForRequest ==
    call = "success" =>
       \/ accepted.request = sent
       \/ unread /\ accepted.kind = "empty"

\* What was sealed is of a session and a request that there were; the session at
\* hand has sealed with smaller numbers than its next one.
NumbersGoUp ==
    /\ processor.key <= sessions
    /\ \A u \in used :
          /\ u.key.key \in 1 .. sessions
          /\ u.request <= sent
          /\ u.key.key = processor.key => u.key.seq < processor.seq

\* A call that waits has the key of its request.
WaitsWithKey ==
    call = "waiting" =>
       /\ processor.msg.key # 0
       /\ [key |-> processor.msg, request |-> sent] \in used

\* Everything under way was sealed, or answers what was; unless an answer was left
\* unread, there is one thing at most, and it belongs to the call that waits.
UnderWay ==
    /\ \A i \in DOMAIN requests : requests[i] \in used
    /\ \A i \in DOMAIN answers :
          /\ answers[i].kind # "none"
          /\ [key |-> answers[i].key, request |-> answers[i].request] \in used
    /\ ~unread =>
          /\ Len(requests) + Len(answers) <= IF call = "waiting" THEN 1 ELSE 0
          /\ \A i \in DOMAIN requests : requests[i].request = sent
          /\ \A i \in DOMAIN answers : answers[i].request = sent

\* The inductive invariant of module MsgTunnelProofs.
IInv ==
    TypeOK /\ NumbersGoUp /\ KeyUsedOnce /\ WaitsWithKey /\ UnderWay /\ AnswerIsForRequest

=============================================================================
