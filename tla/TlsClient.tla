------------------------------ MODULE TlsClient ------------------------------
(***************************************************************************)
(* The TLS tunnel of a KeyVEIL connection: SslHandshake_Client, the state  *)
(* TcpMsgProcessor derives from its events, and the two loops that wait    *)
(* for a login, in TcpChannel and in HttpChannel::Send.  At the other end  *)
(* is a server that keeps to TLS 1.2, or has one fault.                    *)
(*                                                                         *)
(* A handshake message is its type, the ClientHello it belongs to, and     *)
(* what matters of its content; a Finished holds the transcript its sender *)
(* hashed.  A record holds a part of a message and names the key it is     *)
(* protected with: the number of the handshake that made it, 0 for none.   *)
(***************************************************************************)
EXTENDS Naturals, SequencesExt

CONSTANTS
    Servers,            \* the servers a connection may reach: [suite, fault, asks, lenient]
    MaxLogins,          \* tunnels that are started
    MaxRenegotiations,  \* HelloRequests a server sends on a connection
    MaxRecord           \* parts of messages in one record

Suites == {"rsa", "dhe", "ckmauth"}
Faults == {"none", "extension", "no certificate", "bad certificate"}

\* ckmauth is authenticated by the password, the others by a certificate.
NeedsCertificate(suite) == suite \in {"rsa", "dhe"}
NeedsServerKey(suite) == suite \in {"dhe", "ckmauth"}

\* Only a server that needs a certificate can go wrong with it.
ASSUME TlsAssumption ==
    /\ Servers \subseteq [suite : Suites, fault : Faults, asks : BOOLEAN, lenient : BOOLEAN]
    /\ \A s \in Servers :
          s.fault \in {"no certificate", "bad certificate"} => NeedsCertificate(s.suite)
    /\ MaxLogins \in Nat /\ MaxRenegotiations \in Nat
    /\ MaxRecord \in Nat \ {0}

VARIABLES
    client,    \* the tunnel and the processor: see Tunnel
    call,      \* the connector: "idle", "login" and "sending" (in the loop of
               \* processAuthenticationMessages, of Send) or "connected"
    logins,    \* how many tunnels were started
    toServer, toClient,  \* the records under way
    server,    \* the server of this connection
    closed     \* the socket: "open", "closed" by the server, or "reset"

vars == <<client, call, logins, toServer, toClient, server, closed>>
wires == <<toServer, toClient, server, closed>>

Message(type, run, value) == [type |-> type, run |-> run, value |-> value]
Record(is, value, part, key) == [is |-> is, value |-> value, part |-> part, key |-> key]

\* A handshake message in two parts, any number of which share a record.
Handshakes(messages, key) ==
    [i \in 1 .. 2 * Len(messages) |->
        Record("handshake", messages[(i + 1) \div 2], 2 - (i % 2), key)]
Handshake(m, key) == <<Record("handshake", m, 1, key), Record("handshake", m, 2, key)>>
ChangeCipherSpec(key) == <<Record("ccs", "", 2, key)>>
Alert(what, key) == <<Record("alert", what, 2, key)>>
Data(key) == <<Record("data", "", 2, key)>>

-----------------------------------------------------------------------------
(* The client *)

NoCipher == "none"

\* A new SslHandshake_Client in a processor that is logging in.
Tunnel ==
    [state |-> "ProtocolReset",   \* __state
     live |-> TRUE,               \* isValid: the record layer and the control channel are there
     log |-> <<>>,                \* _handshakeData
     cipher |-> NoCipher,         \* _cipher
     certs |-> 0,                 \* the size of _serverCerts
     run |-> 0,                   \* _clientRandom: which ClientHello was the last
     buffered |-> <<>>,           \* _bufferedHSData
     rx |-> 0, tx |-> 0,          \* the record layer's keys
     pending |-> FALSE,           \* the receive suite is set and not yet used
     transport |-> "login",       \* _transportState
     session |-> FALSE,           \* _sessionKey is not empty
     ok |-> TRUE,                 \* what the last handler returned
     stale |-> FALSE,             \* history: the socket was replaced under the tunnel
     out |-> <<>>]                \* what the step has sent

Handshaking ==
    {"Client_Hello", "Server_Hello", "Server_Certificate", "Server_Key_Exchange",
     "Server_Hello_Done", "Client_Key_Exchange", "Client_Send_Change_Cipher_Spec",
     "Client_Finished", "Server_Send_Change_Cipher_Spec", "Server_Finished"}

\* The transport state that goes with a state of the tunnel.
TransportOf(state) ==
    CASE state = "Active" -> "active"
      [] state \in Handshaking -> "login"
      [] state \in {"Hello_Request", "Logout"} -> "logout"
      [] OTHER -> "inactive"

\* From which states a state may be entered; those not named, from any.
Before(state) ==
    CASE state = "Server_Hello" -> {"Client_Hello"}
      [] state = "Server_Certificate" -> {"Server_Hello"}
      [] state = "Server_Key_Exchange" -> {"Server_Certificate", "Server_Hello"}
      [] state = "Server_Hello_Done" ->
            {"Server_Key_Exchange", "Server_Certificate", "Server_Hello"}
      [] state = "Server_Send_Change_Cipher_Spec" -> {"Client_Finished"}
      [] state = "Server_Finished" -> {"Server_Send_Change_Cipher_Spec"}

MayEnter(c, state) == c.state = state \/ c.state \in Before(state)

\* changeState and the event it fires, which the processor turns into its
\* transport state and its session; the key comes with the ckmauth suites only.
Entered(c, state) ==
    IF c.state = state THEN c
    ELSE IF ~c.live THEN [c EXCEPT !.state = state]
    ELSE [c EXCEPT !.state = state,
                   !.transport = TransportOf(state),
                   !.session = state = "Active" /\ c.cipher = "ckmauth"]

Sent(c, records) == IF c.live THEN [c EXCEPT !.out = @ \o records] ELSE c
Logged(c, m) == [c EXCEPT !.log = Append(@, m)]

\* rlDesc->reset and _resetTunnel.
ResetTunnel(c) ==
    [Entered(Entered(c, "ProtocolReset"), "ProtocolClosed")
        EXCEPT !.log = <<>>, !.cipher = NoCipher, !.certs = 0,
               !.rx = 0, !.tx = 0, !.pending = FALSE]

\* The close_notify in Logout is never sent: the state is Logout by then.
Logout(c) ==
    IF c.state \in {"ProtocolReset", "ProtocolClosed"} THEN c
    ELSE ResetTunnel(Entered(c, "Logout"))

\* A slip: the control channel is forgotten before it has heard of the logout.
StopTunnelFirst(c) ==
    [Logout([c EXCEPT !.live = FALSE]) EXCEPT !.state = "ProtocolReset"]

StopTunnel(c) == [Logout(c) EXCEPT !.live = FALSE, !.state = "ProtocolReset"]

Failed(c) == [StopTunnel(Sent(c, Alert("fatal", c.tx))) EXCEPT !.ok = FALSE]

\* A renegotiation keeps the transcript, the certificates and the cipher.
SendClientHello(c) ==
    LET hello == Message("client_hello", c.run + 1, "")
        d == Logged([Entered(c, "Client_Hello") EXCEPT !.run = @ + 1], hello)
    IN Sent(d, Handshake(hello, d.tx))

\* After an extension it does not know the tunnel is stopped, and the handler
\* goes on all the same.
HandleServerHello(c, m) ==
    IF ~MayEnter(c, "Server_Hello") THEN Failed(c)
    ELSE LET d == Entered(c, "Server_Hello")
             e == IF m.value.extension THEN Failed(d) ELSE d
         IN Logged([e EXCEPT !.cipher = m.value.suite, !.ok = TRUE], m)

HandleServerCertificate(c, m) ==
    IF ~MayEnter(c, "Server_Certificate") THEN Failed(Logged(c, m))
    ELSE LET d == [Entered(Logged(c, m), "Server_Certificate") EXCEPT !.certs = 1]
         IN IF m.value = "bad" THEN Failed(d) ELSE d

HandleServerKeyExchange(c, m) ==
    LET d == Logged(c, m)
    IN IF ~MayEnter(d, "Server_Key_Exchange") \/ ~NeedsServerKey(d.cipher)
          \/ (NeedsCertificate(d.cipher) /\ d.certs = 0)
       THEN Failed(d)
       ELSE Entered(d, "Server_Key_Exchange")

\* ClientKeyExchange, ChangeCipherSpec and Finished, in one go.
SendKeyAndFinished(c) ==
    LET key == Message("client_key_exchange", c.run, "")
        d == Sent(Logged(Entered(c, "Client_Key_Exchange"), key), Handshake(key, c.tx))
        e == Sent(Entered([d EXCEPT !.pending = TRUE], "Client_Send_Change_Cipher_Spec"),
                  ChangeCipherSpec(d.tx))
        finished == Message("finished", c.run, e.log)
    IN Sent(Logged(Entered([e EXCEPT !.tx = c.run], "Client_Finished"), finished),
            Handshake(finished, c.run))

HandleServerHelloDone(c, m) ==
    IF \/ ~MayEnter(c, "Server_Hello_Done")
       \/ NeedsCertificate(c.cipher) /\ c.certs = 0
    THEN Failed(c)
    ELSE SendKeyAndFinished(Logged(Entered(c, "Server_Hello_Done"), m))

\* A slip: what the server has hashed is not looked at.
HandleServerFinishedUnseen(c, m) ==
    IF ~MayEnter(c, "Server_Finished") THEN Failed(c)
    ELSE Entered(Entered(c, "Server_Finished"), "Active")

HandleServerFinished(c, m) ==
    IF ~MayEnter(c, "Server_Finished") THEN Failed(c)
    ELSE LET d == Entered(c, "Server_Finished")
         IN IF m.value # d.log THEN Failed(d) ELSE Entered(d, "Active")

HandleHelloRequest(c) ==
    IF c.state # "Active" THEN c
    ELSE SendClientHello(Entered(c, "Hello_Request"))

\* A certificate_request is neither answered nor put in the transcript.
HandleHandshakeMessage(c, m) ==
    CASE m.type = "hello_request" -> HandleHelloRequest(c)
      [] m.type = "server_hello" -> HandleServerHello(c, m)
      [] m.type = "certificate" -> HandleServerCertificate(c, m)
      [] m.type = "server_key_exchange" -> HandleServerKeyExchange(c, m)
      [] m.type = "certificate_request" -> c
      [] m.type = "server_hello_done" -> HandleServerHelloDone(c, m)
      [] m.type = "finished" -> HandleServerFinished(c, m)

\* A slip: one message is taken out of the buffer for each record that comes.
HandleHandshakeOnce(c, records) ==
    LET all == c.buffered \o records
        ends == {i \in DOMAIN all : all[i].part = 2}
    IN IF ends = {} THEN [c EXCEPT !.buffered = all]
       ELSE LET i == Min(ends)
            IN HandleHandshakeMessage(
                  [c EXCEPT !.buffered = SubSeq(all, i + 1, Len(all))], all[i].value)

\* The messages that are whole, one by one, until a handler has failed: the client
\* after i parts.
Handled(c, parts) ==
    LET after[i \in 0 .. Len(parts)] ==
            IF i = 0 THEN c
            ELSE IF parts[i].part = 2 /\ after[i - 1].ok
            THEN HandleHandshakeMessage(after[i - 1], parts[i].value)
            ELSE after[i - 1]
    IN after

HandleHandshake(c, records) ==
    LET all == c.buffered \o records
        rest == IF Last(all).part = 1 THEN <<Last(all)>> ELSE <<>>
    IN Handled([c EXCEPT !.buffered = rest, !.ok = TRUE], all)[Len(all)]

HandleChangeCipherSpec(c) ==
    IF ~MayEnter(c, "Server_Send_Change_Cipher_Spec") \/ ~c.pending THEN Failed(c)
    ELSE [Entered(c, "Server_Send_Change_Cipher_Spec")
            EXCEPT !.rx = c.run, !.pending = FALSE]

\* A close_notify is answered.
HandleAlert(c, what) ==
    StopTunnel(IF what = "close_notify" THEN Sent(c, Alert(what, c.tx)) ELSE c)

\* ReceiveData: one record, which the record layer must be able to read.
ReceiveData(c, records) ==
    CASE ~c.live -> c
      [] c.live /\ records[1].key # c.rx -> Failed(c)
      [] c.live /\ records[1].key = c.rx ->
            CASE records[1].is = "handshake" -> HandleHandshake(c, records)
              [] records[1].is = "ccs" -> HandleChangeCipherSpec(c)
              [] records[1].is = "alert" -> HandleAlert(c, records[1].value)
              [] records[1].is = "data" -> c

TunnelActive(c) == c.live /\ c.state = "Active"
IsAuthenticated(c) == TunnelActive(c) \/ c.session

-----------------------------------------------------------------------------
(* The server and the socket *)

\* A server that has just accepted a connection.
Server(plan) ==
    [plan |-> plan, phase |-> "hello", log |-> <<>>, run |-> 0,
     rx |-> 0, tx |-> 0, asked |-> 0]

\* What a server answers a ClientHello with.
Flight(plan, run) ==
    <<Message("server_hello", run,
              [suite |-> plan.suite, extension |-> plan.fault = "extension"])>>
    \o (IF NeedsCertificate(plan.suite) /\ plan.fault # "no certificate"
        THEN <<Message("certificate", run,
                       IF plan.fault = "bad certificate" THEN "bad" ELSE "good")>>
        ELSE <<>>)
    \o (IF NeedsServerKey(plan.suite) THEN <<Message("server_key_exchange", run, "")>> ELSE <<>>)
    \o (IF plan.asks THEN <<Message("certificate_request", run, "")>> ELSE <<>>)
    \o <<Message("server_hello_done", run, "")>>

Says(s, records) == server' = s /\ toClient' = toClient \o records /\ UNCHANGED closed

\* Something the server will not have: it says so and closes.
Refuses(records) ==
    /\ server' = [server EXCEPT !.phase = "refused"]
    /\ toClient' = toClient \o records
    /\ closed' = "closed"

Greets(m) ==
    LET flight == Flight(server.plan, m.run)
    IN Says([server EXCEPT !.phase = "key", !.run = m.run, !.log = <<m>> \o flight],
            Handshakes(flight, server.tx))

Finishes(m) ==
    LET log == Append(server.log, m)
    IN Says([server EXCEPT !.phase = "open", !.log = log, !.tx = server.run],
            ChangeCipherSpec(server.tx)
               \o Handshake(Message("finished", server.run, log), server.run))

Idle == call = "idle"

\* The server takes the next record; of a message, its last part.
ServerReads ==
    /\ ~Idle
    /\ closed = "open"
    /\ toServer # <<>>
    /\ toServer' = Tail(toServer)
    /\ LET r == Head(toServer)
       IN CASE r.key # server.rx -> Refuses(Alert("fatal", server.tx))
            [] r.key = server.rx /\ r.is = "alert" -> Refuses(<<>>)
            [] r.key = server.rx /\ r.part = 1 -> Says(server, <<>>)
            [] r.key = server.rx /\ r.is = "ccs" /\ server.phase = "ccs" ->
                  Says([server EXCEPT !.phase = "finished", !.rx = server.run], <<>>)
            [] r.key = server.rx /\ r.is = "data" /\ server.phase = "open" ->
                  Says(server, Data(server.tx))
            [] r.key = server.rx /\ r.is = "handshake" /\ r.part = 2 ->
                  LET m == r.value
                  IN CASE m.type = "client_hello" /\ server.phase \in {"hello", "open"} ->
                            Greets(m)
                       [] m.type = "client_key_exchange" /\ server.phase = "key"
                             /\ (server.plan.asks => server.plan.lenient) ->
                            Says([server EXCEPT !.phase = "ccs", !.log = Append(@, m)], <<>>)
                       [] m.type = "finished" /\ server.phase = "finished"
                             /\ (m.value = server.log \/ server.plan.lenient) ->
                            Finishes(m)
                       [] OTHER -> Refuses(Alert("fatal", server.tx))
            [] OTHER -> Refuses(Alert("fatal", server.tx))
    /\ UNCHANGED <<client, call, logins>>

\* The server wants new keys.
ServerAsksAgain ==
    /\ ~Idle
    /\ closed = "open" /\ server.phase = "open"
    /\ server.asked < MaxRenegotiations
    /\ Says([server EXCEPT !.asked = @ + 1],
            Handshake(Message("hello_request", server.run, ""), server.tx))
    /\ UNCHANGED <<client, call, logins, toServer>>

\* The server gives up, with an alert or without, or the link breaks.
ServerGivesUp ==
    /\ ~Idle
    /\ closed = "open"
    /\ server' = [server EXCEPT !.phase = "gone"]
    /\ \/ closed' = "closed" /\ toClient' = toClient
       \/ closed' = "closed"
          /\ \E what \in {"fatal", "close_notify"} :
                toClient' = toClient \o Alert(what, server.tx)
       \/ closed' = "reset" /\ toClient' = <<>>
    /\ UNCHANGED <<client, call, logins, toServer>>

-----------------------------------------------------------------------------
(* The connector *)

Init ==
    /\ client = [StopTunnel(Tunnel) EXCEPT !.transport = "inactive"]
    /\ call = "idle"
    /\ logins = 0
    /\ toServer = <<>> /\ toClient = <<>>
    /\ server \in {Server(plan) : plan \in Servers}
    /\ closed = "closed"

\* What the client has sent goes out on the socket; one the server has closed
\* takes it and loses it.
Puts(c) ==
    /\ client' = [c EXCEPT !.out = <<>>]
    /\ toServer' = IF closed = "open" THEN toServer \o c.out ELSE toServer

\* Connect: a new socket, with what is sent first.
ConnectsAndPuts(c) ==
    /\ client' = [c EXCEPT !.out = <<>>, !.stale = c.state # "Client_Hello"]
    /\ toServer' = c.out
    /\ toClient' = <<>>
    /\ server' \in {Server(plan) : plan \in Servers}
    /\ closed' = "open"

\* StartTunnel of a new tunnel.
Started == SendClientHello(Tunnel)

\* connect, up to the wait.
Connect ==
    /\ call \in {"idle", "connected"}
    /\ logins < MaxLogins
    /\ logins' = logins + 1
    /\ ConnectsAndPuts(Started)
    /\ call' = "login"

\* A slip: a failed login goes on waiting.
LoopedOnlyUntilActive(c) ==
    IF c.transport # "active" THEN Puts(c) /\ UNCHANGED call
    ELSE Puts(c) /\ call' = "connected"

\* The loop goes on while the tunnel is logging in.  After it connect breaks
\* the connection off unless the tunnel is active; Send runs on either way.
Looped(c) ==
    IF c.transport = "login" THEN Puts(c) /\ UNCHANGED call
    ELSE IF call = "sending" \/ c.transport = "active"
         THEN Puts(c) /\ call' = "connected"
    ELSE Puts(c) /\ call' = "idle"

Looping == call \in {"login", "sending"}

\* recv in either loop, and in ReadStream once there is a connection.
Receive ==
    /\ ~Idle
    /\ \E n \in 1 .. Len(toClient) :
          LET records == SubSeq(toClient, 1, n)
              c == ReceiveData(client, records)
          IN /\ n <= MaxRecord
             /\ n > 1 => \A i \in 1 .. n :
                             records[i].is = "handshake" /\ records[i].key = records[1].key
             /\ toClient' = SubSeq(toClient, n + 1, Len(toClient))
             /\ IF Looping THEN Looped(c) ELSE Puts(c) /\ UNCHANGED call
    /\ UNCHANGED <<logins, server, closed>>

\* A broken socket ends the loop; one that was closed does not: recv returns 0
\* and the loop sleeps and asks again.
ReceiveFails ==
    /\ Looping
    /\ closed = "reset"
    /\ call' = IF call = "login" THEN "idle" ELSE "connected"
    /\ client' = IF call = "login" /\ IsAuthenticated(client) THEN Logout(client) ELSE client
    /\ UNCHANGED <<logins, wires>>

\* Send waits when the server has asked for new keys.
SendWaits ==
    /\ call = "connected"
    /\ client.transport = "login"
    /\ call' = "sending"
    /\ UNCHANGED <<client, logins, wires>>

\* A request through the tunnel; without a session it cannot be wrapped.  A
\* broken socket is replaced and the same bytes are sent again.
SendRequest ==
    /\ call = "connected"
    /\ client.transport # "login"
    /\ client.session /\ TunnelActive(client)
    /\ toServer = <<>> /\ toClient = <<>>
    /\ \/ /\ closed # "reset"
          /\ Puts(Sent(client, Data(client.tx)))
          /\ UNCHANGED <<toClient, server, closed>>
       \/ /\ closed = "reset"
          /\ ConnectsAndPuts(Sent(client, Data(client.tx)))
       \/ /\ closed = "reset"
          /\ client' = Logout(client)
          /\ UNCHANGED wires
    /\ UNCHANGED <<call, logins>>

\* refresh: it may not have noticed that the server has closed.  Only a tunnel
\* that is not active is started anew, and its login is left to Send.
Refresh ==
    /\ call = "connected"
    /\ logins < MaxLogins
    /\ LET again == ~IsAuthenticated(client)
       IN /\ logins' = IF again THEN logins + 1 ELSE logins
          /\ call' = IF again THEN "sending" ELSE "connected"
          /\ \/ /\ closed # "reset"
                /\ Puts(IF again THEN Started ELSE client)
                /\ UNCHANGED <<toClient, server, closed>>
             \/ /\ closed # "open"
                /\ ConnectsAndPuts(IF again THEN Started ELSE client)

Disconnect ==
    /\ call = "connected"
    /\ client' = IF IsAuthenticated(client) THEN Logout(client) ELSE client
    /\ call' = "idle"
    /\ UNCHANGED <<logins, wires>>

Next ==
    \/ ServerReads \/ ServerAsksAgain \/ ServerGivesUp
    \/ Connect \/ Receive \/ ReceiveFails
    \/ SendWaits \/ SendRequest \/ Refresh \/ Disconnect

Spec == Init /\ [][Next]_vars

\* The loops run on whenever the socket lets them, and the server answers.
FairSpec == Spec /\ WF_vars(Looping /\ (Receive \/ ReceiveFails)) /\ WF_vars(ServerReads)

-----------------------------------------------------------------------------
(* Properties *)

\* The variables have their types, what was sent is under way, and a tunnel that
\* was stopped is over for the processor too.
TypeOK ==
    /\ client.state \in Handshaking \union
          {"Active", "Hello_Request", "Logout", "ProtocolReset", "ProtocolClosed"}
    /\ client.transport \in {"inactive", "login", "active", "logout"}
    /\ client.cipher \in Suites \union {NoCipher}
    /\ client.out = <<>>
    /\ ~client.live => client.state = "ProtocolReset" /\ client.transport = "inactive"
    /\ call \in {"idle", "login", "sending", "connected"}
    /\ logins \in 0 .. MaxLogins
    /\ closed \in {"open", "closed", "reset"}

\* Types apart, an active tunnel is on the last handshake's keys both ways, and the server it
\* has logged in at has no fault, has chosen the same suite and has heard and
\* said the same (handleServerFinished, 691-727).  A tunnel whose socket was
\* replaced is still active, but nothing the new server says can be read.
Agreement ==
    /\ TypeOK
    /\ client.state = "Active" =>
          /\ client.rx = client.run /\ client.tx = client.run
          /\ IF client.stale
             THEN \A i \in DOMAIN toClient : toClient[i].key # client.rx
             ELSE /\ client.log = server.log
                  /\ client.cipher = server.plan.suite
                  /\ server.plan.fault = "none"

\* The processor's transport state says what the tunnel is doing, although it
\* hears of it by events only and some changes of state fire none; a session
\* is there in an active tunnel only (stateChanged, 533-632; StopTunnel, 164-177).
TransportAgrees ==
    /\ client.transport = "active" <=> TunnelActive(client)
    /\ client.transport = "login" <=> client.live /\ client.state \in Handshaking
    /\ client.session => TunnelActive(client)

\* A login at a server without fault, which asks for no certificate and does not
\* give up, makes the tunnel active, whatever records its messages come in.  (A
\* server that asks for new keys at once, in the record of its Finished, makes
\* the login run on into a renegotiation, and that fails: handleHelloRequest.)
LoginSucceeds ==
    (call = "login" /\ server.plan.fault = "none" /\ ~server.plan.asks)
       ~> (client.state = "Active" \/ server.phase = "gone" \/ server.asked > 0)

\* The two loops that wait for a login end, when it is refused or a renegotiation
\* fails as well.  The one exception is a connection that the server has closed
\* in the middle of a handshake, or that refresh takes for open: recv returns 0,
\* and the loop polls for good (TcpChannel.cpp:204, HttpChannel.cpp:766).
LoginReturns ==
    Looping ~> \/ ~Looping
               \/ closed = "closed" /\ toClient = <<>> /\ client.transport = "login"

=============================================================================
