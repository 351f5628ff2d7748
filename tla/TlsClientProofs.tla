--------------------------- MODULE TlsClientProofs ---------------------------
(***************************************************************************)
(* Theorems about TlsClient for any servers, any numbers of logins and of  *)
(* renegotiations, and records of any size.                                *)
(***************************************************************************)
EXTENDS TlsClient, SequenceTheorems, WellFoundedInduction, TLAPS

\* A sequence of anything.
IsSeq(s) == Len(s) \in Nat /\ s = [i \in 1 .. Len(s) |-> s[i]]

IsMessage(r, type) == r.is = "handshake" /\ r.part = 2 /\ r.value.type = type
IsHello(r) == IsMessage(r, "client_hello")
IsServerHello(r) == IsMessage(r, "server_hello")
IsFinished(r) == IsMessage(r, "finished")

-----------------------------------------------------------------------------
(* The tunnel *)

AllStates ==
    Handshaking \union {"Active", "Hello_Request", "Logout", "ProtocolReset", "ProtocolClosed"}

\* The states a tunnel is in when it waits for a record.
States ==
    {"Client_Hello", "Server_Hello", "Server_Certificate", "Server_Key_Exchange",
     "Client_Finished", "Server_Send_Change_Cipher_Spec", "Active", "ProtocolReset",
     "ProtocolClosed"}

\* What the client puts into its records.
FromClient(r) ==
    /\ r.key \in Nat
    /\ r.is = "handshake" => r.value.run \in Nat \ {0}

\* Records that a client may send.
OfClient(x) == IsSeq(x) /\ \A i \in 1 .. Len(x) : FromClient(x[i])

\* The first parts of messages.
Parts(x) == IsSeq(x) /\ \A i \in 1 .. Len(x) : x[i].part = 1

Ciphers == Suites \union {NoCipher}

\* The records of tunnels.
Tunnels(log, buffered, out) ==
    [state : AllStates, live : BOOLEAN, log : {log}, cipher : Ciphers,
     certs : {0, 1}, run : Nat, buffered : {buffered}, rx : Nat, tx : Nat,
     pending : BOOLEAN, transport : {"inactive", "login", "active", "logout"},
     session : BOOLEAN, ok : BOOLEAN, stale : BOOLEAN, out : {out}]

IsTunnel(c) == c \in Tunnels(c.log, c.buffered, c.out) /\ OfClient(c.out) /\ Parts(c.buffered)

\* The processor agrees with the tunnel.
Agrees(c) ==
    /\ ~c.live => c.state = "ProtocolReset" /\ c.transport = "inactive" /\ ~c.session
    /\ c.live => /\ c.transport = TransportOf(c.state)
                 /\ c.session => c.state = "Active"
                 /\ c.run >= 1

\* A tunnel between two records.
ClientOK(c) == IsTunnel(c) /\ Agrees(c) /\ c.state \in States /\ (c.live => c.state # "ProtocolReset")

-----------------------------------------------------------------------------
(* The wires *)

ServerTypes ==
    {"hello_request", "server_hello", "certificate", "server_key_exchange",
     "certificate_request", "server_hello_done", "finished"}

\* What a server with this plan says in a message, ...
Said(m, plan) ==
    /\ m.type \in ServerTypes
    /\ m.type = "server_hello" =>
          /\ m.value.suite = plan.suite
          /\ m.value.extension <=> plan.fault = "extension"
    /\ m.type = "certificate" =>
          /\ plan.fault # "no certificate"
          /\ m.value = "bad" <=> plan.fault = "bad certificate"

\* ... and puts into a record.
FromServer(r, plan) ==
    /\ r.is \in {"handshake", "ccs", "alert", "data"} /\ r.part \in {1, 2} /\ r.key \in Nat
    /\ r.is = "handshake" => Said(r.value, plan)

WiresOK(in, out, plan) ==
    /\ IsSeq(out) /\ \A i \in 1 .. Len(out) : FromClient(out[i])
    /\ IsSeq(in) /\ \A i \in 1 .. Len(in) : FromServer(in[i], plan)

ServerOK ==
    /\ server = [plan |-> server.plan, phase |-> server.phase, log |-> server.log,
                 run |-> server.run, rx |-> server.rx, tx |-> server.tx, asked |-> server.asked]
    /\ server.plan \in Servers
    /\ server.run \in Nat /\ server.rx \in Nat /\ server.tx \in Nat
    /\ server.phase \in {"hello", "key", "ccs", "finished", "open", "refused", "gone"}
    /\ server.phase = "hello" => server.rx = 0 /\ server.tx = 0 /\ server.run = 0 /\ toClient = <<>>
    /\ server.phase \in {"key", "ccs", "finished", "open"} => server.run >= 1
    /\ server.phase = "open" => server.tx = server.run
    /\ server.phase \in {"refused", "gone"} => closed # "open"
    /\ closed = "reset" => toClient = <<>>

-----------------------------------------------------------------------------
(* The two ends: a tunnel c, what is under way to it and from it, a server s, and *)
(* whether the socket is open                                                     *)

\* A server hello may still come that a tunnel without keys can read.
First(in, s, open) ==
    \/ s.phase = "hello" /\ open
    \/ \E i \in 1 .. Len(in) : IsServerHello(in[i]) /\ in[i].key = 0

\* Then the tunnel waits for it, and nothing comes before it.
FirstOK(c, in, s, open) ==
    First(in, s, open) =>
        /\ c.live /\ c.state = "Client_Hello" /\ c.rx = 0
        /\ \A i \in 1 .. Len(in) :
              IsServerHello(in[i]) /\ in[i].key = 0 => \A j \in 1 .. i - 1 :
                  in[j].is = "handshake" /\ in[j].part = 1 /\ in[j].key = 0

\* A handshake or session with the server of this connection; a tunnel that waits
\* for a server hello that will not come is in none.
Engaged(c, in, s, open) ==
    /\ c.live /\ c.state \in Handshaking \union {"Active"}
    /\ c.state = "Client_Hello" /\ c.rx = 0 => First(in, s, open)

\* What has been settled in it, once the server hello has come.
Settled(c, plan) ==
    /\ c.cipher \in {NoCipher, plan.suite}
    /\ c.cipher # NoCipher => plan.fault # "extension"
    /\ c.certs # 0 => plan.fault \notin {"no certificate", "bad certificate"}
    /\ c.state # "Client_Hello" => c.cipher # NoCipher
    /\ c.state \in {"Client_Finished", "Server_Send_Change_Cipher_Spec", "Active"} =>
          /\ c.tx = c.run
          /\ NeedsCertificate(c.cipher) => c.certs # 0
    /\ c.state \in {"Server_Send_Change_Cipher_Spec", "Active"} => c.rx = c.run

Over == {"open", "refused", "gone"}

\* A hello under way is the tunnel's last, and not yet answered, ...
HellosOK(c, in, out, s) ==
    \A i \in 1 .. Len(out) :
       IsHello(out[i]) =>
          /\ c.state = "Client_Hello" /\ out[i].value.run = c.run /\ s.run < c.run
          /\ \A j \in 1 .. Len(out) : IsHello(out[j]) => j = i
          /\ \A j \in 1 .. Len(in) : ~IsServerHello(in[j])

\* ... an answer under way is the only one, ...
AnswersOK(c, in) ==
    \A i \in 1 .. Len(in) :
       IsServerHello(in[i]) =>
          /\ c.state = "Client_Hello"
          /\ \A j \in 1 .. Len(in) : IsServerHello(in[j]) => j = i

\* ... and the last Finished holds what the server has hashed.
FinishedOK(in, s) ==
    \A i \in 1 .. Len(in) :
       IsFinished(in[i]) =>
          /\ in[i].key <= s.run
          /\ in[i].key = s.run =>
                s.tx = s.run /\ s.phase \in Over /\ in[i].value.value = s.log

ActiveOK(c, s) == c.state = "Active" => s.run = c.run /\ s.phase \in Over /\ c.log = s.log

InStep(c, in, out, s) ==
    /\ s.run <= c.run
    /\ HellosOK(c, in, out, s) /\ AnswersOK(c, in) /\ FinishedOK(in, s) /\ ActiveOK(c, s)

Good(c, in, out, s, open) ==
    /\ FirstOK(c, in, s, open)
    /\ Engaged(c, in, s, open) => Settled(c, s.plan) /\ InStep(c, in, out, s)

\* A tunnel whose socket was replaced: the new server cannot read what it sends.
StaleOK ==
    /\ call = "connected"
    /\ server.phase \in {"hello", "refused", "gone"} /\ server.rx = 0 /\ server.tx = 0
    /\ \A i \in 1 .. Len(toServer) : toServer[i].key # 0
    /\ \A i \in 1 .. Len(toClient) : toClient[i].is = "alert" /\ toClient[i].key = 0
    /\ IF client.state = "Active"
       THEN client.rx = client.run /\ client.tx = client.run
       ELSE client.state \in {"ProtocolReset", "ProtocolClosed"} /\ closed # "open"

FreshOK ==
    /\ First(toClient, server, closed = "open") => Looping
    /\ Good(client, toClient, toServer, server, closed = "open")

CallOK ==
    /\ call \in {"idle", "login", "sending", "connected"}
    /\ logins \in 0 .. MaxLogins
    /\ closed \in {"open", "closed", "reset"}
    /\ client.out = <<>>
    /\ Idle => client.state # "Active"

IInv ==
    /\ ClientOK(client) /\ WiresOK(toClient, toServer, server.plan) /\ ServerOK /\ CallOK
    /\ ~Idle => IF client.stale THEN StaleOK ELSE FreshOK

-----------------------------------------------------------------------------
(* Sequences *)

Elements(s) == {s[i] : i \in 1 .. Len(s)}

LEMMA SeqIs ==
    ASSUME NEW s, IsSeq(s)
    PROVE  /\ Len(s) \in Nat /\ s \in Seq(Elements(s))
           /\ \A S : Elements(s) \subseteq S => s \in Seq(S)
<1>1. Len(s) \in Nat /\ s = [i \in 1 .. Len(s) |-> s[i]]
  BY DEF IsSeq
<1>2. ASSUME NEW S, Elements(s) \subseteq S PROVE s \in Seq(S)
  <2>1. s \in [1 .. Len(s) -> S]
    BY <1>1, <1>2 DEF Elements
  <2>2. s \in UNION {[1 .. n -> S] : n \in Nat}
    BY <1>1, <2>1
  <2>3. QED  BY <2>2
<1>3. QED  BY <1>1, <1>2

LEMMA SeqOfSet ==
    ASSUME NEW S, NEW s \in Seq(S)
    PROVE  IsSeq(s) /\ \A i \in 1 .. Len(s) : s[i] \in S
<1>1. Len(s) \in Nat /\ s \in [1 .. Len(s) -> S]
  BY LenProperties
<1>2. QED  BY <1>1 DEF IsSeq

LEMMA ConcatIs ==
    ASSUME NEW s, NEW t, IsSeq(s), IsSeq(t)
    PROVE  /\ IsSeq(s \o t) /\ Len(s) \in Nat /\ Len(t) \in Nat /\ Len(s \o t) = Len(s) + Len(t)
           /\ \A i \in 1 .. Len(s) : (s \o t)[i] = s[i]
           /\ \A i \in Len(s) + 1 .. Len(s) + Len(t) : (s \o t)[i] = t[i - Len(s)]
<1> DEFINE S == Elements(s) \cup Elements(t)
<1>1. s \in Seq(S) /\ t \in Seq(S) /\ Len(s) \in Nat /\ Len(t) \in Nat
  BY SeqIs
<1> HIDE DEF S
<1>2. s \o t \in Seq(S) /\ Len(s \o t) = Len(s) + Len(t)
      /\ \A i \in 1 .. Len(s) + Len(t) : (s \o t)[i] = IF i <= Len(s) THEN s[i] ELSE t[i - Len(s)]
  BY <1>1, ConcatProperties
<1>3. IsSeq(s \o t)
  BY <1>2, SeqOfSet
<1>4. ASSUME NEW i \in 1 .. Len(s) PROVE (s \o t)[i] = s[i]
  <2>1. i \in 1 .. Len(s) + Len(t) /\ i <= Len(s)
    BY <1>1
  <2>2. QED  BY <1>2, <2>1
<1>5. ASSUME NEW i \in Len(s) + 1 .. Len(s) + Len(t) PROVE (s \o t)[i] = t[i - Len(s)]
  <2>1. i \in 1 .. Len(s) + Len(t) /\ ~(i <= Len(s))
    BY <1>1
  <2>2. QED  BY <1>2, <2>1
<1>6. QED  BY <1>1, <1>2, <1>3, <1>4, <1>5

\* The elements of a concatenation.
LEMMA ConcatAll ==
    ASSUME NEW s, NEW t, IsSeq(s), IsSeq(t), NEW i \in 1 .. Len(s \o t)
    PROVE  \/ i \in 1 .. Len(s) /\ (s \o t)[i] = s[i]
           \/ /\ i - Len(s) \in 1 .. Len(t) /\ i > Len(s)
              /\ (s \o t)[i] = t[i - Len(s)]
<1>1. Len(s) \in Nat /\ Len(t) \in Nat /\ i \in 1 .. Len(s) + Len(t)
  BY ConcatIs
<1>2. CASE i <= Len(s)
  BY <1>1, <1>2, ConcatIs
<1>3. CASE i > Len(s)
  <2>1. i \in Len(s) + 1 .. Len(s) + Len(t) /\ i - Len(s) \in 1 .. Len(t)
    BY <1>1, <1>3
  <2>2. QED  BY <1>3, <2>1, ConcatIs
<1>4. QED  BY <1>1, <1>2, <1>3

\* What is left of a sequence after its first n elements.
LEMMA RestIs ==
    ASSUME NEW s, IsSeq(s), NEW n \in 0 .. Len(s)
    PROVE  LET r == SubSeq(s, n + 1, Len(s))
           IN /\ IsSeq(r) /\ Len(r) = Len(s) - n
              /\ \A i \in 1 .. Len(s) - n : r[i] = s[n + i]
<1>1. s \in Seq(Elements(s)) /\ Len(s) \in Nat
  BY SeqIs
<1>2. n + 1 \in 1 .. Len(s) + 1 /\ Len(s) \in 0 .. Len(s)
  BY <1>1
<1> DEFINE r == SubSeq(s, n + 1, Len(s))
<1>3. CASE n = Len(s)
  <2>1. r = <<>>
    BY <1>1, <1>2, <1>3, SubSeqProperties
  <2>2. QED  BY <1>1, <1>3, <2>1 DEF IsSeq
<1>4. CASE n < Len(s)
  <2>1. \A i \in n + 1 .. Len(s) : i \in 1 .. Len(s)
    BY <1>1
  <2>2. r \in Seq(Elements(s))
    BY <1>1, <1>2, SubSeqProperties
  <2>3. Len(r) = Len(s) - (n + 1) + 1
    BY <1>1, <1>2, <1>4, SubSeqProperties
  <2>4. \A i \in 1 .. Len(s) - (n + 1) + 1 : r[i] = s[n + 1 + i - 1]
    BY <1>1, <1>2, <1>4, SubSeqProperties
  <2>5. IsSeq(r)
    BY <2>2, SeqOfSet
  <2> HIDE DEF r
  <2>6. Len(s) - (n + 1) + 1 = Len(s) - n /\ \A i \in 1 .. Len(s) - n : n + 1 + i - 1 = n + i
    BY <1>1
  <2>7. IsSeq(r) /\ Len(r) = Len(s) - n /\ \A i \in 1 .. Len(s) - n : r[i] = s[n + i]
    BY <2>3, <2>4, <2>5, <2>6
  <2>8. QED  BY <2>7 DEF r
<1>5. QED  BY <1>1, <1>3, <1>4

LEMMA TailIs ==
    ASSUME NEW s, IsSeq(s), s # <<>>
    PROVE  /\ Len(s) \in Nat \ {0} /\ Head(s) = s[1]
           /\ IsSeq(Tail(s)) /\ Len(Tail(s)) = Len(s) - 1
           /\ \A i \in 1 .. Len(s) - 1 : Tail(s)[i] = s[i + 1]
<1>1. s \in Seq(Elements(s)) /\ Len(s) \in Nat
  BY SeqIs
<1>2. Len(s) # 0
  BY <1>1, EmptySeq
<1>3. /\ Head(s) = s[1] /\ Tail(s) \in Seq(Elements(s)) /\ Len(Tail(s)) = Len(s) - 1
      /\ \A i \in 1 .. Len(Tail(s)) : Tail(s)[i] = s[i + 1]
  BY <1>1, HeadTailProperties
<1>4. IsSeq(Tail(s))
  BY <1>3, SeqOfSet
<1>5. QED  BY <1>1, <1>2, <1>3, <1>4

-----------------------------------------------------------------------------
(* The parts of the handlers *)

\* All but the state and what follows from it.
Kept(c, d) ==
    /\ d.live = c.live /\ d.log = c.log /\ d.cipher = c.cipher /\ d.certs = c.certs
    /\ d.run = c.run /\ d.buffered = c.buffered /\ d.rx = c.rx /\ d.tx = c.tx
    /\ d.pending = c.pending /\ d.ok = c.ok /\ d.stale = c.stale /\ d.out = c.out

\* A tunnel enters a state.
LEMMA EnteredIs ==
    ASSUME NEW c, IsTunnel(c), NEW state \in AllStates, NEW d, d = Entered(c, state)
    PROVE  /\ IsTunnel(d) /\ d.state = state /\ Kept(c, d)
           /\ ~c.live => d.transport = c.transport /\ d.session = c.session
           /\ c.live /\ c.state # state =>
                 d.transport = TransportOf(state) /\ (d.session => state = "Active")
           /\ Agrees(c) /\ c.live => Agrees(d)
<1>1. TransportOf(state) \in {"inactive", "login", "active", "logout"}
  BY DEF TransportOf
<1>2. CASE c.state = state
  BY <1>2 DEF Entered, Kept
<1>3. CASE c.state # state /\ ~c.live
  <2>1. d = [c EXCEPT !.state = state]
    BY <1>3 DEF Entered
  <2>2. d.state = state /\ Kept(c, d) /\ d.transport = c.transport /\ d.session = c.session
    BY <2>1 DEF IsTunnel, Tunnels, Kept
  <2>3. IsTunnel(d)
    <3>1. [c EXCEPT !.state = state] \in Tunnels(c.log, c.buffered, c.out)
      BY DEF IsTunnel, Tunnels
    <3>2. QED  BY <2>1, <2>2, <3>1 DEF IsTunnel, Kept
  <2>4. QED  BY <1>3, <2>2, <2>3
<1>4. CASE c.state # state /\ c.live
  <2> PICK b \in BOOLEAN : b <=> state = "Active" /\ c.cipher = "ckmauth"
    OBVIOUS
  <2>1. d = [c EXCEPT !.state = state, !.transport = TransportOf(state), !.session = b]
    <3>1. (state = "Active" /\ c.cipher = "ckmauth") = b
      OBVIOUS
    <3>2. QED  BY <1>4, <3>1 DEF Entered
  <2>2. /\ d.state = state /\ Kept(c, d) /\ d.transport = TransportOf(state)
        /\ d.session = b
    BY <2>1 DEF IsTunnel, Tunnels, Kept
  <2>3. IsTunnel(d)
    <3> PICK p \in {"inactive", "login", "active", "logout"} : p = TransportOf(state)
      BY <1>1
    <3>1. [c EXCEPT !.state = state, !.transport = p, !.session = b]
             \in Tunnels(c.log, c.buffered, c.out)
      BY DEF IsTunnel, Tunnels
    <3>2. QED  BY <2>1, <2>2, <3>1 DEF IsTunnel, Kept
  <2>4. Agrees(c) => Agrees(d)
    BY <1>4, <2>2 DEF Agrees, Kept
  <2>5. QED  BY <1>4, <2>2, <2>3, <2>4
<1>5. QED  BY <1>2, <1>3, <1>4

\* All but what was sent.
KeptAll(c, d) ==
    /\ d.state = c.state /\ d.live = c.live /\ d.log = c.log /\ d.cipher = c.cipher
    /\ d.certs = c.certs /\ d.run = c.run /\ d.buffered = c.buffered /\ d.rx = c.rx
    /\ d.tx = c.tx /\ d.pending = c.pending /\ d.transport = c.transport
    /\ d.session = c.session /\ d.ok = c.ok /\ d.stale = c.stale

LEMMA OfClientConcat ==
    ASSUME NEW x, NEW y, OfClient(x), OfClient(y)
    PROVE  OfClient(x \o y)
<1>1. IsSeq(x \o y)
  BY ConcatIs DEF OfClient
<1>2. ASSUME NEW i \in 1 .. Len(x \o y) PROVE FromClient((x \o y)[i])
  BY ConcatAll DEF OfClient
<1>3. QED  BY <1>1, <1>2 DEF OfClient

LEMMA SentIs ==
    ASSUME NEW c, IsTunnel(c), NEW x, OfClient(x), NEW d, d = Sent(c, x)
    PROVE  /\ IsTunnel(d) /\ KeptAll(c, d)
           /\ d.out = IF c.live THEN c.out \o x ELSE c.out
           /\ Agrees(c) => Agrees(d)
<1>1. CASE ~c.live
  BY <1>1 DEF Sent, KeptAll
<1>2. CASE c.live
  <2>1. d = [c EXCEPT !.out = c.out \o x]
    BY <1>2 DEF Sent
  <2>2. d.out = c.out \o x /\ KeptAll(c, d)
    BY <2>1 DEF IsTunnel, Tunnels, KeptAll
  <2>3. OfClient(c.out \o x)
    BY OfClientConcat DEF IsTunnel
  <2>4. IsTunnel(d)
    <3> PICK y : y = c.out \o x
      OBVIOUS
    <3>1. [c EXCEPT !.out = y] \in Tunnels(c.log, c.buffered, y)
      BY DEF IsTunnel, Tunnels
    <3>2. QED  BY <2>1, <2>2, <2>3, <3>1 DEF IsTunnel, KeptAll
  <2>5. Agrees(c) => Agrees(d)
    BY <2>2 DEF Agrees, KeptAll
  <2>6. QED  BY <1>2, <2>2, <2>4, <2>5
<1>3. QED  BY <1>1, <1>2

\* What a client sends, record by record.
LEMMA SendsAre ==
    ASSUME NEW key \in Nat
    PROVE  /\ \A what : OfClient(Alert(what, key)) /\ ~IsHello(Alert(what, key)[1])
           /\ OfClient(ChangeCipherSpec(key)) /\ OfClient(Data(key))
           /\ \A what : Len(Alert(what, key)) = 1
           /\ Len(ChangeCipherSpec(key)) = 1 /\ Len(Data(key)) = 1
           /\ ~IsHello(ChangeCipherSpec(key)[1]) /\ ~IsHello(Data(key)[1])
           /\ Data(key)[1].key = key
<1> DEFINE One(what, is) == <<Record(is, what, 2, key)>>
<1>1. ASSUME NEW what, NEW is \in {"alert", "ccs", "data"}
      PROVE  /\ OfClient(One(what, is)) /\ Len(One(what, is)) = 1 /\ ~IsHello(One(what, is)[1])
             /\ One(what, is)[1].key = key
  BY DEF OfClient, IsSeq, FromClient, Record, IsHello, IsMessage
<1>2. \A what : Alert(what, key) = One(what, "alert")
  BY DEF Alert
<1>3. ChangeCipherSpec(key) = One("", "ccs") /\ Data(key) = One("", "data")
  BY DEF ChangeCipherSpec, Data
<1> HIDE DEF One
<1>4. QED  BY <1>1, <1>2, <1>3

LEMMA HandshakeIs ==
    ASSUME NEW type, NEW run \in Nat \ {0}, NEW value, NEW key \in Nat,
           NEW x, x = Handshake(Message(type, run, value), key)
    PROVE  /\ OfClient(x) /\ Len(x) = 2
           /\ \A i \in 1 .. 2 : x[i].is = "handshake" /\ x[i].key = key /\ x[i].part = i
                                /\ x[i].value = Message(type, run, value)
<1> PICK m : m = Message(type, run, value)
  OBVIOUS
<1>1. m.run = run
  BY DEF Message
<1>2. x = <<[is |-> "handshake", value |-> m, part |-> 1, key |-> key],
            [is |-> "handshake", value |-> m, part |-> 2, key |-> key]>>
  BY DEF Handshake, Record
<1>3. IsSeq(x) /\ Len(x) = 2
  BY <1>2 DEF IsSeq
<1>4. \A i \in 1 .. 2 : x[i].is = "handshake" /\ x[i].key = key /\ x[i].part = i /\ x[i].value = m
  <2>1. \A i \in 1 .. 2 : i = 1 \/ i = 2
    OBVIOUS
  <2>2. QED  BY <1>2, <2>1
<1>5. QED  BY <1>1, <1>3, <1>4 DEF OfClient, FromClient

\* What ending a session leaves alone.
Left(c, d) ==
    d.run = c.run /\ d.buffered = c.buffered /\ d.ok = c.ok /\ d.stale = c.stale /\ d.out = c.out

Ended(d) == d.state \in {"ProtocolReset", "ProtocolClosed"}

LEMMA ResetRecord ==
    ASSUME NEW x, NEW y, NEW z, NEW b \in Tunnels(x, y, z), NEW l, NEW n \in Ciphers
    PROVE  [b EXCEPT !.log = l, !.cipher = n, !.certs = 0, !.rx = 0, !.tx = 0,
                     !.pending = FALSE] \in Tunnels(l, y, z)
BY DEF Tunnels

LEMMA ResetTunnelIs ==
    ASSUME NEW c, IsTunnel(c), Agrees(c), c.live, NEW d, d = ResetTunnel(c)
    PROVE  IsTunnel(d) /\ Agrees(d) /\ Left(c, d) /\ d.live /\ d.state = "ProtocolClosed"
<1> PICK a : a = Entered(c, "ProtocolReset")
  OBVIOUS
<1> PICK b : b = Entered(a, "ProtocolClosed")
  OBVIOUS
<1>1. "ProtocolReset" \in AllStates /\ "ProtocolClosed" \in AllStates
  BY DEF AllStates
<1>2. IsTunnel(a) /\ Agrees(a) /\ Kept(c, a)
  BY <1>1, EnteredIs
<1>3. IsTunnel(b) /\ Agrees(b) /\ Kept(a, b) /\ b.state = "ProtocolClosed"
  <2>1. a.live
    BY <1>2 DEF Kept
  <2>2. QED  BY <1>1, <1>2, <2>1, EnteredIs
<1> PICK l : l = <<>>
  OBVIOUS
<1> PICK n \in Ciphers : n = NoCipher
  BY DEF Ciphers
<1>4. d = [b EXCEPT !.log = l, !.cipher = n, !.certs = 0,
                    !.rx = 0, !.tx = 0, !.pending = FALSE]
  BY DEF ResetTunnel
<1>5. /\ d.state = b.state /\ d.live = b.live /\ d.transport = b.transport
      /\ d.session = b.session /\ Left(b, d) /\ d.log = l
  BY <1>3, <1>4 DEF IsTunnel, Tunnels, Left
<1>6. d \in Tunnels(l, b.buffered, b.out)
  <2>1. b \in Tunnels(b.log, b.buffered, b.out)
    BY <1>3 DEF IsTunnel
  <2>2. [b EXCEPT !.log = l, !.cipher = n, !.certs = 0, !.rx = 0, !.tx = 0,
                  !.pending = FALSE] \in Tunnels(l, b.buffered, b.out)
    BY <2>1, ResetRecord, Zenon
  <2>3. QED  BY <2>2, <1>4, Zenon
<1>7. IsTunnel(d)
  BY <1>3, <1>5, <1>6 DEF IsTunnel, Left
<1>8. b.live = c.live /\ Left(c, b)
  BY <1>2, <1>3 DEF Kept, Left
<1>9. Agrees(d)
  BY <1>3, <1>5 DEF Agrees, Left
<1>10. Left(c, d)
  BY <1>5, <1>8 DEF Left
<1>11. QED  BY <1>3, <1>5, <1>7, <1>8, <1>9, <1>10

LEMMA LogoutIs ==
    ASSUME NEW c, IsTunnel(c), Agrees(c), NEW d, d = Logout(c)
    PROVE  /\ IsTunnel(d) /\ Agrees(d) /\ Left(c, d) /\ d.live = c.live /\ Ended(d)
           /\ d.state = "ProtocolReset" => c.state = "ProtocolReset"
<1>1. CASE c.state \in {"ProtocolReset", "ProtocolClosed"}
  BY <1>1 DEF Logout, Left, Ended
<1>2. CASE c.state \notin {"ProtocolReset", "ProtocolClosed"}
  <2> PICK a : a = Entered(c, "Logout")
    OBVIOUS
  <2>1. c.live
    BY <1>2 DEF Agrees
  <2>2. IsTunnel(a) /\ Agrees(a) /\ Kept(c, a)
    BY <2>1, EnteredIs DEF AllStates
  <2>3. d = ResetTunnel(a)
    BY <1>2 DEF Logout
  <2>4. a.live
    BY <2>1, <2>2 DEF Kept
  <2>5. /\ IsTunnel(d) /\ Agrees(d) /\ Left(a, d) /\ d.live /\ d.state = "ProtocolClosed"
    BY <2>2, <2>3, <2>4, ResetTunnelIs
  <2>6. Left(c, d)
    BY <2>2, <2>5 DEF Left, Kept
  <2>7. QED  BY <2>1, <2>5, <2>6 DEF Ended
<1>3. QED  BY <1>1, <1>2

\* The tunnel is stopped, and the processor knows it.
Dead(d) == IsTunnel(d) /\ Agrees(d) /\ ~d.live

LEMMA StopTunnelIs ==
    ASSUME NEW c, IsTunnel(c), Agrees(c), NEW d, d = StopTunnel(c)
    PROVE  Dead(d) /\ Left(c, d)
<1> PICK a : a = Logout(c)
  OBVIOUS
<1>1. IsTunnel(a) /\ Agrees(a) /\ Left(c, a) /\ a.live = c.live /\ Ended(a)
  BY LogoutIs
<1>2. d = [a EXCEPT !.live = FALSE, !.state = "ProtocolReset"]
  BY DEF StopTunnel
<1>3. /\ d.state = "ProtocolReset" /\ d.live = FALSE /\ d.transport = a.transport
      /\ d.session = a.session /\ Left(a, d) /\ d.log = a.log
  BY <1>1, <1>2 DEF IsTunnel, Tunnels, Left
<1>4. "ProtocolReset" \in AllStates
  BY DEF AllStates
<1>5. d \in Tunnels(a.log, a.buffered, a.out)
  BY <1>1, <1>2, <1>4 DEF IsTunnel, Tunnels
<1>6. IsTunnel(d)
  BY <1>1, <1>3, <1>5 DEF IsTunnel, Left
<1>7. a.transport = "inactive" /\ ~a.session
  <2>1. CASE ~a.live
    BY <1>1, <2>1 DEF Agrees
  <2>2. CASE a.live
    <3>1. TransportOf(a.state) = "inactive"
      BY <1>1 DEF Ended, TransportOf, Handshaking
    <3>2. QED  BY <1>1, <2>2, <3>1 DEF Agrees, Ended
  <2>3. QED  BY <2>1, <2>2
<1>8. Agrees(d)
  BY <1>3, <1>7 DEF Agrees
<1>9. Left(c, d)
  BY <1>1, <1>3 DEF Left
<1>10. QED  BY <1>3, <1>6, <1>8, <1>9 DEF Dead

\* A handler that fails; what it sends is a fatal alert.
LEMMA FailedIs ==
    ASSUME NEW c, IsTunnel(c), Agrees(c), NEW d, d = Failed(c)
    PROVE  Dead(d) /\ d.stale = c.stale
<1>1. c.tx \in Nat
  BY DEF IsTunnel, Tunnels
<1> PICK a : a = Sent(c, Alert("fatal", c.tx))
  OBVIOUS
<1> PICK b : b = StopTunnel(a)
  OBVIOUS
<1>2. IsTunnel(a) /\ Agrees(a) /\ KeptAll(c, a)
  BY <1>1, SendsAre, SentIs
<1>3. Dead(b) /\ Left(a, b)
  BY <1>2, StopTunnelIs
<1>4. d = [b EXCEPT !.ok = FALSE]
  BY DEF Failed
<1>5. /\ d.state = b.state /\ d.live = b.live /\ d.transport = b.transport
      /\ d.session = b.session /\ d.log = b.log /\ d.buffered = b.buffered /\ d.out = b.out
      /\ d.run = b.run /\ d.stale = b.stale
  BY <1>3, <1>4 DEF Dead, IsTunnel, Tunnels
<1>6. d \in Tunnels(b.log, b.buffered, b.out)
  BY <1>3, <1>4 DEF Dead, IsTunnel, Tunnels
<1>7. IsTunnel(d)
  BY <1>3, <1>5, <1>6 DEF Dead, IsTunnel
<1>8. Agrees(d)
  BY <1>3, <1>5 DEF Dead, Agrees
<1>9. d.stale = c.stale
  BY <1>2, <1>3, <1>5 DEF KeptAll, Left
<1>10. QED  BY <1>3, <1>5, <1>7, <1>8, <1>9 DEF Dead

LEMMA DeadIsOK ==
    ASSUME NEW d, Dead(d)
    PROVE  ClientOK(d)
BY DEF Dead, ClientOK, Agrees, States

LEMMA LoggedIs ==
    ASSUME NEW c, IsTunnel(c), NEW m, NEW d, d = Logged(c, m)
    PROVE  /\ IsTunnel(d) /\ (Agrees(c) => Agrees(d)) /\ Left(c, d)
           /\ d.state = c.state /\ d.live = c.live /\ d.cipher = c.cipher /\ d.certs = c.certs
           /\ d.rx = c.rx /\ d.tx = c.tx
<1> PICK l : l = Append(c.log, m)
  OBVIOUS
<1>1. d = [c EXCEPT !.log = l]
  BY DEF Logged
<1>2. /\ d.state = c.state /\ d.live = c.live /\ d.cipher = c.cipher /\ d.certs = c.certs
      /\ d.rx = c.rx /\ d.tx = c.tx /\ d.transport = c.transport /\ d.session = c.session
      /\ d.log = l /\ Left(c, d)
  BY <1>1 DEF IsTunnel, Tunnels, Left
<1>3. d \in Tunnels(l, c.buffered, c.out)
  BY <1>1 DEF IsTunnel, Tunnels
<1>4. IsTunnel(d)
  BY <1>2, <1>3 DEF IsTunnel, Left
<1>5. Agrees(c) => Agrees(d)
  BY <1>2 DEF Agrees, Left
<1>6. QED  BY <1>2, <1>4, <1>5

\* What logging a message leaves alone.
LoggedKeeps(c, d) ==
    /\ IsTunnel(d) /\ (Agrees(c) => Agrees(d)) /\ Left(c, d)
    /\ d.state = c.state /\ d.live = c.live /\ d.cipher = c.cipher /\ d.certs = c.certs
    /\ d.rx = c.rx /\ d.tx = c.tx

LEMMA LoggedAny ==
    ASSUME NEW c, IsTunnel(c), NEW m
    PROVE  LoggedKeeps(c, Logged(c, m))
<1>1. PICK d : d = Logged(c, m)
  OBVIOUS
<1>2. LoggedKeeps(c, d)
  BY <1>1, LoggedIs DEF LoggedKeeps
<1>3. QED  BY <1>1, <1>2, Zenon

\* A hello is sent.
HelloRecords(run, key) == Handshake(Message("client_hello", run, ""), key)

LEMMA HelloSent ==
    ASSUME NEW c, IsTunnel(c), c.live, c.state # "Client_Hello",
           NEW d, d = SendClientHello(c)
    PROVE  /\ IsTunnel(d) /\ Agrees(d) /\ d.live /\ d.state = "Client_Hello"
           /\ d.run = c.run + 1 /\ d.cipher = c.cipher /\ d.certs = c.certs
           /\ d.rx = c.rx /\ d.stale = c.stale
           /\ d.out = c.out \o HelloRecords(c.run + 1, c.tx)
<1>h. PICK hello : hello = Message("client_hello", c.run + 1, "")
  OBVIOUS
<1>a. PICK a : a = Entered(c, "Client_Hello")
  OBVIOUS
<1>r. PICK r : r = a.run + 1
  OBVIOUS
<1>b. PICK b : b = [a EXCEPT !.run = r]
  OBVIOUS
<1>e. PICK e : e = Logged(b, hello)
  OBVIOUS
<1>1. /\ IsTunnel(a) /\ Kept(c, a) /\ a.state = "Client_Hello"
      /\ a.transport = TransportOf("Client_Hello") /\ ~a.session
  <2>1. "Client_Hello" \in AllStates
    BY DEF AllStates, Handshaking
  <2>2. QED  BY <1>a, <2>1, EnteredIs
<1>2. /\ b.state = a.state /\ b.live = a.live /\ b.log = a.log /\ b.cipher = a.cipher
      /\ b.certs = a.certs /\ b.run = r /\ b.buffered = a.buffered /\ b.rx = a.rx
      /\ b.tx = a.tx /\ b.transport = a.transport /\ b.session = a.session
      /\ b.stale = a.stale /\ b.out = a.out /\ r \in Nat /\ r >= 1
      /\ b \in Tunnels(a.log, a.buffered, a.out)
  <2>1. r \in Nat /\ r >= 1
    BY <1>r, <1>1 DEF IsTunnel, Tunnels
  <2>2. QED  BY <1>b, <1>1, <2>1 DEF IsTunnel, Tunnels
<1>3. IsTunnel(b)
  BY <1>1, <1>2 DEF IsTunnel
<1>4. Agrees(b)
  BY <1>1, <1>2 DEF Agrees, Kept
<1>5. /\ IsTunnel(e) /\ Agrees(e) /\ Left(b, e) /\ e.state = b.state /\ e.live = b.live
      /\ e.cipher = b.cipher /\ e.certs = b.certs /\ e.rx = b.rx /\ e.tx = b.tx
  BY <1>e, <1>3, <1>4, LoggedIs
<1>6. c.run + 1 \in Nat \ {0} /\ c.tx \in Nat
  BY DEF IsTunnel, Tunnels
<1>7. d = Sent(e, Handshake(hello, e.tx))
  BY <1>h, <1>a, <1>r, <1>b, <1>e DEF SendClientHello
<1>8. e.tx = c.tx /\ e.out = c.out /\ e.live /\ e.run = c.run + 1
  BY <1>r, <1>1, <1>2, <1>5 DEF Kept, Left
<1>9. d = Sent(e, HelloRecords(c.run + 1, c.tx))
  BY <1>h, <1>7, <1>8 DEF HelloRecords
<1>10. OfClient(HelloRecords(c.run + 1, c.tx))
  <2>1. PICK k : k = c.run + 1
    OBVIOUS
  <2>2. PICK n : n = c.tx
    OBVIOUS
  <2>3. PICK x : x = Handshake(Message("client_hello", k, ""), n)
    OBVIOUS
  <2>4. k \in Nat \ {0} /\ n \in Nat
    BY <1>6, <2>1, <2>2
  <2>5. OfClient(x)
    BY <2>3, <2>4, HandshakeIs
  <2>6. HelloRecords(c.run + 1, c.tx) = x
    BY <2>1, <2>2, <2>3 DEF HelloRecords
  <2>7. QED  BY <2>5, <2>6, Zenon
<1>11. IsTunnel(d) /\ Agrees(d) /\ KeptAll(e, d) /\ d.out = e.out \o HelloRecords(c.run + 1, c.tx)
  <2>1. PICK x : x = HelloRecords(c.run + 1, c.tx)
    OBVIOUS
  <2>2. OfClient(x) /\ d = Sent(e, x)
    BY <1>9, <1>10, <2>1, Zenon
  <2>3. IsTunnel(d) /\ (Agrees(e) => Agrees(d)) /\ KeptAll(e, d) /\ d.out = e.out \o x
    BY <1>5, <1>8, <2>2, SentIs
  <2>4. QED  BY <1>5, <2>1, <2>3, Zenon
<1>12. /\ d.state = "Client_Hello" /\ d.run = c.run + 1 /\ d.cipher = c.cipher
       /\ d.certs = c.certs /\ d.rx = c.rx /\ d.stale = c.stale
  BY <1>1, <1>2, <1>5, <1>8, <1>11 DEF Kept, KeptAll, Left
<1>13. QED  BY <1>8, <1>11, <1>12 DEF KeptAll

-----------------------------------------------------------------------------
(* What a message does to a tunnel *)

Same(c, d) == d.run = c.run /\ d.certs = c.certs /\ d.cipher = c.cipher /\ d.out = c.out

Asked(c, d) ==
    /\ c.state = "Active" /\ d.state = "Client_Hello" /\ d.run = c.run + 1
    /\ d.cipher = c.cipher /\ d.certs = c.certs
    /\ d.out = c.out \o HelloRecords(d.run, c.tx)

Greeted(c, d, m) ==
    /\ m.type = "server_hello" /\ ~m.value.extension
    /\ c.state \in {"Client_Hello", "Server_Hello"} /\ d.state = "Server_Hello"
    /\ d.cipher = m.value.suite
    /\ d.run = c.run /\ d.certs = c.certs /\ d.out = c.out

Shown(c, d, m) ==
    /\ m.type = "certificate" /\ m.value # "bad"
    /\ c.state \in {"Server_Hello", "Server_Certificate"} /\ d.state = "Server_Certificate"
    /\ d.run = c.run /\ d.cipher = c.cipher /\ d.out = c.out

Keyed(c, d, m) ==
    /\ m.type = "server_key_exchange"
    /\ c.state \in {"Server_Hello", "Server_Certificate", "Server_Key_Exchange"}
    /\ d.state = "Server_Key_Exchange"
    /\ Same(c, d)

\* What y has more than x holds no hello.
More(x, y) ==
    /\ Len(x) \in Nat /\ Len(y) \in Nat /\ Len(x) <= Len(y)
    /\ \A i \in 1 .. Len(x) : y[i] = x[i]
    /\ \A i \in Len(x) + 1 .. Len(y) : ~IsHello(y[i])

Answered(c, d, m) ==
    /\ m.type = "server_hello_done"
    /\ c.state \in {"Server_Hello", "Server_Certificate", "Server_Key_Exchange"}
    /\ d.state = "Client_Finished" /\ d.tx = c.run
    /\ NeedsCertificate(c.cipher) => c.certs # 0
    /\ d.run = c.run /\ d.certs = c.certs /\ d.cipher = c.cipher
    /\ More(c.out, d.out)

Believed(c, d, m) ==
    /\ m.type = "finished" /\ m.value = c.log
    /\ c.state = "Server_Send_Change_Cipher_Spec" /\ d.state = "Active"
    /\ d.log = c.log /\ d.tx = c.tx
    /\ Same(c, d)

Moves(c, d, m) ==
    \/ Dead(d)
    \/ d = c
    \/ /\ d.live /\ d.rx = c.rx
       /\ \/ Asked(c, d) /\ m.type = "hello_request"
          \/ Greeted(c, d, m) \/ Shown(c, d, m) \/ Keyed(c, d, m)
          \/ Answered(c, d, m) \/ Believed(c, d, m)

Handles(c, d, m) == ClientOK(d) /\ d.stale = c.stale /\ Moves(c, d, m)

\* A handler that fails.
LEMMA FailureHandles ==
    ASSUME NEW c, NEW a, IsTunnel(a), Agrees(a), a.stale = c.stale, NEW m,
           NEW d, d = Failed(a)
    PROVE  Handles(c, d, m) /\ Dead(d)
<1>1. Dead(d) /\ d.stale = a.stale
  BY FailedIs
<1>2. QED  BY <1>1, DeadIsOK DEF Handles, Moves

LEMMA HelloRequestHandled ==
    ASSUME NEW c, ClientOK(c), c.live, NEW m, m.type = "hello_request",
           NEW d, d = HandleHelloRequest(c)
    PROVE  Handles(c, d, m)
<1>1. CASE c.state # "Active"
  BY <1>1 DEF HandleHelloRequest, Handles, Moves
<1>2. CASE c.state = "Active"
  <2>a. PICK a : a = Entered(c, "Hello_Request")
    OBVIOUS
  <2>1. IsTunnel(a) /\ Kept(c, a) /\ a.state = "Hello_Request"
    <3>1. "Hello_Request" \in AllStates
      BY DEF AllStates
    <3>2. QED  BY <2>a, <3>1, EnteredIs DEF ClientOK
  <2>2. a.live /\ a.state # "Client_Hello"
    BY <2>1 DEF Kept
  <2>3. d = SendClientHello(a)
    BY <1>2, <2>a DEF HandleHelloRequest
  <2>4. /\ IsTunnel(d) /\ Agrees(d) /\ d.live /\ d.state = "Client_Hello"
        /\ d.run = a.run + 1 /\ d.cipher = a.cipher /\ d.certs = a.certs
        /\ d.rx = a.rx /\ d.stale = a.stale
        /\ d.out = a.out \o HelloRecords(a.run + 1, a.tx)
    BY <2>1, <2>2, <2>3, HelloSent
  <2>5. Asked(c, d) /\ d.rx = c.rx /\ d.stale = c.stale
    BY <1>2, <2>1, <2>4 DEF Kept, Asked
  <2>6. ClientOK(d)
    BY <2>4 DEF ClientOK, States
  <2>7. QED  BY <2>4, <2>5, <2>6 DEF Handles, Moves
<1>3. QED  BY <1>1, <1>2

\* A step within a handler: a tunnel that is live goes on to another state.
LEMMA Enters ==
    ASSUME NEW c, IsTunnel(c), Agrees(c), c.live, NEW state \in AllStates,
           NEW d, d = Entered(c, state)
    PROVE  IsTunnel(d) /\ Agrees(d) /\ d.live /\ d.state = state /\ Kept(c, d)
<1>1. IsTunnel(d) /\ Agrees(d) /\ d.state = state /\ Kept(c, d)
  BY EnteredIs
<1>2. QED  BY <1>1 DEF Kept

\* A state that a tunnel is in when it waits may only be entered from others.
LEMMA MayEnterIs ==
    ASSUME NEW c, c.state \in States
    PROVE  /\ MayEnter(c, "Server_Hello") => c.state \in {"Client_Hello", "Server_Hello"}
           /\ MayEnter(c, "Server_Certificate") =>
                 c.state \in {"Server_Hello", "Server_Certificate"}
           /\ MayEnter(c, "Server_Key_Exchange") =>
                 c.state \in {"Server_Hello", "Server_Certificate", "Server_Key_Exchange"}
           /\ MayEnter(c, "Server_Hello_Done") =>
                 c.state \in {"Server_Hello", "Server_Certificate", "Server_Key_Exchange"}
           /\ MayEnter(c, "Server_Send_Change_Cipher_Spec") =>
                 c.state \in {"Client_Finished", "Server_Send_Change_Cipher_Spec"}
           /\ MayEnter(c, "Server_Finished") => c.state = "Server_Send_Change_Cipher_Spec"
<1>1. /\ Before("Server_Hello") = {"Client_Hello"}
      /\ Before("Server_Certificate") = {"Server_Hello"}
      /\ Before("Server_Key_Exchange") = {"Server_Certificate", "Server_Hello"}
      /\ Before("Server_Hello_Done") =
            {"Server_Key_Exchange", "Server_Certificate", "Server_Hello"}
      /\ Before("Server_Send_Change_Cipher_Spec") = {"Client_Finished"}
      /\ Before("Server_Finished") = {"Server_Send_Change_Cipher_Spec"}
  BY DEF Before
<1>2. QED  BY <1>1 DEF MayEnter, States

LEMMA ServerHelloHandled ==
    ASSUME NEW c, ClientOK(c), c.live, NEW m, m.type = "server_hello", m.value.suite \in Suites,
           NEW d, d = HandleServerHello(c, m)
    PROVE  Handles(c, d, m)
<1>1. CASE ~MayEnter(c, "Server_Hello")
  BY <1>1, FailureHandles DEF ClientOK, HandleServerHello
<1>2. CASE MayEnter(c, "Server_Hello")
  <2>a. PICK a : a = Entered(c, "Server_Hello")
    OBVIOUS
  <2>e. PICK e : e = IF m.value.extension THEN Failed(a) ELSE a
    OBVIOUS
  <2>b. PICK b : b = [e EXCEPT !.cipher = m.value.suite, !.ok = TRUE]
    OBVIOUS
  <2>1. d = Logged(b, m)
    BY <1>2, <2>a, <2>e, <2>b DEF HandleServerHello
  <2>2. IsTunnel(a) /\ Agrees(a) /\ a.live /\ a.state = "Server_Hello" /\ Kept(c, a)
    <3>1. "Server_Hello" \in AllStates
      BY DEF AllStates, Handshaking
    <3>2. QED  BY <2>a, <3>1, Enters DEF ClientOK
  <2>3. /\ IsTunnel(e) /\ Agrees(e) /\ e.stale = c.stale
        /\ m.value.extension => Dead(e)
        /\ ~m.value.extension => e = a
    <3>1. CASE m.value.extension
      <4>1. e = Failed(a)
        BY <2>e, <3>1
      <4>2. Dead(e) /\ e.stale = a.stale
        BY <2>2, <4>1, FailedIs
      <4>3. QED  BY <2>2, <3>1, <4>2 DEF Dead, Kept
    <3>2. CASE ~m.value.extension
      BY <2>e, <2>2, <3>2 DEF Kept
    <3>3. QED  BY <3>1, <3>2
  <2>4. /\ IsTunnel(b) /\ Agrees(b) /\ b.live = e.live /\ b.state = e.state
        /\ b.cipher = m.value.suite /\ b.run = e.run /\ b.certs = e.certs /\ b.rx = e.rx
        /\ b.out = e.out /\ b.stale = e.stale
    <3>1. PICK s \in Ciphers : s = m.value.suite
      BY DEF Ciphers
    <3>2. b = [e EXCEPT !.cipher = s, !.ok = TRUE]
      BY <2>b, <3>1, Zenon
    <3>3. /\ b.live = e.live /\ b.state = e.state /\ b.cipher = s /\ b.run = e.run
          /\ b.certs = e.certs /\ b.rx = e.rx /\ b.out = e.out /\ b.stale = e.stale
          /\ b.log = e.log /\ b.buffered = e.buffered /\ b.transport = e.transport
          /\ b.session = e.session
      BY <2>3, <3>2 DEF IsTunnel, Tunnels
    <3>4. b \in Tunnels(e.log, e.buffered, e.out)
      BY <2>3, <3>2 DEF IsTunnel, Tunnels
    <3>5. IsTunnel(b)
      BY <2>3, <3>3, <3>4 DEF IsTunnel
    <3>6. Agrees(b)
      BY <2>3, <3>3 DEF Agrees
    <3>7. QED  BY <3>1, <3>3, <3>5, <3>6
  <2>5. /\ IsTunnel(d) /\ Agrees(d) /\ Left(b, d)
        /\ d.state = b.state /\ d.live = b.live /\ d.cipher = b.cipher /\ d.certs = b.certs
        /\ d.rx = b.rx
    BY <2>1, <2>4, LoggedIs
  <2>6. d.stale = c.stale
    BY <2>3, <2>4, <2>5 DEF Left
  <2>7. CASE m.value.extension
    <3>1. Dead(d)
      BY <2>3, <2>4, <2>5, <2>7 DEF Dead
    <3>2. QED  BY <2>6, <3>1, DeadIsOK DEF Handles, Moves
  <2>8. CASE ~m.value.extension
    <3>1. d.live /\ d.rx = c.rx /\ d.state = "Server_Hello"
      BY <2>2, <2>3, <2>4, <2>5, <2>8 DEF Kept
    <3>2. c.state \in {"Client_Hello", "Server_Hello"}
      BY <1>2, MayEnterIs DEF ClientOK
    <3>3. d.cipher = m.value.suite /\ d.run = c.run /\ d.certs = c.certs /\ d.out = c.out
      BY <2>2, <2>3, <2>4, <2>5, <2>8 DEF Kept, Left
    <3>4. Greeted(c, d, m)
      BY <2>8, <3>1, <3>2, <3>3 DEF Greeted
    <3>5. ClientOK(d)
      BY <2>5, <3>1 DEF ClientOK, States
    <3>6. QED  BY <2>6, <3>1, <3>4, <3>5 DEF Handles, Moves
  <2>9. QED  BY <2>7, <2>8
<1>3. QED  BY <1>1, <1>2

LEMMA CertificateHandled ==
    ASSUME NEW c, ClientOK(c), c.live, NEW m, m.type = "certificate",
           NEW d, d = HandleServerCertificate(c, m)
    PROVE  Handles(c, d, m)
<1>a. PICK a : a = Logged(c, m)
  OBVIOUS
<1>1. /\ IsTunnel(a) /\ Agrees(a) /\ Left(c, a)
      /\ a.state = c.state /\ a.live /\ a.cipher = c.cipher /\ a.rx = c.rx
  BY <1>a, LoggedIs DEF ClientOK
<1>2. CASE ~MayEnter(c, "Server_Certificate")
  <2>1. d = Failed(a)
    BY <1>a, <1>2 DEF HandleServerCertificate
  <2>2. QED  BY <1>1, <2>1, FailureHandles DEF Left
<1>3. CASE MayEnter(c, "Server_Certificate")
  <2>b. PICK b : b = Entered(a, "Server_Certificate")
    OBVIOUS
  <2>e. PICK e : e = [b EXCEPT !.certs = 1]
    OBVIOUS
  <2>1. d = IF m.value = "bad" THEN Failed(e) ELSE e
    BY <1>3, <1>a, <2>b, <2>e DEF HandleServerCertificate
  <2>2. IsTunnel(b) /\ Agrees(b) /\ b.live /\ b.state = "Server_Certificate" /\ Kept(a, b)
    <3>1. "Server_Certificate" \in AllStates
      BY DEF AllStates, Handshaking
    <3>2. QED  BY <1>1, <2>b, <3>1, Enters
  <2>3. /\ e.live = b.live /\ e.state = b.state /\ e.cipher = b.cipher /\ e.run = b.run
        /\ e.rx = b.rx /\ e.out = b.out /\ e.stale = b.stale
        /\ e.log = b.log /\ e.buffered = b.buffered /\ e.transport = b.transport
        /\ e.session = b.session
    BY <2>2, <2>e DEF IsTunnel, Tunnels
  <2>4. e \in Tunnels(b.log, b.buffered, b.out)
    BY <2>2, <2>e DEF IsTunnel, Tunnels
  <2>5. IsTunnel(e) /\ Agrees(e) /\ e.stale = c.stale
    <3>1. IsTunnel(e)
      BY <2>2, <2>3, <2>4 DEF IsTunnel
    <3>2. Agrees(e)
      BY <2>2, <2>3 DEF Agrees
    <3>3. e.stale = c.stale
      BY <1>1, <2>2, <2>3 DEF Left, Kept
    <3>4. QED  BY <3>1, <3>2, <3>3
  <2>6. CASE m.value = "bad"
    BY <2>1, <2>5, <2>6, FailureHandles
  <2>7. CASE m.value # "bad"
    <3>1. d = e
      BY <2>1, <2>7
    <3>2. d.live /\ d.rx = c.rx /\ d.state = "Server_Certificate"
      BY <1>1, <2>2, <2>3, <3>1 DEF Kept
    <3>3. c.state \in {"Server_Hello", "Server_Certificate"}
      BY <1>3, MayEnterIs DEF ClientOK
    <3>4. d.run = c.run /\ d.cipher = c.cipher /\ d.out = c.out
      BY <1>1, <2>2, <2>3, <3>1 DEF Left, Kept
    <3>5. Shown(c, d, m)
      BY <2>7, <3>2, <3>3, <3>4 DEF Shown
    <3>6. ClientOK(d)
      BY <2>5, <3>1, <3>2 DEF ClientOK, States
    <3>7. QED  BY <2>5, <3>1, <3>2, <3>5, <3>6 DEF Handles, Moves
  <2>8. QED  BY <2>6, <2>7
<1>4. QED  BY <1>2, <1>3

LEMMA KeyExchangeHandled ==
    ASSUME NEW c, ClientOK(c), c.live, NEW m, m.type = "server_key_exchange",
           NEW d, d = HandleServerKeyExchange(c, m)
    PROVE  Handles(c, d, m)
<1>a. PICK a : a = Logged(c, m)
  OBVIOUS
<1>1. /\ IsTunnel(a) /\ Agrees(a) /\ Left(c, a) /\ a.certs = c.certs
      /\ a.state = c.state /\ a.live /\ a.cipher = c.cipher /\ a.rx = c.rx
  BY <1>a, LoggedIs DEF ClientOK
<1>2. \/ d = Failed(a)
      \/ MayEnter(a, "Server_Key_Exchange") /\ d = Entered(a, "Server_Key_Exchange")
  BY <1>a DEF HandleServerKeyExchange
<1>3. CASE d = Failed(a)
  BY <1>1, <1>3, FailureHandles DEF Left
<1>4. CASE MayEnter(a, "Server_Key_Exchange") /\ d = Entered(a, "Server_Key_Exchange")
  <2>1. IsTunnel(d) /\ Agrees(d) /\ d.live /\ d.state = "Server_Key_Exchange" /\ Kept(a, d)
    <3>1. "Server_Key_Exchange" \in AllStates
      BY DEF AllStates, Handshaking
    <3>2. QED  BY <1>1, <1>4, <3>1, Enters
  <2>2. c.state \in {"Server_Hello", "Server_Certificate", "Server_Key_Exchange"}
    <3>1. MayEnter(c, "Server_Key_Exchange")
      BY <1>1, <1>4 DEF MayEnter
    <3>2. QED  BY <3>1, MayEnterIs DEF ClientOK
  <2>3. Same(c, d) /\ d.rx = c.rx /\ d.stale = c.stale
    BY <1>1, <2>1 DEF Same, Left, Kept
  <2>4. Keyed(c, d, m)
    BY <2>1, <2>2, <2>3 DEF Keyed
  <2>5. ClientOK(d)
    BY <2>1 DEF ClientOK, States
  <2>6. QED  BY <2>1, <2>3, <2>4, <2>5 DEF Handles, Moves
<1>5. QED  BY <1>2, <1>3, <1>4

LEMMA FinishedHandled ==
    ASSUME NEW c, ClientOK(c), c.live, NEW m, m.type = "finished",
           NEW d, d = HandleServerFinished(c, m)
    PROVE  Handles(c, d, m)
<1>1. CASE ~MayEnter(c, "Server_Finished")
  BY <1>1, FailureHandles DEF ClientOK, HandleServerFinished
<1>2. CASE MayEnter(c, "Server_Finished")
  <2>a. PICK a : a = Entered(c, "Server_Finished")
    OBVIOUS
  <2>1. d = IF m.value # a.log THEN Failed(a) ELSE Entered(a, "Active")
    BY <1>2, <2>a DEF HandleServerFinished
  <2>2. IsTunnel(a) /\ Agrees(a) /\ a.live /\ a.state = "Server_Finished" /\ Kept(c, a)
    <3>1. "Server_Finished" \in AllStates
      BY DEF AllStates, Handshaking
    <3>2. QED  BY <2>a, <3>1, Enters DEF ClientOK
  <2>3. CASE m.value # a.log
    BY <2>1, <2>2, <2>3, FailureHandles DEF Kept
  <2>4. CASE m.value = a.log
    <3>1. IsTunnel(d) /\ Agrees(d) /\ d.live /\ d.state = "Active" /\ Kept(a, d)
      <4>1. "Active" \in AllStates /\ d = Entered(a, "Active")
        BY <2>1, <2>4 DEF AllStates
      <4>2. QED  BY <2>2, <4>1, Enters
    <3>2. c.state = "Server_Send_Change_Cipher_Spec"
      BY <1>2, MayEnterIs DEF ClientOK
    <3>3. Same(c, d) /\ d.rx = c.rx /\ d.tx = c.tx /\ d.stale = c.stale /\ d.log = c.log
      BY <2>2, <3>1 DEF Same, Kept
    <3>4. Believed(c, d, m)
      BY <2>2, <2>4, <3>1, <3>2, <3>3 DEF Believed, Kept
    <3>5. ClientOK(d)
      BY <3>1 DEF ClientOK, States
    <3>6. QED  BY <3>1, <3>3, <3>4, <3>5 DEF Handles, Moves
  <2>5. QED  BY <2>3, <2>4
<1>3. QED  BY <1>1, <1>2

-----------------------------------------------------------------------------
(* The answer to the server's last message of its flight *)

LEMMA MoreSelf ==
    ASSUME NEW x, OfClient(x)
    PROVE  More(x, x)
BY DEF OfClient, IsSeq, More

LEMMA MoreConcat ==
    ASSUME NEW x, NEW y, OfClient(x), OfClient(y), \A i \in 1 .. Len(y) : ~IsHello(y[i])
    PROVE  More(x, x \o y)
<1>1. /\ Len(x) \in Nat /\ Len(y) \in Nat /\ Len(x \o y) = Len(x) + Len(y)
      /\ \A i \in 1 .. Len(x) : (x \o y)[i] = x[i]
      /\ \A i \in Len(x) + 1 .. Len(x) + Len(y) : (x \o y)[i] = y[i - Len(x)]
  BY ConcatIs DEF OfClient
<1>2. ASSUME NEW i \in Len(x) + 1 .. Len(x) + Len(y) PROVE i - Len(x) \in 1 .. Len(y)
  BY <1>1
<1>3. QED  BY <1>1, <1>2 DEF More

LEMMA MoreTrans ==
    ASSUME NEW x, NEW y, NEW z, More(x, y), More(y, z)
    PROVE  More(x, z)
<1>1. /\ Len(x) \in Nat /\ Len(y) \in Nat /\ Len(z) \in Nat /\ Len(x) <= Len(y) /\ Len(y) <= Len(z)
  BY DEF More
<1>2. ASSUME NEW i \in 1 .. Len(x) PROVE z[i] = x[i]
  <2>1. i \in 1 .. Len(y)
    BY <1>1
  <2>2. QED  BY <1>2, <2>1 DEF More
<1>3. ASSUME NEW i \in Len(x) + 1 .. Len(z) PROVE ~IsHello(z[i])
  <2>1. CASE i <= Len(y)
    <3>1. i \in 1 .. Len(y) /\ i \in Len(x) + 1 .. Len(y)
      BY <1>1, <2>1
    <3>2. z[i] = y[i] /\ ~IsHello(y[i])
      BY <3>1 DEF More
    <3>3. QED  BY <3>2
  <2>2. CASE i > Len(y)
    <3>1. i \in Len(y) + 1 .. Len(z)
      BY <1>1, <2>2
    <3>2. QED  BY <3>1 DEF More
  <2>3. QED  BY <1>1, <2>1, <2>2
<1>4. QED  BY <1>1, <1>2, <1>3 DEF More

\* A step of an answer: nothing is settled anew, and no hello is sent.
Goes(c, d) ==
    /\ IsTunnel(d) /\ Agrees(d) /\ d.live
    /\ d.run = c.run /\ d.certs = c.certs /\ d.cipher = c.cipher
    /\ d.rx = c.rx /\ d.stale = c.stale
    /\ More(c.out, d.out)

LEMMA GoesTrans ==
    ASSUME NEW c, NEW d, NEW e, Goes(c, d), Goes(d, e)
    PROVE  Goes(c, e)
<1>1. More(c.out, e.out)
  BY MoreTrans DEF Goes
<1>2. QED  BY <1>1 DEF Goes

LEMMA GoesOn ==
    ASSUME NEW c, IsTunnel(c), Agrees(c), c.live
    PROVE  /\ Goes(c, c)
           /\ \A state \in AllStates :
                 LET d == Entered(c, state)
                 IN Goes(c, d) /\ d.state = state /\ d.tx = c.tx
           /\ \A m : LET d == Logged(c, m)
                     IN Goes(c, d) /\ d.state = c.state /\ d.tx = c.tx
           /\ \A x : OfClient(x) /\ (\A i \in 1 .. Len(x) : ~IsHello(x[i])) =>
                 LET d == Sent(c, x)
                 IN Goes(c, d) /\ d.state = c.state /\ d.tx = c.tx
<1>1. OfClient(c.out) /\ More(c.out, c.out)
  BY MoreSelf DEF IsTunnel
<1>2. Goes(c, c)
  BY <1>1 DEF Goes
<1>3. ASSUME NEW state \in AllStates, NEW d, d = Entered(c, state)
      PROVE  Goes(c, d) /\ d.state = state /\ d.tx = c.tx
  <2>1. IsTunnel(d) /\ Agrees(d) /\ d.live /\ d.state = state /\ Kept(c, d)
    BY <1>3, Enters
  <2>2. QED  BY <1>1, <2>1 DEF Goes, Kept
<1>4. ASSUME NEW m, NEW d, d = Logged(c, m)
      PROVE  Goes(c, d) /\ d.state = c.state /\ d.tx = c.tx
  <2>0. LoggedKeeps(c, d)
    BY <1>4, LoggedAny, Zenon
  <2>1. /\ IsTunnel(d) /\ Agrees(d) /\ Left(c, d)
        /\ d.state = c.state /\ d.live = c.live /\ d.cipher = c.cipher /\ d.certs = c.certs
        /\ d.rx = c.rx /\ d.tx = c.tx
    BY <2>0 DEF LoggedKeeps
  <2>2. QED  BY <1>1, <2>1 DEF Goes, Left
<1>5. ASSUME NEW x, OfClient(x), \A i \in 1 .. Len(x) : ~IsHello(x[i]), NEW d, d = Sent(c, x)
      PROVE  Goes(c, d) /\ d.state = c.state /\ d.tx = c.tx
  <2>1. IsTunnel(d) /\ KeptAll(c, d) /\ d.out = c.out \o x /\ Agrees(d)
    BY <1>5, SentIs
  <2>2. More(c.out, c.out \o x)
    BY <1>1, <1>5, MoreConcat
  <2>3. More(c.out, d.out)
    BY <2>1, <2>2, Zenon
  <2>4. QED  BY <2>1, <2>3 DEF Goes, KeptAll
<1>6. QED  BY <1>2, <1>3, <1>4, <1>5

LEMMA PendingGoes ==
    ASSUME NEW c, IsTunnel(c), Agrees(c), c.live, NEW d, d = [c EXCEPT !.pending = TRUE]
    PROVE  Goes(c, d) /\ d.state = c.state /\ d.tx = c.tx
<1>1. /\ d.live = c.live /\ d.state = c.state /\ d.cipher = c.cipher /\ d.run = c.run
      /\ d.certs = c.certs /\ d.rx = c.rx /\ d.tx = c.tx /\ d.out = c.out /\ d.stale = c.stale
      /\ d.log = c.log /\ d.buffered = c.buffered /\ d.transport = c.transport
      /\ d.session = c.session
  BY DEF IsTunnel, Tunnels
<1>2. d \in Tunnels(c.log, c.buffered, c.out)
  BY DEF IsTunnel, Tunnels
<1>3. IsTunnel(d)
  BY <1>1, <1>2 DEF IsTunnel
<1>4. Agrees(d)
  BY <1>1 DEF Agrees
<1>5. More(c.out, d.out)
  BY <1>1, MoreSelf DEF IsTunnel
<1>6. QED  BY <1>1, <1>3, <1>4, <1>5 DEF Goes

LEMMA NewKeyGoes ==
    ASSUME NEW c, IsTunnel(c), Agrees(c), c.live, NEW k \in Nat, NEW d, d = [c EXCEPT !.tx = k]
    PROVE  Goes(c, d) /\ d.state = c.state /\ d.tx = k
<1>1. /\ d.live = c.live /\ d.state = c.state /\ d.cipher = c.cipher /\ d.run = c.run
      /\ d.certs = c.certs /\ d.rx = c.rx /\ d.tx = k /\ d.out = c.out /\ d.stale = c.stale
      /\ d.log = c.log /\ d.buffered = c.buffered /\ d.transport = c.transport
      /\ d.session = c.session
  BY DEF IsTunnel, Tunnels
<1>2. d \in Tunnels(c.log, c.buffered, c.out)
  BY DEF IsTunnel, Tunnels
<1>3. IsTunnel(d)
  BY <1>1, <1>2 DEF IsTunnel
<1>4. Agrees(d)
  BY <1>1 DEF Agrees
<1>5. More(c.out, d.out)
  BY <1>1, MoreSelf DEF IsTunnel
<1>6. QED  BY <1>1, <1>3, <1>4, <1>5 DEF Goes

\* A message of the client's answer holds no hello.
LEMMA AnswerParts ==
    ASSUME NEW type \in {"client_key_exchange", "finished"}, NEW run \in Nat \ {0}, NEW value,
           NEW key \in Nat, NEW x, x = Handshake(Message(type, run, value), key)
    PROVE  OfClient(x) /\ \A i \in 1 .. Len(x) : ~IsHello(x[i])
<1>1. /\ OfClient(x) /\ Len(x) = 2
      /\ \A i \in 1 .. 2 : x[i].value = Message(type, run, value)
  BY HandshakeIs
<1>2. Message(type, run, value).type = type
  BY DEF Message
<1>3. QED  BY <1>1, <1>2 DEF IsHello, IsMessage

LEMMA AnswerSent ==
    ASSUME NEW c, IsTunnel(c), Agrees(c), c.live, NEW d, d = SendKeyAndFinished(c)
    PROVE  Goes(c, d) /\ d.state = "Client_Finished" /\ d.tx = c.run
<1>st. {"Client_Key_Exchange", "Client_Send_Change_Cipher_Spec", "Client_Finished"} \subseteq AllStates
  BY DEF AllStates, Handshaking
<1>ty. c.tx \in Nat /\ c.run \in Nat \ {0} /\ c.run \in Nat
  BY DEF IsTunnel, Tunnels, Agrees
<1>g. ASSUME NEW x, NEW y, Goes(x, y) PROVE IsTunnel(y) /\ Agrees(y) /\ y.live
  BY <1>g DEF Goes
<1>k. PICK key : key = Message("client_key_exchange", c.run, "")
  OBVIOUS
<1>k1. PICK keys : keys = Handshake(key, c.tx)
  OBVIOUS
<1>k2. OfClient(keys) /\ \A i \in 1 .. Len(keys) : ~IsHello(keys[i])
  BY <1>k, <1>k1, <1>ty, AnswerParts
<1>a1. PICK a1 : a1 = Entered(c, "Client_Key_Exchange")
  OBVIOUS
<1>1. Goes(c, a1) /\ a1.tx = c.tx
  BY <1>a1, <1>st, GoesOn
<1>a2. PICK a2 : a2 = Logged(a1, key)
  OBVIOUS
<1>2. Goes(c, a2) /\ a2.tx = c.tx
  <2>1. Goes(a1, a2) /\ a2.tx = a1.tx
    BY <1>a2, <1>1, <1>g, GoesOn
  <2>2. QED  BY <1>1, <2>1, GoesTrans
<1>a3. PICK a3 : a3 = Sent(a2, keys)
  OBVIOUS
<1>3. Goes(c, a3) /\ a3.tx = c.tx
  <2>1. Goes(a2, a3) /\ a3.tx = a2.tx
    BY <1>a3, <1>2, <1>g, <1>k2, GoesOn
  <2>2. QED  BY <1>2, <2>1, GoesTrans
<1>b1. PICK b1 : b1 = [a3 EXCEPT !.pending = TRUE]
  OBVIOUS
<1>4. Goes(c, b1)
  <2>1. Goes(a3, b1)
    BY <1>b1, <1>3, <1>g, PendingGoes
  <2>2. QED  BY <1>3, <2>1, GoesTrans
<1>b2. PICK b2 : b2 = Entered(b1, "Client_Send_Change_Cipher_Spec")
  OBVIOUS
<1>5. Goes(c, b2)
  <2>1. Goes(b1, b2)
    BY <1>b2, <1>st, <1>4, <1>g, GoesOn
  <2>2. QED  BY <1>4, <2>1, GoesTrans
<1>cc. PICK ccs : ccs = ChangeCipherSpec(a3.tx)
  OBVIOUS
<1>c2. OfClient(ccs) /\ \A i \in 1 .. Len(ccs) : ~IsHello(ccs[i])
  <2>1. OfClient(ccs) /\ Len(ccs) = 1 /\ ~IsHello(ccs[1])
    BY <1>cc, <1>3, <1>ty, SendsAre
  <2>2. QED  BY <2>1
<1>e. PICK e : e = Sent(b2, ccs)
  OBVIOUS
<1>6. Goes(c, e)
  <2>1. Goes(b2, e)
    BY <1>e, <1>5, <1>g, <1>c2, GoesOn
  <2>2. QED  BY <1>5, <2>1, GoesTrans
<1>f. PICK finished : finished = Message("finished", c.run, e.log)
  OBVIOUS
<1>f0. PICK last : last = Handshake(finished, c.run)
  OBVIOUS
<1>f1. OfClient(last) /\ \A i \in 1 .. Len(last) : ~IsHello(last[i])
  BY <1>f, <1>f0, <1>ty, AnswerParts
<1>f2. PICK f1 : f1 = [e EXCEPT !.tx = c.run]
  OBVIOUS
<1>7. Goes(c, f1) /\ f1.tx = c.run
  <2>1. Goes(e, f1) /\ f1.tx = c.run
    BY <1>f2, <1>ty, <1>6, <1>g, NewKeyGoes
  <2>2. QED  BY <1>6, <2>1, GoesTrans
<1>f3. PICK f2 : f2 = Entered(f1, "Client_Finished")
  OBVIOUS
<1>8. Goes(c, f2) /\ f2.tx = c.run /\ f2.state = "Client_Finished"
  <2>1. Goes(f1, f2) /\ f2.tx = f1.tx /\ f2.state = "Client_Finished"
    <3>1. IsTunnel(f1) /\ Agrees(f1) /\ f1.live /\ "Client_Finished" \in AllStates
      BY <1>st, <1>7, <1>g
    <3>2. QED  BY <1>f3, <3>1, GoesOn
  <2>2. QED  BY <1>7, <2>1, GoesTrans
<1>f4. PICK f3 : f3 = Logged(f2, finished)
  OBVIOUS
<1>9. Goes(c, f3) /\ f3.tx = c.run /\ f3.state = "Client_Finished"
  <2>1. Goes(f2, f3) /\ f3.tx = f2.tx /\ f3.state = f2.state
    BY <1>f4, <1>8, <1>g, GoesOn
  <2>2. QED  BY <1>8, <2>1, GoesTrans
<1>10. d = Sent(f3, last)
  BY <1>k, <1>k1, <1>a1, <1>a2, <1>a3, <1>b1, <1>b2, <1>cc, <1>e, <1>f, <1>f0, <1>f2, <1>f3, <1>f4
     DEF SendKeyAndFinished
<1>11. Goes(f3, d) /\ d.tx = f3.tx /\ d.state = f3.state
  BY <1>10, <1>9, <1>g, <1>f1, GoesOn
<1>12. QED  BY <1>9, <1>11, GoesTrans

LEMMA HelloDoneHandled ==
    ASSUME NEW c, ClientOK(c), c.live, NEW m, m.type = "server_hello_done",
           NEW d, d = HandleServerHelloDone(c, m)
    PROVE  Handles(c, d, m)
<1>1. \/ d = Failed(c)
      \/ /\ MayEnter(c, "Server_Hello_Done") /\ ~(NeedsCertificate(c.cipher) /\ c.certs = 0)
         /\ d = SendKeyAndFinished(Logged(Entered(c, "Server_Hello_Done"), m))
  BY DEF HandleServerHelloDone
<1>2. CASE d = Failed(c)
  BY <1>2, FailureHandles DEF ClientOK
<1>3. CASE /\ MayEnter(c, "Server_Hello_Done") /\ ~(NeedsCertificate(c.cipher) /\ c.certs = 0)
           /\ d = SendKeyAndFinished(Logged(Entered(c, "Server_Hello_Done"), m))
  <2>a. PICK a : a = Entered(c, "Server_Hello_Done")
    OBVIOUS
  <2>b. PICK b : b = Logged(a, m)
    OBVIOUS
  <2>1. Goes(c, a)
    <3>1. "Server_Hello_Done" \in AllStates
      BY DEF AllStates, Handshaking
    <3>2. QED  BY <2>a, <3>1, GoesOn DEF ClientOK
  <2>2. Goes(a, b)
    BY <2>b, <2>1, GoesOn DEF Goes
  <2>3. Goes(b, d) /\ d.state = "Client_Finished" /\ d.tx = b.run
    BY <1>3, <2>a, <2>b, <2>2, AnswerSent DEF Goes
  <2>4. Goes(c, d)
    BY <2>1, <2>2, <2>3, GoesTrans
  <2>5. c.state \in {"Server_Hello", "Server_Certificate", "Server_Key_Exchange"}
    BY <1>3, MayEnterIs DEF ClientOK
  <2>6. d.tx = c.run
    BY <2>1, <2>2, <2>3 DEF Goes
  <2>7. Answered(c, d, m)
    BY <1>3, <2>3, <2>4, <2>5, <2>6 DEF Answered, Goes
  <2>8. ClientOK(d)
    BY <2>3, <2>4 DEF ClientOK, Goes, States
  <2>9. QED  BY <2>4, <2>7, <2>8 DEF Handles, Moves, Goes
<1>4. QED  BY <1>1, <1>2, <1>3

\* Whatever message comes, a tunnel handles it.
LEMMA MessageHandled ==
    ASSUME NEW c, ClientOK(c), c.live, NEW m, m.type \in ServerTypes,
           m.type = "server_hello" => m.value.suite \in Suites,
           NEW d, d = HandleHandshakeMessage(c, m)
    PROVE  Handles(c, d, m)
<1>1. CASE m.type = "hello_request"
  BY <1>1, HelloRequestHandled DEF HandleHandshakeMessage
<1>2. CASE m.type = "server_hello"
  BY <1>2, ServerHelloHandled DEF HandleHandshakeMessage
<1>3. CASE m.type = "certificate"
  BY <1>3, CertificateHandled DEF HandleHandshakeMessage
<1>4. CASE m.type = "server_key_exchange"
  BY <1>4, KeyExchangeHandled DEF HandleHandshakeMessage
<1>5. CASE m.type = "certificate_request"
  BY <1>5 DEF HandleHandshakeMessage, Handles, Moves
<1>6. CASE m.type = "server_hello_done"
  BY <1>6, HelloDoneHandled DEF HandleHandshakeMessage
<1>7. CASE m.type = "finished"
  BY <1>7, FinishedHandled DEF HandleHandshakeMessage
<1>8. QED  BY <1>1, <1>2, <1>3, <1>4, <1>5, <1>6, <1>7 DEF ServerTypes

\* A tunnel that was stopped stays stopped.
LEMMA DeadStays ==
    ASSUME NEW c, ClientOK(c), ~c.live, NEW m, m.type \in ServerTypes,
           NEW d, d = HandleHandshakeMessage(c, m)
    PROVE  Handles(c, d, m) /\ Dead(d)
<1>1. IsTunnel(c) /\ Agrees(c) /\ c.state = "ProtocolReset" /\ Dead(c)
  BY DEF ClientOK, Agrees, Dead
<1>2. \A state \in {"Server_Hello", "Server_Certificate", "Server_Key_Exchange",
                    "Server_Hello_Done", "Server_Finished"} : ~MayEnter(c, state)
  BY <1>1, MayEnterIs DEF ClientOK
<1>a. PICK a : a = Logged(c, m)
  OBVIOUS
<1>3. IsTunnel(a) /\ Agrees(a) /\ a.stale = c.stale /\ a.state = c.state
  BY <1>a, <1>1, LoggedIs DEF Left
<1>4. ~MayEnter(a, "Server_Key_Exchange")
  BY <1>2, <1>3 DEF MayEnter
<1>5. CASE m.type \in {"hello_request", "certificate_request"}
  <2>1. d = c
    BY <1>1, <1>5 DEF HandleHandshakeMessage, HandleHelloRequest
  <2>2. QED  BY <1>1, <2>1 DEF Handles, Moves
<1>6. CASE m.type \in {"server_hello", "server_hello_done", "finished"}
  <2>1. d = Failed(c)
    BY <1>2, <1>6 DEF HandleHandshakeMessage, HandleServerHello, HandleServerHelloDone,
                      HandleServerFinished
  <2>2. QED  BY <1>1, <2>1, FailureHandles
<1>7. CASE m.type \in {"certificate", "server_key_exchange"}
  <2>1. d = Failed(a)
    BY <1>a, <1>2, <1>4, <1>7 DEF HandleHandshakeMessage, HandleServerCertificate,
                                  HandleServerKeyExchange
  <2>2. QED  BY <1>3, <2>1, FailureHandles
<1>8. QED  BY <1>5, <1>6, <1>7 DEF ServerTypes

\* The server's ChangeCipherSpec.
Switched(c, d) ==
    /\ d.live
    /\ c.state \in {"Client_Finished", "Server_Send_Change_Cipher_Spec"}
    /\ d.state = "Server_Send_Change_Cipher_Spec" /\ d.rx = c.run
    /\ d.tx = c.tx
    /\ Same(c, d)

LEMMA ChangeCipherSpecHandled ==
    ASSUME NEW c, ClientOK(c), c.live, NEW d, d = HandleChangeCipherSpec(c)
    PROVE  ClientOK(d) /\ d.stale = c.stale /\ (Dead(d) \/ Switched(c, d))
<1>1. \/ d = Failed(c)
      \/ /\ MayEnter(c, "Server_Send_Change_Cipher_Spec")
         /\ d = [Entered(c, "Server_Send_Change_Cipher_Spec")
                   EXCEPT !.rx = c.run, !.pending = FALSE]
  BY DEF HandleChangeCipherSpec
<1>2. CASE d = Failed(c)
  BY <1>2, FailedIs, DeadIsOK DEF ClientOK
<1>3. CASE /\ MayEnter(c, "Server_Send_Change_Cipher_Spec")
           /\ d = [Entered(c, "Server_Send_Change_Cipher_Spec")
                     EXCEPT !.rx = c.run, !.pending = FALSE]
  <2>a. PICK a : a = Entered(c, "Server_Send_Change_Cipher_Spec")
    OBVIOUS
  <2>r. PICK r \in Nat : r = c.run
    BY DEF ClientOK, IsTunnel, Tunnels
  <2>1. /\ IsTunnel(a) /\ Agrees(a) /\ a.live /\ Kept(c, a)
        /\ a.state = "Server_Send_Change_Cipher_Spec"
    <3>1. "Server_Send_Change_Cipher_Spec" \in AllStates
      BY DEF AllStates, Handshaking
    <3>2. QED  BY <2>a, <3>1, Enters DEF ClientOK
  <2>2. d = [a EXCEPT !.rx = r, !.pending = FALSE]
    BY <1>3, <2>a, <2>r
  <2>3. /\ d.live = a.live /\ d.state = a.state /\ d.cipher = a.cipher /\ d.run = a.run
        /\ d.certs = a.certs /\ d.rx = r /\ d.tx = a.tx /\ d.out = a.out /\ d.stale = a.stale
        /\ d.log = a.log /\ d.buffered = a.buffered /\ d.transport = a.transport
        /\ d.session = a.session
    BY <2>1, <2>2 DEF IsTunnel, Tunnels
  <2>4. d \in Tunnels(a.log, a.buffered, a.out)
    BY <2>1, <2>2 DEF IsTunnel, Tunnels
  <2>5. IsTunnel(d)
    BY <2>1, <2>3, <2>4 DEF IsTunnel
  <2>6. Agrees(d)
    BY <2>1, <2>3 DEF Agrees
  <2>7. c.state \in {"Client_Finished", "Server_Send_Change_Cipher_Spec"}
    BY <1>3, MayEnterIs DEF ClientOK
  <2>8. Switched(c, d) /\ d.stale = c.stale
    BY <2>r, <2>1, <2>3, <2>7 DEF Switched, Same, Kept
  <2>9. ClientOK(d)
    BY <2>1, <2>3, <2>5, <2>6 DEF ClientOK, States
  <2>10. QED  BY <2>8, <2>9
<1>4. QED  BY <1>1, <1>2, <1>3

LEMMA AlertHandled ==
    ASSUME NEW c, ClientOK(c), NEW what, NEW d, d = HandleAlert(c, what)
    PROVE  Dead(d) /\ d.stale = c.stale
<1>a. PICK a : a = IF what = "close_notify" THEN Sent(c, Alert(what, c.tx)) ELSE c
  OBVIOUS
<1>1. IsTunnel(a) /\ Agrees(a) /\ a.stale = c.stale
  <2>1. CASE what = "close_notify"
    <3>1. c.tx \in Nat
      BY DEF ClientOK, IsTunnel, Tunnels
    <3>2. OfClient(Alert(what, c.tx))
      BY <3>1, SendsAre
    <3>3. a = Sent(c, Alert(what, c.tx))
      BY <1>a, <2>1
    <3>4. IsTunnel(a) /\ KeptAll(c, a) /\ Agrees(a)
      BY <3>2, <3>3, SentIs DEF ClientOK
    <3>5. QED  BY <3>4 DEF KeptAll
  <2>2. CASE what # "close_notify"
    BY <1>a, <2>2 DEF ClientOK
  <2>3. QED  BY <2>1, <2>2
<1>2. d = StopTunnel(a)
  BY <1>a DEF HandleAlert
<1>3. QED  BY <1>1, <1>2, StopTunnelIs DEF Left

-----------------------------------------------------------------------------
(* What a message does to the two ends *)

\* What y has more than x holds at most one hello, of this run.
OneHello(x, y, run) ==
    /\ Len(x) \in Nat /\ Len(y) \in Nat /\ Len(x) <= Len(y)
    /\ \A i \in 1 .. Len(x) : y[i] = x[i]
    /\ \A i \in Len(x) + 1 .. Len(y) :
          IsHello(y[i]) => /\ y[i].value.run = run
                           /\ \A j \in Len(x) + 1 .. Len(y) : IsHello(y[j]) => j = i

\* What is under way from a tunnel that has become d.
Follows(c, d, out, out2) ==
    IF c.state = "Active" /\ d.state = "Client_Hello" THEN OneHello(out, out2, d.run)
    ELSE More(out, out2)

\* y is x without its first n elements.
IsRest(y, x, n) ==
    /\ Len(x) \in Nat /\ n \in 0 .. Len(x) /\ Len(y) = Len(x) - n
    /\ \A i \in 1 .. Len(x) - n : y[i] = x[n + i]

\* A tunnel that does nothing about what it has read.
LEMMA ShiftGood ==
    ASSUME NEW c, NEW in, NEW out, NEW s, NEW open \in BOOLEAN, NEW in2, NEW n,
           IsRest(in2, in, n), Good(c, in, out, s, open)
    PROVE  Good(c, in2, out, s, open) /\ (First(in2, s, open) => First(in, s, open))
<1>1. /\ Len(in) \in Nat /\ n \in 0 .. Len(in) /\ Len(in2) = Len(in) - n
      /\ \A i \in 1 .. Len(in2) : i + n \in 1 .. Len(in) /\ in2[i] = in[i + n]
  <2>1. /\ Len(in) \in Nat /\ n \in 0 .. Len(in) /\ Len(in2) = Len(in) - n
        /\ \A i \in 1 .. Len(in) - n : in2[i] = in[n + i]
    BY DEF IsRest
  <2>2. \A i \in 1 .. Len(in) - n : i + n \in 1 .. Len(in) /\ i + n = n + i
    BY <2>1
  <2>3. QED  BY <2>1, <2>2
<1>2. First(in2, s, open) => First(in, s, open)
  BY <1>1 DEF First
<1>3. FirstOK(c, in2, s, open)
  <2> SUFFICES ASSUME First(in2, s, open)
               PROVE  /\ c.live /\ c.state = "Client_Hello" /\ c.rx = 0
                      /\ \A i \in 1 .. Len(in2) :
                            IsServerHello(in2[i]) /\ in2[i].key = 0 => \A j \in 1 .. i - 1 :
                                in2[j].is = "handshake" /\ in2[j].part = 1 /\ in2[j].key = 0
    BY DEF FirstOK
  <2>1. /\ c.live /\ c.state = "Client_Hello" /\ c.rx = 0
        /\ \A i \in 1 .. Len(in) :
              IsServerHello(in[i]) /\ in[i].key = 0 => \A j \in 1 .. i - 1 :
                  in[j].is = "handshake" /\ in[j].part = 1 /\ in[j].key = 0
    BY <1>2 DEF Good, FirstOK
  <2>2. ASSUME NEW i \in 1 .. Len(in2), IsServerHello(in2[i]), in2[i].key = 0, NEW j \in 1 .. i - 1
        PROVE  in2[j].is = "handshake" /\ in2[j].part = 1 /\ in2[j].key = 0
    <3>1. i + n \in 1 .. Len(in) /\ in2[i] = in[i + n]
      BY <1>1
    <3>2. j \in 1 .. Len(in2) /\ j + n \in 1 .. i + n - 1
      BY <1>1
    <3>3. in2[j] = in[j + n]
      BY <1>1, <3>2
    <3>4. PICK k \in 1 .. Len(in) : k = i + n
      BY <3>1
    <3>5. PICK l \in 1 .. k - 1 : l = j + n
      <4>1. n \in Nat /\ i \in Nat /\ j \in Nat /\ j < i
        BY <1>1
      <4>2. j + n \in 1 .. k - 1
        BY <3>2, <3>4, <4>1
      <4>3. QED  BY <4>2
    <3>6. IsServerHello(in[k]) /\ in[k].key = 0
      <4>1. in2[i] = in[k]
        BY <3>1, <3>4
      <4>2. QED  BY <2>2, <4>1, Zenon
    <3>7. in[l].is = "handshake" /\ in[l].part = 1 /\ in[l].key = 0
      BY <2>1, <3>6, Zenon
    <3>8. QED  BY <3>3, <3>5, <3>7
  <2>3. QED  BY <2>1, <2>2
<1>4. ASSUME Engaged(c, in2, s, open)
      PROVE  Settled(c, s.plan) /\ InStep(c, in2, out, s)
  <2>1. Engaged(c, in, s, open)
    BY <1>2, <1>4 DEF Engaged
  <2>2. Settled(c, s.plan) /\ InStep(c, in, out, s)
    BY <2>1 DEF Good
  <2>3. HellosOK(c, in2, out, s)
    BY <1>1, <2>2 DEF InStep, HellosOK
  <2>4. AnswersOK(c, in2)
    <3>1. ASSUME NEW i \in 1 .. Len(in2), IsServerHello(in2[i])
          PROVE  /\ c.state = "Client_Hello"
                 /\ \A j \in 1 .. Len(in2) : IsServerHello(in2[j]) => j = i
      <4>1. AnswersOK(c, in)
        BY <2>2 DEF InStep
      <4>2. i + n \in 1 .. Len(in) /\ IsServerHello(in[i + n])
        BY <1>1, <3>1
      <4>3. /\ c.state = "Client_Hello"
            /\ \A j \in 1 .. Len(in) : IsServerHello(in[j]) => j = i + n
        BY <4>1, <4>2 DEF AnswersOK
      <4>4. ASSUME NEW j \in 1 .. Len(in2), IsServerHello(in2[j]) PROVE j = i
        <5>1. j + n = i + n
          BY <1>1, <4>3, <4>4
        <5>2. QED  BY <1>1, <5>1
      <4>5. QED  BY <4>3, <4>4
    <3>2. QED  BY <3>1 DEF AnswersOK
  <2>5. FinishedOK(in2, s)
    BY <1>1, <2>2 DEF InStep, FinishedOK
  <2>6. QED  BY <2>2, <2>3, <2>4, <2>5 DEF InStep
<1>5. QED  BY <1>2, <1>3, <1>4 DEF Good

\* A tunnel that has had its server hello: nothing under way starts anything.
NoHellos(x) == \A i \in 1 .. Len(x) : ~IsHello(x[i])
NoServerHellos(x) == \A i \in 1 .. Len(x) : ~IsServerHello(x[i])

LEMMA QuietWires ==
    ASSUME NEW c, NEW in, NEW out, NEW s, NEW open, Good(c, in, out, s, open), c.live,
           c.state \in (Handshaking \union {"Active"}) \ {"Client_Hello"}
    PROVE  /\ Settled(c, s.plan) /\ InStep(c, in, out, s)
           /\ NoHellos(out) /\ NoServerHellos(in) /\ ~First(in, s, open)
<1>1. Engaged(c, in, s, open)
  BY DEF Engaged
<1>2. Settled(c, s.plan) /\ InStep(c, in, out, s)
  BY <1>1 DEF Good
<1>3. NoHellos(out) /\ NoServerHellos(in)
  BY <1>2 DEF InStep, HellosOK, AnswersOK, NoHellos, NoServerHellos
<1>4. ~First(in, s, open)
  BY DEF Good, FirstOK
<1>5. QED  BY <1>2, <1>3, <1>4

LEMMA QuietGood ==
    ASSUME NEW d, NEW in, NEW out, NEW s, NEW open,
           ~First(in, s, open), NoHellos(out), NoServerHellos(in),
           Settled(d, s.plan), s.run <= d.run, FinishedOK(in, s), ActiveOK(d, s)
    PROVE  Good(d, in, out, s, open)
BY DEF Good, FirstOK, InStep, HellosOK, AnswersOK, NoHellos, NoServerHellos

\* A tunnel that is in no handshake and no session.
LEMMA NotEngagedGood ==
    ASSUME NEW d, NEW in, NEW out, NEW s, NEW open, ~First(in, s, open),
           ~d.live \/ d.state \notin Handshaking \union {"Active"}
              \/ (d.state = "Client_Hello" /\ d.rx = 0)
    PROVE  Good(d, in, out, s, open)
BY DEF Good, FirstOK, Engaged

LEMMA MoreNoHellos ==
    ASSUME NEW x, NEW y, More(x, y), NoHellos(x)
    PROVE  NoHellos(y)
<1>1. ASSUME NEW i \in 1 .. Len(y) PROVE ~IsHello(y[i])
  <2>1. Len(x) \in Nat /\ Len(y) \in Nat
    BY DEF More
  <2>2. CASE i <= Len(x)
    <3>1. i \in 1 .. Len(x)
      BY <2>1, <2>2
    <3>2. y[i] = x[i] /\ ~IsHello(x[i])
      BY <3>1 DEF More, NoHellos
    <3>3. QED  BY <3>2
  <2>3. CASE i > Len(x)
    <3>1. i \in Len(x) + 1 .. Len(y)
      BY <2>1, <2>3
    <3>2. QED  BY <3>1 DEF More
  <2>4. QED  BY <2>1, <2>2, <2>3
<1>2. QED  BY <1>1 DEF NoHellos

\* What the first record of in tells of the tunnel that may start with it.
LEMMA FirstRecord ==
    ASSUME NEW c, NEW in, NEW out, NEW s, NEW open \in BOOLEAN, NEW in2, NEW n,
           IsRest(in2, in, n), n >= 1, Good(c, in, out, s, open), s.phase = "hello" => in = <<>>,
           First(in2, s, open)
    PROVE  /\ c.live /\ c.state = "Client_Hello" /\ c.rx = 0
           /\ in[1].is = "handshake" /\ in[1].part = 1 /\ in[1].key = 0
<1>1. /\ Len(in) \in Nat /\ n \in 0 .. Len(in) /\ Len(in2) = Len(in) - n
      /\ \A i \in 1 .. Len(in) - n : in2[i] = in[n + i]
  BY DEF IsRest
<1>2. s.phase # "hello"
  <2>1. Len(in) >= 1
    BY <1>1
  <2>2. in # <<>>
    <3>1. ASSUME in = <<>> PROVE Len(in) = 0
      BY <3>1
    <3>2. QED  BY <2>1, <3>1
  <2>3. QED  BY <2>2
<1>3. PICK i \in 1 .. Len(in2) : IsServerHello(in2[i]) /\ in2[i].key = 0
  BY <1>2 DEF First
<1>4. First(in, s, open)
  BY ShiftGood
<1>5. PICK k \in 1 .. Len(in) : k = n + i
  BY <1>1
<1>6. IsServerHello(in[k]) /\ in[k].key = 0
  BY <1>1, <1>3, <1>5
<1>7. 1 \in 1 .. k - 1
  BY <1>1, <1>5
<1>8. QED  BY <1>4, <1>6, <1>7 DEF Good, FirstOK

\* A tunnel that is stopped by what it has read.
LEMMA DeadGood ==
    ASSUME NEW c, NEW in, NEW out, NEW s, NEW open \in BOOLEAN, NEW in2, NEW n, NEW d, NEW out2,
           IsRest(in2, in, n), n >= 1, Good(c, in, out, s, open), s.phase = "hello" => in = <<>>,
           ~(c.live /\ c.rx = 0 /\ in[1].is = "handshake" /\ in[1].part = 1 /\ in[1].key = 0),
           Dead(d)
    PROVE  Good(d, in2, out2, s, open)
<1>1. ~First(in2, s, open)
  BY FirstRecord
<1>2. QED  BY <1>1, NotEngagedGood DEF Dead

\* A hello request of an active tunnel's server.
LEMMA AskedGood ==
    ASSUME NEW c, NEW in, NEW out, NEW s, NEW open, NEW d, NEW in2, NEW out2,
           s.run \in Nat, c.run \in Nat \ {0},
           Good(c, in, out, s, open), c.live, c.state = "Active",
           d.live, d.state = "Client_Hello", d.run = c.run + 1, d.cipher = c.cipher,
           d.certs = c.certs, d.rx = c.rx,
           NoServerHellos(in) => NoServerHellos(in2),
           FinishedOK(in, s) => FinishedOK(in2, s),
           First(in2, s, open) => First(in, s, open),
           OneHello(out, out2, d.run) \/ More(out, out2)
    PROVE  Good(d, in2, out2, s, open)
<1>1. /\ Settled(c, s.plan) /\ InStep(c, in, out, s)
      /\ NoHellos(out) /\ NoServerHellos(in) /\ ~First(in, s, open)
  BY QuietWires
<1>2. /\ ~First(in2, s, open) /\ NoServerHellos(in2) /\ FinishedOK(in2, s) /\ s.run <= c.run
  BY <1>1 DEF InStep
<1>3. Settled(d, s.plan)
  BY <1>1 DEF Settled
<1>4. s.run < d.run /\ s.run <= d.run
  BY <1>2
<1>5. HellosOK(d, in2, out2, s)
  <2>1. CASE More(out, out2)
    <3>1. NoHellos(out2)
      BY <1>1, <2>1, MoreNoHellos
    <3>2. QED  BY <3>1 DEF HellosOK, NoHellos
  <2>2. CASE OneHello(out, out2, d.run)
    <3>1. Len(out) \in Nat /\ Len(out2) \in Nat
      BY <2>2 DEF OneHello
    <3>2. ASSUME NEW i \in 1 .. Len(out2), IsHello(out2[i]) PROVE i \in Len(out) + 1 .. Len(out2)
      <4>1. CASE i <= Len(out)
        <5>1. i \in 1 .. Len(out)
          BY <3>1, <4>1
        <5>2. out2[i] = out[i] /\ ~IsHello(out[i])
          BY <1>1, <2>2, <5>1 DEF OneHello, NoHellos
        <5>3. QED  BY <3>2, <5>2
      <4>2. QED  BY <3>1, <4>1
    <3>3. ASSUME NEW i \in 1 .. Len(out2), IsHello(out2[i])
          PROVE  /\ out2[i].value.run = d.run
                 /\ \A j \in 1 .. Len(out2) : IsHello(out2[j]) => j = i
      BY <2>2, <3>2, <3>3 DEF OneHello
    <3>4. QED  BY <1>2, <1>4, <3>3 DEF HellosOK, NoServerHellos
  <2>3. QED  BY <2>1, <2>2
<1>6. AnswersOK(d, in2) /\ ActiveOK(d, s)
  BY <1>2 DEF AnswersOK, ActiveOK, NoServerHellos
<1>7. InStep(d, in2, out2, s)
  BY <1>2, <1>4, <1>5, <1>6 DEF InStep
<1>8. QED  BY <1>2, <1>3, <1>7 DEF Good, FirstOK

\* A tunnel that goes on in its handshake.
LEMMA OnGood ==
    ASSUME NEW c, NEW in, NEW out, NEW s, NEW open, NEW d, NEW in2, NEW out2,
           Good(c, in, out, s, open), c.live,
           c.state \in (Handshaking \union {"Active"}) \ {"Client_Hello"},
           NoServerHellos(in) => NoServerHellos(in2),
           FinishedOK(in, s) => FinishedOK(in2, s),
           First(in2, s, open) => First(in, s, open),
           More(out, out2),
           d.run = c.run, Settled(c, s.plan) => Settled(d, s.plan),
           InStep(c, in, out, s) => ActiveOK(d, s)
    PROVE  Good(d, in2, out2, s, open)
<1>1. /\ Settled(c, s.plan) /\ InStep(c, in, out, s)
      /\ NoHellos(out) /\ NoServerHellos(in) /\ ~First(in, s, open)
  BY QuietWires
<1>2. NoHellos(out2)
  BY <1>1, MoreNoHellos
<1>3. s.run <= d.run /\ FinishedOK(in2, s)
  BY <1>1 DEF InStep
<1>4. QED  BY <1>1, <1>2, <1>3, QuietGood

\* The rest of what is under way.
LEMMA RestWires ==
    ASSUME NEW in, NEW in2, NEW n, IsRest(in2, in, n), NEW s
    PROVE  /\ NoServerHellos(in) => NoServerHellos(in2)
           /\ FinishedOK(in, s) => FinishedOK(in2, s)
<1>1. \A i \in 1 .. Len(in2) : n + i \in 1 .. Len(in) /\ in2[i] = in[n + i]
  <2>1. /\ Len(in) \in Nat /\ n \in 0 .. Len(in) /\ Len(in2) = Len(in) - n
        /\ \A i \in 1 .. Len(in) - n : in2[i] = in[n + i]
    BY DEF IsRest
  <2>2. \A i \in 1 .. Len(in) - n : n + i \in 1 .. Len(in)
    BY <2>1
  <2>3. QED  BY <2>1, <2>2
<1>2. QED  BY <1>1 DEF NoServerHellos, FinishedOK

\* A tunnel in step with its server handles the next message.
LEMMA HandledGood ==
    ASSUME NEW c, NEW in, NEW out, NEW s, NEW open \in BOOLEAN, NEW in2, NEW out2, NEW d,
           ClientOK(c), c.live, Good(c, in, out, s, open), s.phase = "hello" => in = <<>>,
           s.run \in Nat, s.plan.suite \in Suites,
           IsRest(in2, in, 1), FromServer(in[1], s.plan),
           in[1].is = "handshake", in[1].part = 2, in[1].key = c.rx,
           Handles(c, d, in[1].value), Follows(c, d, out, out2) \/ Dead(d), d = c => out2 = out
    PROVE  Good(d, in2, out2, s, open)
<1>r. PICK r : r = in[1]
  OBVIOUS
<1>m. PICK m : m = r.value
  OBVIOUS
<1>1. /\ r.is = "handshake" /\ r.part = 2 /\ r.key = c.rx /\ Said(m, s.plan)
      /\ Moves(c, d, m)
  BY <1>r, <1>m DEF FromServer, Handles
<1>n. 1 \in 1 .. Len(in)
  BY DEF IsRest
<1>2. CASE Dead(d)
  BY <1>1, <1>r, <1>2, DeadGood
<1>ty. c.run \in Nat \ {0}
  BY DEF ClientOK, IsTunnel, Tunnels, Agrees
<1>w. /\ NoServerHellos(in) => NoServerHellos(in2)
      /\ FinishedOK(in, s) => FinishedOK(in2, s)
      /\ First(in2, s, open) => First(in, s, open)
  BY RestWires, ShiftGood
<1>3. CASE d = c
  BY <1>3, ShiftGood
<1>4. CASE Asked(c, d) /\ ~Dead(d) /\ d.live /\ d.rx = c.rx
  <2>1. c.state = "Active" /\ d.state = "Client_Hello"
    BY <1>4 DEF Asked
  <2>2. OneHello(out, out2, d.run) \/ More(out, out2)
    BY <1>4, <2>1 DEF Follows
  <2>3. d.run = c.run + 1 /\ d.cipher = c.cipher /\ d.certs = c.certs
    BY <1>4 DEF Asked
  <2>4. QED  BY <1>ty, <1>w, <1>4, <2>1, <2>2, <2>3, AskedGood
<1>5. CASE Greeted(c, d, m) /\ d.live /\ d.rx = c.rx
  <2>1. IsServerHello(in[1])
    BY <1>r, <1>m, <1>1, <1>5 DEF Greeted, IsServerHello, IsMessage
  <2>2. Engaged(c, in, s, open)
    <3>1. c.state = "Client_Hello" /\ c.rx = 0 => First(in, s, open)
      BY <1>n, <2>1 DEF First
    <3>2. c.state \in Handshaking
      BY <1>5 DEF Greeted, Handshaking
    <3>3. QED  BY <3>1, <3>2 DEF Engaged
  <2>3. Settled(c, s.plan) /\ InStep(c, in, out, s)
    BY <2>2 DEF Good
  <2>4. \A j \in 1 .. Len(in) : IsServerHello(in[j]) => j = 1
    BY <1>n, <2>1, <2>3 DEF InStep, AnswersOK
  <2>5. NoServerHellos(in2)
    <3>1. ASSUME NEW i \in 1 .. Len(in2) PROVE ~IsServerHello(in2[i])
      <4>1. /\ Len(in) \in Nat /\ Len(in2) = Len(in) - 1
            /\ \A k \in 1 .. Len(in) - 1 : in2[k] = in[1 + k]
        BY DEF IsRest
      <4>2. PICK j \in 1 .. Len(in) : j = 1 + i /\ j # 1
        BY <4>1
      <4>3. in2[i] = in[j]
        BY <4>1, <4>2
      <4>4. QED  BY <2>4, <4>2, <4>3
    <3>2. QED  BY <3>1 DEF NoServerHellos
  <2>6. NoHellos(out)
    BY <1>n, <2>1, <2>3 DEF InStep, HellosOK, NoHellos
  <2>7. ~First(in2, s, open)
    <3>1. s.phase # "hello"
      <4>1. ASSUME in = <<>> PROVE Len(in) = 0
        BY <4>1
      <4>2. QED  BY <1>n, <4>1
    <3>2. QED  BY <2>5, <3>1 DEF First, NoServerHellos
  <2>8. NoHellos(out2)
    <3>1. d.state = "Server_Hello" /\ c.state # "Active"
      BY <1>5 DEF Greeted
    <3>2. More(out, out2)
      BY <1>5, <3>1 DEF Follows, Dead
    <3>3. QED  BY <2>6, <3>2, MoreNoHellos
  <2>9. Settled(d, s.plan)
    <3>1. m.value.suite = s.plan.suite /\ s.plan.fault # "extension"
      BY <1>1, <1>5 DEF Said, Greeted
    <3>2. /\ d.cipher = s.plan.suite /\ d.certs = c.certs /\ d.state = "Server_Hello"
      BY <1>5, <3>1 DEF Greeted
    <3>3. s.plan.suite # NoCipher
      BY DEF Suites, NoCipher
    <3>4. QED  BY <2>3, <3>1, <3>2, <3>3 DEF Settled
  <2>10. s.run <= d.run /\ FinishedOK(in2, s) /\ ActiveOK(d, s)
    BY <1>w, <1>5, <2>3 DEF InStep, ActiveOK, Greeted
  <2>11. QED  BY <2>5, <2>7, <2>8, <2>9, <2>10, QuietGood
<1>6. CASE Shown(c, d, m) /\ d.live /\ d.rx = c.rx
  <2>1. c.state \in (Handshaking \union {"Active"}) \ {"Client_Hello"}
    BY <1>6 DEF Shown, Handshaking
  <2>2. /\ d.state = "Server_Certificate" /\ c.state # "Active" /\ c.state # "Client_Hello"
        /\ d.run = c.run /\ d.cipher = c.cipher
    BY <1>6 DEF Shown
  <2>3. More(out, out2)
    BY <1>6, <2>2 DEF Follows, Dead
  <2>4. s.plan.fault \notin {"no certificate", "bad certificate"}
    BY <1>1, <1>6 DEF Said, Shown
  <2>5. Settled(c, s.plan) => Settled(d, s.plan)
    BY <2>2, <2>4 DEF Settled
  <2>6. ActiveOK(d, s)
    BY <2>2 DEF ActiveOK
  <2>7. QED  BY <1>w, <2>1, <2>2, <2>3, <2>5, <2>6, OnGood
<1>7. CASE Keyed(c, d, m) /\ d.live /\ d.rx = c.rx
  <2>1. c.state \in (Handshaking \union {"Active"}) \ {"Client_Hello"}
    BY <1>7 DEF Keyed, Handshaking
  <2>2. /\ d.state = "Server_Key_Exchange" /\ c.state # "Active" /\ c.state # "Client_Hello"
        /\ d.run = c.run /\ d.cipher = c.cipher /\ d.certs = c.certs
    BY <1>7 DEF Keyed, Same
  <2>3. More(out, out2)
    BY <1>7, <2>2 DEF Follows, Dead
  <2>4. Settled(c, s.plan) => Settled(d, s.plan)
    BY <2>2 DEF Settled
  <2>5. ActiveOK(d, s)
    BY <2>2 DEF ActiveOK
  <2>6. QED  BY <1>w, <2>1, <2>2, <2>3, <2>4, <2>5, OnGood
<1>8. CASE Answered(c, d, m) /\ d.live /\ d.rx = c.rx
  <2>1. c.state \in (Handshaking \union {"Active"}) \ {"Client_Hello"}
    BY <1>8 DEF Answered, Handshaking
  <2>2. /\ d.state = "Client_Finished" /\ c.state # "Active" /\ c.state # "Client_Hello"
        /\ d.run = c.run /\ d.cipher = c.cipher /\ d.certs = c.certs /\ d.tx = c.run
        /\ NeedsCertificate(c.cipher) => c.certs # 0
    BY <1>8 DEF Answered
  <2>3. More(out, out2)
    BY <1>8, <2>2 DEF Follows, Dead
  <2>4. Settled(c, s.plan) => Settled(d, s.plan)
    BY <2>2 DEF Settled
  <2>5. ActiveOK(d, s)
    BY <2>2 DEF ActiveOK
  <2>6. QED  BY <1>w, <2>1, <2>2, <2>3, <2>4, <2>5, OnGood
<1>9. CASE Believed(c, d, m) /\ d.live /\ d.rx = c.rx
  <2>1. c.state \in (Handshaking \union {"Active"}) \ {"Client_Hello"}
    BY <1>9 DEF Believed, Handshaking
  <2>2. /\ d.state = "Active" /\ c.state = "Server_Send_Change_Cipher_Spec"
        /\ d.run = c.run /\ d.cipher = c.cipher /\ d.certs = c.certs /\ d.tx = c.tx
        /\ d.log = c.log /\ m.value = c.log
    BY <1>9 DEF Believed, Same
  <2>3. More(out, out2)
    BY <1>9, <2>2 DEF Follows, Dead
  <2>4. Settled(c, s.plan) => Settled(d, s.plan)
    BY <1>9, <2>2 DEF Settled
  <2>5. ASSUME InStep(c, in, out, s) PROVE ActiveOK(d, s)
    <3>1. Settled(c, s.plan)
      BY <2>1, QuietWires
    <3>2. c.rx = c.run
      BY <2>2, <3>1 DEF Settled
    <3>3. IsFinished(r)
      BY <1>1, <1>m, <1>9 DEF Believed, IsFinished, IsMessage
    <3>4. /\ r.key <= s.run
          /\ r.key = s.run => s.phase \in Over /\ r.value.value = s.log
      BY <1>n, <1>r, <2>5, <3>3 DEF InStep, FinishedOK
    <3>5. s.run <= c.run
      BY <2>5 DEF InStep
    <3>6. s.run = c.run
      BY <1>1, <1>ty, <3>2, <3>4, <3>5
    <3>7. s.phase \in Over /\ c.log = s.log
      BY <1>1, <1>m, <2>2, <3>2, <3>4, <3>6
    <3>8. QED  BY <2>2, <3>6, <3>7 DEF ActiveOK
  <2>6. QED  BY <1>w, <2>1, <2>2, <2>3, <2>4, <2>5, OnGood
<1>10. QED  BY <1>1, <1>2, <1>3, <1>4, <1>5, <1>6, <1>7, <1>8, <1>9 DEF Moves

-----------------------------------------------------------------------------
(* What goes out on the socket *)

\* What is under way after ts when d has sent its out.
Out(ts, open, d) == IF open THEN ts \o d.out ELSE ts

LEMMA OutIs ==
    ASSUME NEW ts, OfClient(ts), NEW open \in BOOLEAN, NEW d, OfClient(d.out)
    PROVE  OfClient(Out(ts, open, d))
BY OfClientConcat DEF Out

LEMMA MorePrefix ==
    ASSUME NEW x, NEW y, NEW z, OfClient(x), OfClient(y), OfClient(z), More(y, z)
    PROVE  More(x \o y, x \o z)
<1>1. /\ Len(x) \in Nat /\ Len(y) \in Nat /\ Len(z) \in Nat /\ Len(y) <= Len(z)
      /\ Len(x \o y) = Len(x) + Len(y) /\ Len(x \o z) = Len(x) + Len(z)
  BY ConcatIs DEF OfClient, More
<1>2. ASSUME NEW i \in 1 .. Len(x) + Len(y) PROVE (x \o z)[i] = (x \o y)[i]
  <2>1. CASE i <= Len(x)
    <3>1. i \in 1 .. Len(x)
      BY <1>1, <2>1
    <3>2. (x \o z)[i] = x[i] /\ (x \o y)[i] = x[i]
      BY <3>1, ConcatIs DEF OfClient
    <3>3. QED  BY <3>2
  <2>2. CASE i > Len(x)
    <3>1. /\ i \in Len(x) + 1 .. Len(x) + Len(y) /\ i \in Len(x) + 1 .. Len(x) + Len(z)
          /\ i - Len(x) \in 1 .. Len(y)
      BY <1>1, <2>2
    <3>2. (x \o z)[i] = z[i - Len(x)] /\ (x \o y)[i] = y[i - Len(x)]
      BY <3>1, ConcatIs DEF OfClient
    <3>3. z[i - Len(x)] = y[i - Len(x)]
      BY <3>1 DEF More
    <3>4. QED  BY <3>2, <3>3
  <2>3. QED  BY <1>1, <2>1, <2>2
<1>3. ASSUME NEW i \in Len(x) + Len(y) + 1 .. Len(x) + Len(z) PROVE ~IsHello((x \o z)[i])
  <2>1. i \in Len(x) + 1 .. Len(x) + Len(z) /\ i - Len(x) \in Len(y) + 1 .. Len(z)
    BY <1>1
  <2>2. (x \o z)[i] = z[i - Len(x)]
    BY <2>1, ConcatIs DEF OfClient
  <2>3. ~IsHello(z[i - Len(x)])
    BY <2>1 DEF More
  <2>4. QED  BY <2>2, <2>3
<1>4. QED  BY <1>1, <1>2, <1>3 DEF More

\* The two records of a hello.
HelloPair(h, run, key) ==
    /\ OfClient(h) /\ Len(h) = 2
    /\ \A i \in 1 .. 2 : /\ h[i].is = "handshake" /\ h[i].part = i /\ h[i].key = key
                         /\ h[i].value = Message("client_hello", run, "")

LEMMA HelloRecordsAre ==
    ASSUME NEW run, run \in Nat \ {0}, NEW key, key \in Nat
    PROVE  HelloPair(HelloRecords(run, key), run, key)
<1>1. PICK type, value : type = "client_hello" /\ value = ""
  OBVIOUS
<1>h. PICK h : h = HelloRecords(run, key)
  OBVIOUS
<1>2. h = Handshake(Message(type, run, value), key)
  BY <1>1, <1>h DEF HelloRecords
<1>3. /\ OfClient(h) /\ Len(h) = 2
      /\ \A i \in 1 .. 2 : h[i].is = "handshake" /\ h[i].key = key /\ h[i].part = i
                            /\ h[i].value = Message(type, run, value)
  BY <1>2, HandshakeIs
<1>4. HelloPair(h, run, key)
  BY <1>1, <1>3 DEF HelloPair
<1>5. QED  BY <1>4, <1>h

\* A hello after x is the only one there.
LEMMA HelloAfter ==
    ASSUME NEW x, OfClient(x), NEW run \in Nat \ {0}, NEW key \in Nat
    PROVE  OneHello(x, x \o HelloRecords(run, key), run)
<1>h. PICK h : h = HelloRecords(run, key)
  OBVIOUS
<1>1. /\ OfClient(h) /\ Len(h) = 2
      /\ \A i \in 1 .. 2 : h[i].part = i /\ h[i].value = Message("client_hello", run, "")
  <2>1. HelloPair(HelloRecords(run, key), run, key)
    BY HelloRecordsAre
  <2>2. HelloPair(h, run, key)
    BY <1>h, <2>1
  <2>3. QED  BY <2>2 DEF HelloPair
<1>2. Message("client_hello", run, "").run = run
  BY DEF Message
<1>3. /\ Len(x) \in Nat /\ Len(x \o h) = Len(x) + 2
      /\ \A i \in 1 .. Len(x) : (x \o h)[i] = x[i]
      /\ \A i \in Len(x) + 1 .. Len(x) + 2 : (x \o h)[i] = h[i - Len(x)]
  <2>1. Len(h) = 2 /\ IsSeq(h) /\ IsSeq(x)
    BY <1>1 DEF OfClient
  <2>2. /\ Len(x) \in Nat /\ Len(x \o h) = Len(x) + Len(h)
        /\ \A i \in 1 .. Len(x) : (x \o h)[i] = x[i]
        /\ \A i \in Len(x) + 1 .. Len(x) + Len(h) : (x \o h)[i] = h[i - Len(x)]
    BY <2>1, ConcatIs
  <2>3. QED  BY <2>1, <2>2
<1>4. ASSUME NEW i \in Len(x) + 1 .. Len(x \o h), IsHello((x \o h)[i])
      PROVE  (x \o h)[i].value.run = run /\ i = Len(x) + 2
  <2>1. PICK k \in 1 .. 2 : k = i - Len(x)
    BY <1>3
  <2>2. (x \o h)[i] = h[k]
    BY <1>3, <2>1
  <2>3. h[k].part = 2
    BY <1>4, <2>2 DEF IsHello, IsMessage
  <2>4. k = 2 /\ h[k].value = Message("client_hello", run, "")
    <3>1. h[k].part = k /\ h[k].value = Message("client_hello", run, "")
      BY <1>1
    <3>2. QED  BY <2>3, <3>1
  <2>5. (x \o h)[i].value.run = run
    BY <1>2, <2>2, <2>4
  <2>6. i = Len(x) + 2
    <3>1. PICK n \in Nat : n = Len(x)
      BY <1>3
    <3>2. i \in n + 1 .. n + 2
      BY <1>3, <3>1
    <3>3. 2 = i - n
      BY <2>1, <2>4, <3>1
    <3>4. i = n + 2
      BY <3>2, <3>3
    <3>5. QED  BY <3>1, <3>4
  <2>7. QED  BY <2>5, <2>6
<1>5. OneHello(x, x \o h, run)
  <2>1. \A i \in Len(x) + 1 .. Len(x \o h) :
           IsHello((x \o h)[i]) =>
              /\ (x \o h)[i].value.run = run
              /\ \A j \in Len(x) + 1 .. Len(x \o h) : IsHello((x \o h)[j]) => j = i
    BY <1>4
  <2>2. Len(x) <= Len(x \o h) /\ Len(x \o h) \in Nat
    BY <1>3
  <2>3. QED  BY <1>3, <2>1, <2>2 DEF OneHello
<1>6. QED  BY <1>5, <1>h

Joined(x, y, z) == x \o (y \o z) = (x \o y) \o z

LEMMA ConcatThree ==
    ASSUME NEW x, NEW y, NEW z, IsSeq(x), IsSeq(y), IsSeq(z)
    PROVE  Joined(x, y, z)
<1> DEFINE S == Elements(x) \cup Elements(y) \cup Elements(z)
<1>1. x \in Seq(S) /\ y \in Seq(S) /\ z \in Seq(S)
  BY SeqIs
<1> HIDE DEF S
<1>2. x \o (y \o z) = (x \o y) \o z
  BY <1>1, ConcatAssociative
<1>3. QED  BY <1>2 DEF Joined

\* A tunnel that goes on puts at most one hello on the wire, and only after it was asked.
LEMMA OutFollows ==
    ASSUME NEW ts, OfClient(ts), NEW open \in BOOLEAN, NEW c, NEW d, NEW m,
           IsTunnel(c), IsTunnel(d), Moves(c, d, m)
    PROVE  Follows(c, d, Out(ts, open, c), Out(ts, open, d)) \/ Dead(d)
<1>o. OfClient(c.out) /\ OfClient(d.out)
  BY DEF IsTunnel
<1>ty. c.run \in Nat /\ c.tx \in Nat /\ c.run + 1 \in Nat \ {0}
  BY DEF IsTunnel, Tunnels
<1>1. CASE ~open
  <2>1. Out(ts, open, c) = ts /\ Out(ts, open, d) = ts
    BY <1>1 DEF Out
  <2>2. More(ts, ts) /\ OneHello(ts, ts, d.run)
    BY DEF OfClient, IsSeq, More, OneHello
  <2>3. QED  BY <2>1, <2>2 DEF Follows
<1>2. CASE open
  <2>1. Out(ts, open, c) = ts \o c.out /\ Out(ts, open, d) = ts \o d.out
    BY <1>2 DEF Out
  <2>2. CASE Asked(c, d)
    <3>1. d.out = c.out \o HelloRecords(d.run, c.tx) /\ d.run \in Nat \ {0}
          /\ c.state = "Active" /\ d.state = "Client_Hello"
      BY <1>ty, <2>2 DEF Asked
    <3>2. ts \o d.out = (ts \o c.out) \o HelloRecords(d.run, c.tx)
      <4>h. PICK h : h = HelloRecords(d.run, c.tx)
        OBVIOUS
      <4>0. HelloPair(HelloRecords(d.run, c.tx), d.run, c.tx)
        BY <1>ty, <3>1, HelloRecordsAre
      <4>1. OfClient(h)
        BY <4>0, <4>h DEF HelloPair
      <4>2. IsSeq(ts) /\ IsSeq(c.out) /\ IsSeq(h) /\ d.out = c.out \o h
        BY <1>o, <3>1, <4>h, <4>1 DEF OfClient
      <4>3. Joined(ts, c.out, h)
        BY <4>2, ConcatThree
      <4>5. ts \o (c.out \o h) = (ts \o c.out) \o h
        BY <4>3 DEF Joined
      <4>4. QED  BY <4>h, <4>2, <4>5
    <3>3. OfClient(ts \o c.out)
      BY <1>o, OfClientConcat
    <3>4. OneHello(ts \o c.out, (ts \o c.out) \o HelloRecords(d.run, c.tx), d.run)
      BY <1>ty, <3>1, <3>3, HelloAfter
    <3>5. QED  BY <2>1, <3>1, <3>2, <3>4 DEF Follows
  <2>3. CASE ~Asked(c, d) /\ ~Dead(d)
    <3>1. More(c.out, d.out) /\ ~(c.state = "Active" /\ d.state = "Client_Hello")
      <4>1. More(c.out, c.out)
        BY <1>o, MoreSelf
      <4>2. CASE d = c
        BY <4>1, <4>2
      <4>3. CASE Greeted(c, d, m)
        BY <4>1, <4>3 DEF Greeted
      <4>4. CASE Shown(c, d, m)
        BY <4>1, <4>4 DEF Shown
      <4>5. CASE Keyed(c, d, m)
        BY <4>1, <4>5 DEF Keyed, Same
      <4>6. CASE Answered(c, d, m)
        BY <4>6 DEF Answered
      <4>7. CASE Believed(c, d, m)
        BY <4>1, <4>7 DEF Believed, Same
      <4>8. QED  BY <2>3, <4>2, <4>3, <4>4, <4>5, <4>6, <4>7 DEF Moves
    <3>2. More(ts \o c.out, ts \o d.out)
      BY <1>o, <3>1, MorePrefix
    <3>3. QED  BY <2>1, <3>1, <3>2 DEF Follows
  <2>4. QED  BY <2>2, <2>3
<1>3. QED  BY <1>1, <1>2

-----------------------------------------------------------------------------
(* The messages of a record, one by one *)

\* Induction up to n, for a set of numbers.
LEMMA Counting ==
    ASSUME NEW n \in Nat, NEW S, 0 \in S, \A k \in 0 .. n - 1 : k \in S => k + 1 \in S
    PROVE  \A k \in 0 .. n : k \in S
<1> SUFFICES ASSUME (0 .. n) \ S # {} PROVE FALSE
  OBVIOUS
<1> DEFINE R == OpToRel(<, Nat)
<1>1. \A x, y \in Nat : x < y => <<x, y>> \in R
  BY DEF OpToRel
<1>2. IsWellFoundedOn(R, Nat)
  BY NatLessThanWellFounded
<1> HIDE DEF R
<1>3. PICK m \in (0 .. n) \ S : \A k \in (0 .. n) \ S : ~(<<k, m>> \in R)
  <2>1. (0 .. n) \ S \subseteq Nat
    OBVIOUS
  <2>2. QED  BY <1>2, <2>1, WFMin
<1>4. m \in Nat /\ m # 0
  OBVIOUS
<1>5. m - 1 \in 0 .. n - 1 /\ m - 1 \in Nat /\ m - 1 < m /\ m - 1 + 1 = m
  BY <1>4
<1>6. m - 1 \in S
  <2>1. <<m - 1, m>> \in R
    BY <1>1, <1>4, <1>5
  <2>2. m - 1 \notin (0 .. n) \ S
    BY <1>3, <2>1
  <2>3. m - 1 \in 0 .. n
    BY <1>5
  <2>4. QED  BY <2>2, <2>3
<1>7. m \in S
  BY <1>5, <1>6
<1>8. QED  BY <1>3, <1>7

\* The client after i parts, when f has the others.
OneAfter(c, parts, f, i) ==
    IF i = 0 THEN c
    ELSE IF parts[i].part = 2 /\ f[i - 1].ok
    THEN HandleHandshakeMessage(f[i - 1], parts[i].value)
    ELSE f[i - 1]

\* The recursion of Handled has a solution.
LEMMA HandledIs ==
    ASSUME NEW c, NEW parts, Len(parts) \in Nat
    PROVE  \A i \in 0 .. Len(parts) :
              Handled(c, parts)[i] = OneAfter(c, parts, Handled(c, parts), i)
<1>n. PICK n \in Nat : n = Len(parts)
  OBVIOUS
<1> DEFINE S == {j \in Nat : \E f : \A k \in 0 .. j : f[k] = OneAfter(c, parts, f, k)}
<1>1. 0 \in S
  <2> DEFINE g == [k \in 0 .. 0 |-> c]
  <2>1. \A k \in 0 .. 0 : k = 0 /\ g[k] = c
    OBVIOUS
  <2> HIDE DEF g
  <2>2. \A k \in 0 .. 0 : g[k] = OneAfter(c, parts, g, k)
    BY <2>1 DEF OneAfter
  <2>3. QED  BY <2>2
<1>2. ASSUME NEW j \in 0 .. n - 1, j \in S
      PROVE  j + 1 \in S
  <2>1. PICK f : \A k \in 0 .. j : f[k] = OneAfter(c, parts, f, k)
    BY <1>2
  <2> DEFINE g == [k \in 0 .. (j + 1) |-> OneAfter(c, parts, f, k)]
  <2>2. \A k \in 0 .. j : g[k] = f[k]
    BY <2>1
  <2>3. \A k \in 0 .. (j + 1) : g[k] = OneAfter(c, parts, f, k)
    OBVIOUS
  <2> HIDE DEF g
  <2>4. \A k \in 0 .. (j + 1) : OneAfter(c, parts, f, k) = OneAfter(c, parts, g, k)
    <3>1. ASSUME NEW k \in 0 .. (j + 1), k # 0
          PROVE  g[k - 1] = f[k - 1]
      BY <2>2, <3>1
    <3>2. QED  BY <3>1 DEF OneAfter
  <2>5. QED  BY <2>3, <2>4
<1> HIDE DEF S
<1>3. n \in S
  <2>1. \A k \in 0 .. n : k \in S
    BY <1>1, <1>2, Counting
  <2>2. QED  BY <2>1
<1>4. PICK f : \A k \in 0 .. n : f[k] = OneAfter(c, parts, f, k)
  BY <1>3 DEF S
<1> DEFINE g == [k \in 0 .. n |-> f[k]]
<1>5. \A k \in 0 .. n : g[k] = f[k]
  OBVIOUS
<1>6. \A k \in 0 .. n : OneAfter(c, parts, f, k) = OneAfter(c, parts, g, k)
  <2>1. ASSUME NEW k \in 0 .. n, k # 0
        PROVE  g[k - 1] = f[k - 1]
    <3>1. k - 1 \in 0 .. n
      BY <2>1
    <3>2. QED  BY <3>1
  <2> HIDE DEF g
  <2>2. QED  BY <2>1 DEF OneAfter
<1>7. g = [k \in 0 .. n |-> OneAfter(c, parts, g, k)]
  BY <1>4, <1>6
<1> HIDE DEF g
<1>8. Handled(c, parts) = CHOOSE h : h = [k \in 0 .. Len(parts) |-> OneAfter(c, parts, h, k)]
  BY Zenon DEF Handled, OneAfter
<1>9. Handled(c, parts) = [k \in 0 .. n |-> OneAfter(c, parts, Handled(c, parts), k)]
  BY <1>n, <1>7, <1>8
<1>10. PICK h : h = Handled(c, parts)
  OBVIOUS
<1>11. h = [k \in 0 .. n |-> OneAfter(c, parts, h, k)]
  BY <1>9, <1>10, Zenon
<1>12. \A k \in 0 .. n : h[k] = OneAfter(c, parts, h, k)
  BY <1>11
<1>13. QED  BY <1>n, <1>10, <1>12, Zenon

\* What is left of what is under way when n records are read.
From(in, n) == SubSeq(in, n + 1, Len(in))

LEMMA FromIs ==
    ASSUME NEW in, IsSeq(in), NEW n \in 0 .. Len(in)
    PROVE  /\ IsSeq(From(in, n)) /\ Len(in) \in Nat /\ Len(From(in, n)) = Len(in) - n
           /\ \A i \in 1 .. Len(in) - n : From(in, n)[i] = in[n + i]
           /\ IsRest(From(in, n), in, n)
<1>r. PICK r : r = From(in, n)
  OBVIOUS
<1>1. r = SubSeq(in, n + 1, Len(in))
  BY <1>r DEF From
<1>2. /\ IsSeq(r) /\ Len(r) = Len(in) - n
      /\ \A i \in 1 .. Len(in) - n : r[i] = in[n + i]
  BY <1>1, RestIs
<1>3. Len(in) \in Nat
  BY DEF IsSeq
<1>4. IsRest(r, in, n)
  BY <1>2, <1>3 DEF IsRest
<1>5. QED  BY <1>r, <1>2, <1>3, <1>4

LEMMA FromNext ==
    ASSUME NEW in, IsSeq(in), NEW n \in 0 .. Len(in) - 1, NEW m, m = n + 1
    PROVE  /\ IsRest(From(in, m), From(in, n), 1)
           /\ From(in, n)[1] = in[m] /\ m \in 1 .. Len(in)
<1>1. Len(in) \in Nat /\ n \in 0 .. Len(in) /\ m \in 1 .. Len(in) /\ m \in 0 .. Len(in)
  BY DEF IsSeq
<1>x. PICK x : x = From(in, n)
  OBVIOUS
<1>y. PICK y : y = From(in, m)
  OBVIOUS
<1>2. Len(x) = Len(in) - n /\ \A i \in 1 .. Len(in) - n : x[i] = in[n + i]
  BY <1>1, <1>x, FromIs
<1>3. Len(y) = Len(in) - m /\ \A i \in 1 .. Len(in) - m : y[i] = in[m + i]
  BY <1>1, <1>y, FromIs
<1>4. ASSUME NEW i \in 1 .. Len(x) - 1 PROVE y[i] = x[1 + i]
  <2>1. i \in 1 .. Len(in) - m /\ 1 + i \in 1 .. Len(in) - n /\ n + (1 + i) = m + i
    BY <1>1, <1>2
  <2>2. y[i] = in[m + i]
    BY <1>3, <2>1
  <2>3. PICK k \in 1 .. Len(in) - n : k = 1 + i
    BY <2>1
  <2>4. x[k] = in[n + k] /\ n + k = m + i
    BY <1>2, <2>1, <2>3
  <2>5. QED  BY <2>2, <2>3, <2>4
<1>5. IsRest(y, x, 1)
  BY <1>1, <1>2, <1>3, <1>4 DEF IsRest
<1>6. x[1] = in[m]
  <2>1. 1 \in 1 .. Len(in) - n
    BY <1>1
  <2>2. QED  BY <1>2, <2>1
<1>7. QED  BY <1>1, <1>5, <1>6, <1>x, <1>y

\* The step of HandleHandshake for one part.
OnePart(c, r) == IF r.part = 2 /\ c.ok THEN HandleHandshakeMessage(c, r.value) ELSE c

Greeting(s, in) ==
    /\ s.phase = "hello" => in = <<>>
    /\ s.run \in Nat /\ s.plan.suite \in Suites

Readable(c, r, s) ==
    /\ FromServer(r, s.plan) /\ r.is = "handshake"
    /\ c.live => r.key = c.rx

Handed(c, d, in2, s, open, ts) ==
    /\ ClientOK(d) /\ d.stale = c.stale
    /\ Good(d, in2, Out(ts, open, d), s, open)
    /\ d.live => c.live /\ d.rx = c.rx

LEMMA PartGood ==
    ASSUME NEW c, NEW in, NEW s, NEW open \in BOOLEAN, NEW ts, OfClient(ts), NEW in2, NEW d,
           ClientOK(c), Good(c, in, Out(ts, open, c), s, open), Greeting(s, in),
           IsRest(in2, in, 1), Readable(c, in[1], s), d = OnePart(c, in[1])
    PROVE  Handed(c, d, in2, s, open, ts)
<1>0. /\ FromServer(in[1], s.plan) /\ in[1].is = "handshake"
      /\ c.live => in[1].key = c.rx
      /\ s.phase = "hello" => in = <<>>
      /\ s.run \in Nat /\ s.plan.suite \in Suites
  BY DEF Greeting, Readable
<1> SUFFICES /\ ClientOK(d) /\ d.stale = c.stale
             /\ Good(d, in2, Out(ts, open, d), s, open)
             /\ d.live => c.live /\ d.rx = c.rx
  BY DEF Handed
<1>m. PICK m : m = in[1].value
  OBVIOUS
<1>1. Said(m, s.plan)
  BY <1>m, <1>0 DEF FromServer, Readable
<1>2. m.type \in ServerTypes /\ (m.type = "server_hello" => m.value.suite \in Suites)
  BY <1>0, <1>1 DEF Said
<1>3. CASE d = c
  BY <1>3, ShiftGood
<1>4. CASE in[1].part = 2 /\ d = HandleHandshakeMessage(c, m)
  <2>1. CASE ~c.live
    <3>1. Handles(c, d, m) /\ Dead(d)
      BY <1>2, <1>4, <2>1, DeadStays
    <3>2. Good(d, in2, Out(ts, open, d), s, open)
      BY <1>0, <2>1, <3>1, DeadGood
    <3>3. QED  BY <3>1, <3>2 DEF Handles, Dead
  <2>2. CASE c.live
    <3>1. Handles(c, d, m)
      BY <1>2, <1>4, <2>2, MessageHandled
    <3>2. IsTunnel(c) /\ IsTunnel(d) /\ Moves(c, d, m)
      BY <3>1 DEF Handles, ClientOK
    <3>3. PICK out : out = Out(ts, open, c)
      OBVIOUS
    <3>4. PICK out2 : out2 = Out(ts, open, d)
      OBVIOUS
    <3>5. Follows(c, d, out, out2) \/ Dead(d)
      BY <3>2, <3>3, <3>4, OutFollows
    <3>6. d = c => out2 = out
      BY <3>3, <3>4
    <3>7. Good(c, in, out, s, open)
      BY <3>3
    <3>8. Handles(c, d, in[1].value)
      BY <1>m, <3>1
    <3>9. Good(d, in2, out2, s, open)
      BY <1>0, <1>4, <2>2, <3>5, <3>6, <3>7, <3>8, HandledGood
    <3>10. d.live => d.rx = c.rx
      BY <3>1 DEF Handles, Moves, Dead
    <3>11. QED  BY <2>2, <3>1, <3>4, <3>9, <3>10 DEF Handles
  <2>3. QED  BY <2>1, <2>2
<1>5. QED  BY <1>m, <1>3, <1>4 DEF OnePart

\* What Good tells apart of a tunnel.
Alike(c, d) ==
    /\ d.live = c.live /\ d.state = c.state /\ d.rx = c.rx /\ d.tx = c.tx
    /\ d.run = c.run /\ d.cipher = c.cipher /\ d.certs = c.certs /\ d.log = c.log

LEMMA AlikeGood ==
    ASSUME NEW c, NEW d, Alike(c, d), NEW in, NEW out, NEW s, NEW open, Good(c, in, out, s, open)
    PROVE  Good(d, in, out, s, open)
<1>1. FirstOK(d, in, s, open)
  BY DEF Alike, Good, FirstOK
<1>2. Engaged(d, in, s, open) => Engaged(c, in, s, open)
  BY DEF Alike, Engaged
<1>3. Settled(c, s.plan) => Settled(d, s.plan)
  BY DEF Alike, Settled
<1>4. InStep(c, in, out, s) => InStep(d, in, out, s)
  BY DEF Alike, InStep, HellosOK, AnswersOK, ActiveOK
<1>5. QED  BY <1>1, <1>2, <1>3, <1>4 DEF Good

LEMMA PrefixIs ==
    ASSUME NEW s, IsSeq(s), NEW n \in 1 .. Len(s), NEW r, r = SubSeq(s, 1, n)
    PROVE  IsSeq(r) /\ Len(r) = n /\ \A i \in 1 .. n : r[i] = s[i]
<1>1. s \in Seq(Elements(s)) /\ Len(s) \in Nat
  BY SeqIs
<1>2. 1 \in 1 .. Len(s) + 1 /\ n \in 0 .. Len(s) /\ 1 <= n /\ n \in Nat
  BY <1>1
<1>3. Len(r) = n - 1 + 1
  BY <1>1, <1>2, SubSeqProperties
<1>4. \A i \in 1 .. n - 1 + 1 : r[i] = s[1 + i - 1]
  BY <1>1, <1>2, SubSeqProperties
<1>5. r \in Seq(Elements(s))
  <2>1. \A i \in 1 .. n : s[i] \in Elements(s)
    BY <1>1 DEF Elements
  <2>2. QED  BY <1>1, <1>2, <2>1, SubSeqProperties
<1>6. IsSeq(r)
  BY <1>5, SeqOfSet
<1>7. n - 1 + 1 = n /\ \A i \in 1 .. n : 1 + i - 1 = i
  BY <1>2
<1>8. QED  BY <1>3, <1>4, <1>6, <1>7

\* The tunnel in front of the first message of a record.
LEMMA BufferedIs ==
    ASSUME NEW c, ClientOK(c), NEW rest, Parts(rest),
           NEW d, d = [c EXCEPT !.buffered = rest, !.ok = TRUE]
    PROVE  ClientOK(d) /\ Alike(c, d) /\ d.stale = c.stale /\ d.out = c.out
<1>t. c \in Tunnels(c.log, c.buffered, c.out) /\ OfClient(c.out)
  BY DEF ClientOK, IsTunnel
<1>1. d \in Tunnels(c.log, rest, c.out)
  BY <1>t DEF Tunnels
<1>2. /\ Alike(c, d) /\ d.stale = c.stale /\ d.out = c.out /\ d.buffered = rest
      /\ d.transport = c.transport /\ d.session = c.session
  BY <1>t DEF Alike, Tunnels
<1>3. IsTunnel(d)
  BY <1>t, <1>1, <1>2 DEF IsTunnel, Alike
<1>4. Agrees(d)
  BY <1>2 DEF ClientOK, Agrees, Alike
<1>5. QED  BY <1>2, <1>3, <1>4 DEF ClientOK, Alike

\* The tunnel after j of the records that it reads.
Between(c, in, s, open, ts, d, j) ==
    /\ ClientOK(d) /\ d.stale = c.stale /\ (d.live => d.rx = c.rx)
    /\ Good(d, From(in, j), Out(ts, open, d), s, open)

LEMMA RecordsGood ==
    ASSUME NEW c, ClientOK(c), c.live, NEW in, IsSeq(in), NEW s, NEW open \in BOOLEAN,
           \A i \in 1 .. Len(in) : FromServer(in[i], s.plan),
           NEW n \in 1 .. Len(in),
           \A i \in 1 .. n : in[i].is = "handshake" /\ in[i].key = c.rx,
           s.phase # "hello", s.run \in Nat, s.plan.suite \in Suites,
           NEW ts, OfClient(ts), Good(c, in, Out(ts, open, c), s, open),
           NEW records, records = SubSeq(in, 1, n), NEW d, d = HandleHandshake(c, records)
    PROVE  Between(c, in, s, open, ts, d, n)
<1>all. PICK all : all = c.buffered \o records
  OBVIOUS
<1>b. PICK b : b = Len(c.buffered)
  OBVIOUS
<1>1. IsSeq(c.buffered) /\ b \in Nat /\ \A i \in 1 .. b : c.buffered[i].part = 1
  BY <1>b DEF ClientOK, IsTunnel, Parts, IsSeq
<1>2. IsSeq(records) /\ Len(records) = n /\ \A i \in 1 .. n : records[i] = in[i]
  BY PrefixIs
<1>n. n \in Nat /\ n >= 1 /\ Len(in) \in Nat /\ n <= Len(in)
  BY DEF IsSeq
<1>3. /\ IsSeq(all) /\ Len(all) = b + n
      /\ \A i \in 1 .. b : all[i] = c.buffered[i]
      /\ \A i \in b + 1 .. b + n : all[i] = records[i - b]
  BY <1>1, <1>2, <1>all, <1>b, ConcatIs
<1>rest. PICK rest : rest = IF Last(all).part = 1 THEN <<Last(all)>> ELSE <<>>
  OBVIOUS
<1>4. Parts(rest)
  <2>1. PICK l : l = Last(all)
    OBVIOUS
  <2>2. CASE l.part = 1
    <3>1. rest = <<l>>
      BY <1>rest, <2>1, <2>2
    <3>2. Len(rest) = 1 /\ rest[1] = l
      BY <3>1
    <3>3. IsSeq(rest)
      BY <3>1 DEF IsSeq
    <3>4. QED  BY <2>2, <3>2, <3>3 DEF Parts
  <2>3. CASE l.part # 1
    <3>1. rest = <<>>
      BY <1>rest, <2>1, <2>3
    <3>2. QED  BY <3>1 DEF Parts, IsSeq
  <2>4. QED  BY <2>2, <2>3
<1>a. PICK a : a = [c EXCEPT !.buffered = rest, !.ok = TRUE]
  OBVIOUS
<1>5. ClientOK(a) /\ Alike(c, a) /\ a.stale = c.stale /\ a.out = c.out
  BY <1>4, <1>a, BufferedIs
<1>f. PICK f : f = Handled(a, all)
  OBVIOUS
<1>6. d = f[b + n]
  BY <1>3, <1>a, <1>f, <1>all, <1>rest DEF HandleHandshake
<1>7. f[0] = a /\ \A i \in 1 .. b + n : f[i] = OnePart(f[i - 1], all[i])
  <2>1. Len(all) \in Nat
    BY <1>1, <1>3
  <2>2. \A i \in 0 .. Len(all) : f[i] = OneAfter(a, all, f, i)
    BY <1>f, <2>1, HandledIs
  <2>3. f[0] = a
    <3>1. 0 \in 0 .. Len(all)
      BY <2>1
    <3>2. QED  BY <2>2, <3>1 DEF OneAfter
  <2>4. ASSUME NEW i \in 1 .. b + n PROVE f[i] = OnePart(f[i - 1], all[i])
    <3>1. i \in 0 .. Len(all) /\ i # 0
      BY <1>1, <1>3
    <3>2. QED  BY <2>2, <3>1 DEF OneAfter, OnePart
  <2>5. QED  BY <2>3, <2>4
<1>8. f[b] = a
  <2> DEFINE S == {i \in 0 .. b : f[i] = a}
  <2>1. 0 \in S
    BY <1>1, <1>7
  <2>2. ASSUME NEW k \in 0 .. b - 1, k \in S PROVE k + 1 \in S
    <3>1. PICK i \in 1 .. b + n : i = k + 1
      BY <1>1, <1>n
    <3>2. i \in 1 .. b /\ i - 1 = k /\ i \in 0 .. b
      BY <1>1, <3>1
    <3>3. all[i].part = 1
      BY <1>1, <1>3, <3>2
    <3>4. f[i] = OnePart(f[k], all[i])
      BY <1>7, <3>2
    <3>5. f[i] = f[k]
      BY <3>3, <3>4 DEF OnePart
    <3>6. QED  BY <2>2, <3>1, <3>2, <3>5
  <2> HIDE DEF S
  <2>3. \A k \in 0 .. b : k \in S
    BY <1>1, <2>1, <2>2, Counting
  <2>4. b \in S
    BY <1>1, <2>3
  <2>5. QED  BY <2>4 DEF S
<1>9. Between(c, in, s, open, ts, a, 0)
  <2>1. IsRest(From(in, 0), in, 0)
    <3>1. 0 \in 0 .. Len(in)
      BY <1>n
    <3>2. QED  BY <3>1, FromIs
  <2>2. Good(c, From(in, 0), Out(ts, open, c), s, open)
    BY <2>1, ShiftGood
  <2>3. Out(ts, open, a) = Out(ts, open, c)
    BY <1>5 DEF Out
  <2>4. Good(a, From(in, 0), Out(ts, open, a), s, open)
    BY <1>5, <2>2, <2>3, AlikeGood
  <2>5. QED  BY <1>5, <2>4 DEF Between, Alike
<1>10. ASSUME NEW j \in 0 .. n - 1, Between(c, in, s, open, ts, f[b + j], j)
       PROVE  Between(c, in, s, open, ts, f[b + (j + 1)], j + 1)
  <2>k. PICK k : k = j + 1
    OBVIOUS
  <2>1. k \in 1 .. n /\ k - 1 = j /\ j \in 0 .. Len(in) - 1
    BY <1>n, <2>k
  <2>i. PICK i \in 1 .. b + n : i = b + k
    BY <1>1, <1>n, <2>1
  <2>2. i - b = k /\ i \in b + 1 .. b + n /\ i - 1 = b + j
    BY <1>1, <1>n, <2>1, <2>i, <2>k
  <2>x. PICK x : x = f[b + j]
    OBVIOUS
  <2>y. PICK y : y = f[i]
    OBVIOUS
  <2>3. all[i] = in[k]
    BY <1>2, <1>3, <2>1, <2>2
  <2>4. y = OnePart(x, in[k])
    BY <1>7, <2>2, <2>3, <2>x, <2>y
  <2>in. PICK now : now = From(in, j)
    OBVIOUS
  <2>5. IsRest(From(in, k), now, 1) /\ now[1] = in[k] /\ k \in 1 .. Len(in)
    BY <2>1, <2>k, <2>in, FromNext
  <2>6. FromServer(now[1], s.plan) /\ now[1].is = "handshake" /\ now[1].key = c.rx
    BY <2>1, <2>5
  <2>7. /\ ClientOK(x) /\ x.stale = c.stale /\ (x.live => x.rx = c.rx)
        /\ Good(x, now, Out(ts, open, x), s, open)
    BY <1>10, <2>x, <2>in DEF Between
  <2>8. x.live => now[1].key = x.rx
    BY <2>6, <2>7
  <2>9. y = OnePart(x, now[1])
    BY <2>4, <2>5
  <2>r. PICK rest2 : rest2 = From(in, k)
    OBVIOUS
  <2>e. IsRest(rest2, now, 1) /\ (s.phase = "hello" => now = <<>>)
    BY <2>5, <2>r
  <2>o. ClientOK(x) /\ Good(x, now, Out(ts, open, x), s, open)
    BY <2>7
  <2>g. Greeting(s, now) /\ Readable(x, now[1], s)
    BY <2>6, <2>8, <2>e DEF Greeting, Readable
  <2>10. Handed(x, y, rest2, s, open, ts)
    BY <2>e, <2>o, <2>g, <2>9, PartGood
  <2>11. Between(c, in, s, open, ts, y, k)
    BY <2>7, <2>10, <2>r DEF Between, Handed
  <2>12. y = f[b + (j + 1)]
    BY <2>i, <2>k, <2>y
  <2>13. QED  BY <2>11, <2>12, <2>k
<1>11. Between(c, in, s, open, ts, f[b + n], n)
  <2> DEFINE S == {j \in 0 .. n : Between(c, in, s, open, ts, f[b + j], j)}
  <2>1. 0 \in S
    <3>1. b + 0 = b /\ 0 \in 0 .. n
      BY <1>1, <1>n
    <3>2. QED  BY <1>8, <1>9, <3>1
  <2>2. ASSUME NEW k \in 0 .. n - 1, k \in S PROVE k + 1 \in S
    <3>1. k + 1 \in 0 .. n
      BY <1>n
    <3>2. QED  BY <1>10, <2>2, <3>1
  <2> HIDE DEF S
  <2>3. \A k \in 0 .. n : k \in S
    BY <1>n, <2>1, <2>2, Counting
  <2>4. n \in S
    BY <1>n, <2>3
  <2>5. QED  BY <2>4 DEF S
<1>12. QED  BY <1>6, <1>11

OfServer(in, plan) == IsSeq(in) /\ \A i \in 1 .. Len(in) : FromServer(in[i], plan)

\* Several records are read at once when they hold messages and have the same key.
Together(in, n) == n > 1 => \A i \in 1 .. n : in[i].is = "handshake" /\ in[i].key = in[1].key

Reads(c, d, rest, s, open, ts) ==
    ClientOK(d) /\ d.stale = c.stale /\ Good(d, rest, Out(ts, open, d), s, open)

\* A record, or some that hold messages only, is read: ReceiveData.
LEMMA DataGood ==
    ASSUME NEW c, ClientOK(c), NEW in, NEW s, NEW open \in BOOLEAN,
           OfServer(in, s.plan), Greeting(s, in),
           NEW n, n \in 1 .. Len(in), Together(in, n),
           NEW ts, OfClient(ts), Good(c, in, Out(ts, open, c), s, open),
           NEW records, records = SubSeq(in, 1, n), NEW d, d = ReceiveData(c, records)
    PROVE  Reads(c, d, From(in, n), s, open, ts)
<1>in. IsSeq(in) /\ \A i \in 1 .. Len(in) : FromServer(in[i], s.plan)
  BY DEF OfServer
<1>to. n > 1 => \A i \in 1 .. n : in[i].is = "handshake" /\ in[i].key = in[1].key
  BY DEF Together
<1>n. n \in Nat /\ n >= 1 /\ Len(in) \in Nat /\ 1 \in 1 .. n /\ 1 \in 1 .. Len(in)
      /\ n \in 0 .. Len(in)
  BY <1>in DEF IsSeq
<1>r. PICK r : r = in[1]
  OBVIOUS
<1>1. records[1] = r /\ FromServer(r, s.plan)
  BY <1>in, <1>n, <1>r, PrefixIs
<1>2. s.phase # "hello" /\ s.run \in Nat /\ s.plan.suite \in Suites
  <2>1. in # <<>>
    <3>1. ASSUME in = <<>> PROVE Len(in) = 0
      BY <3>1
    <3>2. QED  BY <1>n, <3>1
  <2>2. QED  BY <2>1 DEF Greeting
<1>y. PICK y : y = From(in, n)
  OBVIOUS
<1>3. IsRest(y, in, n)
  BY <1>in, <1>n, <1>y, FromIs
<1>o. PICK out : out = Out(ts, open, c)
  OBVIOUS
<1>o2. PICK out2 : out2 = Out(ts, open, d)
  OBVIOUS
<1>4. Good(c, in, out, s, open)
  BY <1>o
<1> SUFFICES ClientOK(d) /\ d.stale = c.stale /\ Good(d, y, out2, s, open)
  BY <1>y, <1>o2 DEF Reads
<1>5. CASE d = c
  <2>1. out2 = out
    BY <1>5, <1>o, <1>o2
  <2>2. Good(c, y, out, s, open)
    BY <1>3, <1>4, ShiftGood
  <2>3. QED  BY <1>5, <2>1, <2>2
<1>6. CASE /\ Dead(d) /\ d.stale = c.stale
           /\ ~(c.live /\ c.rx = 0 /\ r.is = "handshake" /\ r.part = 1 /\ r.key = 0)
  <2>1. Good(d, y, out2, s, open)
    BY <1>n, <1>r, <1>2, <1>3, <1>4, <1>6, DeadGood
  <2>2. QED  BY <1>6, <2>1, DeadIsOK
<1>7. CASE c.live /\ r.key # c.rx /\ d = Failed(c)
  <2>1. Dead(d) /\ d.stale = c.stale
    BY <1>7, FailedIs DEF ClientOK
  <2>2. QED  BY <1>6, <1>7, <2>1
<1>8. CASE c.live /\ r.key = c.rx /\ r.is = "handshake" /\ d = HandleHandshake(c, records)
  <2>1. \A i \in 1 .. n : in[i].is = "handshake" /\ in[i].key = c.rx
    <3>1. CASE n > 1
      BY <1>8, <1>r, <1>to, <3>1
    <3>2. CASE n = 1
      <4>1. \A i \in 1 .. n : i = 1
        BY <3>2
      <4>2. QED  BY <1>8, <1>r, <4>1
    <3>3. QED  BY <1>n, <3>1, <3>2
  <2>2. Between(c, in, s, open, ts, d, n)
    BY <1>in, <1>n, <1>2, <1>8, <2>1, RecordsGood
  <2>3. QED  BY <2>2, <1>y, <1>o2 DEF Between
<1>9. CASE c.live /\ r.key = c.rx /\ r.is = "ccs" /\ d = HandleChangeCipherSpec(c)
  <2>1. ClientOK(d) /\ d.stale = c.stale /\ (Dead(d) \/ Switched(c, d))
    BY <1>9, ChangeCipherSpecHandled
  <2>2. CASE Dead(d)
    BY <1>6, <1>9, <2>1, <2>2
  <2>3. CASE Switched(c, d)
    <3>1. /\ c.state \in {"Client_Finished", "Server_Send_Change_Cipher_Spec"}
          /\ d.state = "Server_Send_Change_Cipher_Spec" /\ d.rx = c.run /\ d.tx = c.tx
          /\ d.run = c.run /\ d.certs = c.certs /\ d.cipher = c.cipher /\ d.out = c.out
      BY <2>3 DEF Switched, Same
    <3>2. out2 = out
      BY <3>1, <1>o, <1>o2 DEF Out
    <3>3. OfClient(out)
      <4>1. OfClient(c.out)
        BY DEF ClientOK, IsTunnel
      <4>2. QED  BY <4>1, <1>o, OutIs
    <3>4. More(out, out2)
      BY <3>2, <3>3, MoreSelf
    <3>5. Settled(c, s.plan) => Settled(d, s.plan)
      BY <3>1 DEF Settled
    <3>6. ActiveOK(d, s)
      BY <3>1 DEF ActiveOK
    <3>7. c.state \in (Handshaking \union {"Active"}) \ {"Client_Hello"}
      BY <3>1 DEF Handshaking
    <3>8. /\ NoServerHellos(in) => NoServerHellos(y)
          /\ FinishedOK(in, s) => FinishedOK(y, s)
          /\ First(y, s, open) => First(in, s, open)
      BY <1>3, <1>4, RestWires, ShiftGood
    <3>9. Good(d, y, out2, s, open)
      BY <1>4, <1>9, <3>1, <3>4, <3>5, <3>6, <3>7, <3>8, OnGood
    <3>10. QED  BY <2>1, <3>9
  <2>4. QED  BY <2>1, <2>2, <2>3
<1>10. CASE c.live /\ r.key = c.rx /\ r.is = "alert" /\ d = HandleAlert(c, r.value)
  <2>1. Dead(d) /\ d.stale = c.stale
    BY <1>10, AlertHandled
  <2>2. QED  BY <1>6, <1>10, <2>1
<1>11. QED
  <2>1. r.is \in {"handshake", "ccs", "alert", "data"}
    BY <1>1 DEF FromServer
  <2>2. CASE ~c.live
    BY <1>5, <2>2 DEF ReceiveData
  <2>3. CASE c.live /\ r.key # c.rx
    BY <1>1, <1>7, <2>3 DEF ReceiveData
  <2>4. CASE c.live /\ r.key = c.rx
    <3>1. CASE r.is = "handshake"
      BY <1>1, <1>8, <2>4, <3>1 DEF ReceiveData
    <3>2. CASE r.is = "ccs"
      BY <1>1, <1>9, <2>4, <3>2 DEF ReceiveData
    <3>3. CASE r.is = "alert"
      BY <1>1, <1>10, <2>4, <3>3 DEF ReceiveData
    <3>4. CASE r.is = "data"
      BY <1>1, <1>5, <2>4, <3>4 DEF ReceiveData
    <3>5. QED  BY <2>1, <3>1, <3>2, <3>3, <3>4
  <2>5. QED  BY <2>2, <2>3, <2>4

-----------------------------------------------------------------------------
(* The steps of the connector *)

\* What the client has sent is out.
LEMMA PutsIs ==
    ASSUME NEW c, ClientOK(c), NEW d, d = [c EXCEPT !.out = <<>>]
    PROVE  ClientOK(d) /\ Alike(c, d) /\ d.stale = c.stale /\ d.out = <<>>
<1>t. c \in Tunnels(c.log, c.buffered, c.out) /\ Parts(c.buffered)
  BY DEF ClientOK, IsTunnel
<1>1. d \in Tunnels(c.log, c.buffered, <<>>)
  BY <1>t DEF Tunnels
<1>2. /\ Alike(c, d) /\ d.stale = c.stale /\ d.out = <<>> /\ d.buffered = c.buffered
      /\ d.transport = c.transport /\ d.session = c.session
  BY <1>t DEF Alike, Tunnels
<1>3. OfClient(<<>>)
  BY DEF OfClient, IsSeq
<1>4. IsTunnel(d)
  BY <1>t, <1>1, <1>2, <1>3 DEF IsTunnel, Alike
<1>5. Agrees(d)
  BY <1>2 DEF ClientOK, Agrees, Alike
<1>6. QED  BY <1>2, <1>4, <1>5 DEF ClientOK, Alike

\* The processor's transport state, between two records.
LEMMA TransportIs ==
    ASSUME NEW c, ClientOK(c)
    PROVE  /\ c.transport = "active" <=> c.live /\ c.state = "Active"
           /\ c.transport = "login" <=> c.live /\ c.state \in Handshaking
           /\ c.state = "Active" => c.live
           /\ c.session => c.live /\ c.state = "Active"
           /\ c.live => c.run \in Nat \ {0}
<1>1. IsTunnel(c) /\ Agrees(c)
  BY DEF ClientOK
<1>2. CASE ~c.live
  BY <1>1, <1>2 DEF Agrees
<1>3. CASE c.live
  <2>1. c.transport = TransportOf(c.state) /\ (c.session => c.state = "Active") /\ c.run >= 1
    BY <1>1, <1>3 DEF Agrees
  <2>2. c.run \in Nat
    BY <1>1 DEF IsTunnel, Tunnels
  <2>3. /\ TransportOf(c.state) = "active" <=> c.state = "Active"
        /\ TransportOf(c.state) = "login" <=> c.state \in Handshaking
    BY DEF TransportOf, Handshaking
  <2>4. QED  BY <1>3, <2>1, <2>2, <2>3
<1>4. c.live \in BOOLEAN
  BY <1>1 DEF IsTunnel, Tunnels
<1>5. QED  BY <1>2, <1>3, <1>4

\* What Receive does, but for the call.
LEMMA ReceiveCases ==
    ASSUME Receive
    PROVE  \E n, c :
              /\ n \in 1 .. Len(toClient)
              /\ c = ReceiveData(client, SubSeq(toClient, 1, n))
              /\ n > 1 => \A i \in 1 .. n : SubSeq(toClient, 1, n)[i].is = "handshake"
                             /\ SubSeq(toClient, 1, n)[i].key = SubSeq(toClient, 1, n)[1].key
              /\ toClient' = From(toClient, n)
              /\ Puts(c)
              /\ \/ call' = call /\ (Looping => c.transport = "login")
                 \/ Looping /\ call' = "connected" /\ c.transport # "login"
                 \/ /\ Looping /\ call' = "idle"
                    /\ c.transport # "login" /\ c.transport # "active"
              /\ ~Idle /\ UNCHANGED <<logins, server, closed>>
BY DEF Receive, Looped, From

LEMMA ReceiveInv ==
    ASSUME IInv, Receive
    PROVE  IInv'
<1>c. PICK n, c :
              /\ n \in 1 .. Len(toClient)
              /\ c = ReceiveData(client, SubSeq(toClient, 1, n))
              /\ n > 1 => \A i \in 1 .. n : SubSeq(toClient, 1, n)[i].is = "handshake"
                             /\ SubSeq(toClient, 1, n)[i].key = SubSeq(toClient, 1, n)[1].key
              /\ toClient' = From(toClient, n)
              /\ Puts(c)
              /\ \/ call' = call /\ (Looping => c.transport = "login")
                 \/ Looping /\ call' = "connected" /\ c.transport # "login"
                 \/ /\ Looping /\ call' = "idle"
                    /\ c.transport # "login" /\ c.transport # "active"
              /\ ~Idle /\ UNCHANGED <<logins, server, closed>>
  BY ReceiveCases, Zenon
<1>i. /\ ClientOK(client) /\ WiresOK(toClient, toServer, server.plan) /\ ServerOK /\ CallOK
      /\ IF client.stale THEN StaleOK ELSE FreshOK
  BY <1>c DEF IInv
<1>in. PICK in : in = toClient
  OBVIOUS
<1>open. PICK open \in BOOLEAN : open = (closed = "open")
  OBVIOUS
<1>1. /\ IsSeq(in) /\ (\A i \in 1 .. Len(in) : FromServer(in[i], server.plan))
      /\ OfClient(toServer) /\ n \in 1 .. Len(in)
  BY <1>c, <1>i, <1>in DEF WiresOK, OfClient
<1>n. n \in Nat /\ Len(in) \in Nat /\ n >= 1 /\ n <= Len(in)
  <2>1. Len(in) \in Nat
    BY <1>1 DEF IsSeq
  <2>2. QED  BY <1>1, <2>1
<1>r. PICK records : records = SubSeq(in, 1, n)
  OBVIOUS
<1>2. \A i \in 1 .. n : records[i] = in[i]
  BY <1>1, <1>r, PrefixIs
<1>3. n > 1 => \A i \in 1 .. n : in[i].is = "handshake" /\ in[i].key = in[1].key
  <2>1. n > 1 => \A i \in 1 .. n : records[i].is = "handshake" /\ records[i].key = records[1].key
    BY <1>c, <1>in, <1>r
  <2>2. 1 \in 1 .. n
    BY <1>n
  <2>3. QED  BY <1>2, <2>1, <2>2
<1>4. in # <<>>
  <2>1. ASSUME in = <<>> PROVE Len(in) = 0
    BY <2>1
  <2>2. QED  BY <1>n, <2>1
<1>5. server.phase # "hello" /\ closed # "reset"
  BY <1>i, <1>in, <1>4 DEF ServerOK
<1>6. Greeting(server, in)
  <2>1. server.plan \in Servers /\ server.run \in Nat
    BY <1>i DEF ServerOK
  <2>2. server.plan.suite \in Suites
    BY <2>1, TlsAssumption
  <2>3. QED  BY <1>5, <2>1, <2>2 DEF Greeting
<1>rest. PICK rest : rest = From(in, n)
  OBVIOUS
<1>7. /\ IsSeq(rest) /\ IsRest(rest, in, n)
      /\ \A i \in 1 .. Len(rest) : n + i \in 1 .. Len(in) /\ rest[i] = in[n + i]
  <2>1. n \in 0 .. Len(in)
    BY <1>n
  <2>2. /\ IsSeq(rest) /\ Len(rest) = Len(in) - n
        /\ \A i \in 1 .. Len(in) - n : rest[i] = in[n + i]
        /\ IsRest(rest, in, n)
    BY <1>1, <1>rest, <2>1, FromIs
  <2>3. \A i \in 1 .. Len(in) - n : n + i \in 1 .. Len(in)
    BY <1>n
  <2>4. QED  BY <2>2, <2>3
<1>8. ClientOK(c) /\ c.stale = client.stale
      /\ (client.stale => Dead(c) /\ closed # "open")
      /\ (~client.stale => Good(c, rest, Out(toServer, open, c), server, open))
  <2>1. c = ReceiveData(client, records)
    BY <1>c, <1>in, <1>r
  <2>2. CASE ~client.stale
    <3>1. Good(client, in, toServer, server, open)
      BY <1>i, <1>in, <1>open, <2>2 DEF FreshOK
    <3>2. Out(toServer, open, client) = toServer
      <4>1. client.out = <<>>
        BY <1>i DEF CallOK
      <4>2. toServer \in Seq(Elements(toServer))
        BY <1>1, SeqIs DEF OfClient
      <4>3. toServer \o <<>> = toServer
        BY <4>2, ConcatEmptySeq
      <4>4. QED  BY <4>1, <4>3 DEF Out
    <3>3. Good(client, in, Out(toServer, open, client), server, open)
      BY <3>1, <3>2
    <3>4. OfServer(in, server.plan) /\ Together(in, n)
      BY <1>1, <1>3 DEF OfServer, Together
    <3>5. Reads(client, c, From(in, n), server, open, toServer)
      BY <1>i, <1>1, <1>6, <1>r, <2>1, <3>3, <3>4, DataGood
    <3>6. QED  BY <2>2, <3>5, <1>rest DEF Reads
  <2>3. CASE client.stale
    <3>1. StaleOK
      BY <1>i, <2>3
    <3>2. closed # "open"
      BY <1>i, <1>5, <3>1 DEF StaleOK, ServerOK
    <3>3. records[1].is = "alert"
      <4>1. 1 \in 1 .. n /\ 1 \in 1 .. Len(in)
        BY <1>n
      <4>2. QED  BY <1>2, <1>in, <3>1, <4>1 DEF StaleOK
    <3>4. IsTunnel(client) /\ Agrees(client) /\ client.live \in BOOLEAN
      BY <1>i DEF ClientOK, IsTunnel, Tunnels
    <3>5. Dead(c) /\ c.stale = client.stale
      <4>1. CASE ~client.live
        <5>1. c = client
          BY <2>1, <4>1 DEF ReceiveData
        <5>2. QED  BY <3>4, <4>1, <5>1 DEF Dead
      <4>2. CASE client.live /\ records[1].key # client.rx
        <5>1. c = Failed(client)
          BY <2>1, <4>2 DEF ReceiveData
        <5>2. QED  BY <3>4, <5>1, FailedIs
      <4>3. CASE client.live /\ records[1].key = client.rx
        <5>1. c = HandleAlert(client, records[1].value)
          BY <2>1, <3>3, <4>3 DEF ReceiveData
        <5>2. QED  BY <1>i, <5>1, AlertHandled
      <4>4. QED  BY <3>4, <4>1, <4>2, <4>3
    <3>6. QED  BY <2>3, <3>2, <3>5, DeadIsOK
  <2>4. QED  BY <2>2, <2>3
<1>9. /\ client' = [c EXCEPT !.out = <<>>] /\ toServer' = Out(toServer, open, c)
      /\ toClient' = rest /\ server' = server /\ closed' = closed /\ logins' = logins
  BY <1>c, <1>in, <1>open, <1>rest DEF Puts, Out
<1>10. /\ ClientOK(client') /\ Alike(c, client') /\ client'.stale = client.stale
       /\ client'.out = <<>>
  BY <1>8, <1>9, PutsIs
<1>11. WiresOK(toClient', toServer', server'.plan)
  <2>1. OfClient(c.out)
    BY <1>8 DEF ClientOK, IsTunnel
  <2>2. OfClient(toServer')
    BY <1>1, <1>9, <2>1, OutIs
  <2>3. IsSeq(toClient') /\ \A i \in 1 .. Len(toClient') : FromServer(toClient'[i], server'.plan)
    BY <1>1, <1>7, <1>9
  <2>4. QED  BY <2>2, <2>3 DEF WiresOK, OfClient
<1>12. ServerOK'
  BY <1>i, <1>5, <1>9 DEF ServerOK
<1>13. CallOK'
  <2>1. call' \in {"idle", "login", "sending", "connected"}
    BY <1>c, <1>i DEF CallOK
  <2>2. call' = "idle" => client'.state # "Active"
    BY <1>c, <1>8, <1>10, TransportIs DEF Idle, Alike
  <2>3. QED  BY <1>i, <1>9, <1>10, <2>1, <2>2 DEF CallOK, Idle
<1>14. ASSUME client'.stale PROVE StaleOK'
  <2>1. StaleOK /\ Dead(c) /\ closed # "open"
    BY <1>i, <1>8, <1>10, <1>14
  <2>2. call' = "connected"
    BY <1>c, <2>1 DEF StaleOK, Looping
  <2>3. toServer' = toServer
    BY <1>9, <1>open, <2>1 DEF Out
  <2>4. client'.state = "ProtocolReset"
    BY <1>10, <2>1 DEF Alike, Dead, Agrees
  <2>5. \A i \in 1 .. Len(rest) : rest[i].is = "alert" /\ rest[i].key = 0
    <3>1. \A i \in 1 .. Len(in) : in[i].is = "alert" /\ in[i].key = 0
      BY <1>in, <2>1 DEF StaleOK
    <3>2. QED  BY <1>7, <3>1
  <2>6. QED  BY <1>9, <2>1, <2>2, <2>3, <2>4, <2>5 DEF StaleOK
<1>15. ASSUME ~client'.stale PROVE FreshOK'
  <2>1. FreshOK /\ ~client.stale
    BY <1>i, <1>10, <1>15
  <2>2. Good(c, rest, Out(toServer, open, c), server, open)
    BY <1>8, <2>1
  <2>3. Good(client', toClient', toServer', server', open)
    BY <1>9, <1>10, <2>2, AlikeGood
  <2>4. ASSUME First(rest, server, open) PROVE Looping'
    <3>1. First(in, server, open)
      <4>1. Good(client, in, toServer, server, open)
        BY <1>in, <1>open, <2>1 DEF FreshOK
      <4>2. QED  BY <1>7, <2>4, <4>1, ShiftGood
    <3>2. Looping
      BY <1>in, <1>open, <2>1, <3>1 DEF FreshOK
    <3>3. c.live /\ c.state = "Client_Hello"
      BY <2>2, <2>4 DEF Good, FirstOK
    <3>4. c.transport = "login"
      BY <1>8, <3>3, TransportIs DEF Handshaking
    <3>5. call' = call
      BY <1>c, <3>2, <3>4
    <3>6. QED  BY <3>2, <3>5 DEF Looping
  <2>5. QED  BY <1>9, <1>open, <2>3, <2>4 DEF FreshOK
<1>16. QED  BY <1>10, <1>11, <1>12, <1>13, <1>14, <1>15 DEF IInv

LEMMA LogoutOK ==
    ASSUME NEW c, ClientOK(c), NEW d, d = Logout(c)
    PROVE  ClientOK(d) /\ d.stale = c.stale /\ d.out = c.out /\ Ended(d)
<1>1. IsTunnel(c) /\ Agrees(c) /\ (c.live => c.state # "ProtocolReset")
  BY DEF ClientOK
<1>2. /\ IsTunnel(d) /\ Agrees(d) /\ Left(c, d) /\ d.live = c.live /\ Ended(d)
      /\ d.state = "ProtocolReset" => c.state = "ProtocolReset"
  BY <1>1, LogoutIs
<1>3. d.state \in States
  BY <1>2 DEF Ended, States
<1>4. QED  BY <1>1, <1>2, <1>3 DEF ClientOK, Left

\* A tunnel that has ended a session that nobody waits for.
LEMMA EndedGood ==
    ASSUME NEW d, Ended(d), NEW in, NEW out, NEW s, NEW open, ~First(in, s, open)
    PROVE  Good(d, in, out, s, open)
<1>1. d.state \notin Handshaking \union {"Active"}
  BY DEF Ended, Handshaking
<1>2. QED  BY <1>1, NotEngagedGood

\* An authenticated tunnel is active.
LEMMA AuthenticatedIs ==
    ASSUME NEW c, ClientOK(c)
    PROVE  IsAuthenticated(c) <=> c.state = "Active"
BY TransportIs DEF IsAuthenticated, TunnelActive

LEMMA ReceiveFailsInv ==
    ASSUME IInv, ReceiveFails
    PROVE  IInv'
<1>1. /\ Looping /\ closed = "reset" /\ call' \in {"idle", "connected"}
      /\ call' = "idle" => call = "login"
      /\ client' = client \/ client' = Logout(client)
      /\ call = "login" /\ IsAuthenticated(client) => client' = Logout(client)
      /\ UNCHANGED <<logins, toServer, toClient, server, closed>>
  BY DEF ReceiveFails, Looping, wires
<1>2. /\ ClientOK(client) /\ WiresOK(toClient, toServer, server.plan) /\ ServerOK /\ CallOK
      /\ ~client.stale /\ FreshOK
  BY <1>1 DEF IInv, Idle, Looping, StaleOK
<1>3. toClient = <<>>
  BY <1>1, <1>2 DEF ServerOK
<1>4. ~First(toClient, server, closed = "open")
  <2>1. \A i \in 1 .. Len(toClient) : FALSE
    BY <1>3
  <2>2. QED  BY <1>1, <2>1 DEF First
<1>5. ClientOK(client') /\ ~client'.stale /\ client'.out = <<>> /\ (client' = client \/ Ended(client'))
  BY <1>1, <1>2, LogoutOK DEF CallOK
<1>6. Good(client', toClient, toServer, server, closed = "open")
  <2>1. CASE client' = client
    BY <1>2, <2>1 DEF FreshOK
  <2>2. CASE Ended(client')
    BY <1>4, <2>2, EndedGood
  <2>3. QED  BY <1>5, <2>1, <2>2
<1>7. FreshOK'
  BY <1>1, <1>4, <1>6 DEF FreshOK
<1>8. call' = "idle" => client'.state # "Active"
  <2>1. ASSUME call' = "idle", client'.state = "Active" PROVE FALSE
    <3>1. client' = client
      BY <1>5, <2>1 DEF Ended
    <3>2. IsAuthenticated(client)
      BY <1>2, <2>1, <3>1, AuthenticatedIs
    <3>3. Ended(client')
      BY <1>1, <1>2, <2>1, <3>2, LogoutOK
    <3>4. QED  BY <2>1, <3>3 DEF Ended
  <2>2. QED  BY <2>1
<1>9. CallOK'
  BY <1>1, <1>2, <1>5, <1>8 DEF CallOK, Idle
<1>10. ServerOK' /\ WiresOK(toClient', toServer', server'.plan)
  BY <1>1, <1>2 DEF ServerOK
<1>11. QED  BY <1>5, <1>7, <1>9, <1>10 DEF IInv

LEMMA SendWaitsInv ==
    ASSUME IInv, SendWaits
    PROVE  IInv'
<1>1. /\ call = "connected" /\ client.transport = "login" /\ call' = "sending"
      /\ UNCHANGED <<client, logins, toServer, toClient, server, closed>>
  BY DEF SendWaits, wires
<1>2. /\ ClientOK(client) /\ WiresOK(toClient, toServer, server.plan) /\ ServerOK /\ CallOK
      /\ IF client.stale THEN StaleOK ELSE FreshOK
  BY <1>1 DEF IInv, Idle
<1>3. client.state \in Handshaking
  BY <1>1, <1>2, TransportIs
<1>4. ~client.stale /\ FreshOK
  BY <1>2, <1>3 DEF StaleOK, Handshaking
<1>5. FreshOK'
  BY <1>1, <1>4 DEF FreshOK, Looping
<1>6. CallOK'
  BY <1>1, <1>2 DEF CallOK, Idle
<1>7. ServerOK' /\ WiresOK(toClient', toServer', server'.plan) /\ ClientOK(client')
  BY <1>1, <1>2 DEF ServerOK
<1>8. QED  BY <1>1, <1>4, <1>5, <1>6, <1>7 DEF IInv

LEMMA DisconnectInv ==
    ASSUME IInv, Disconnect
    PROVE  IInv'
<1>1. /\ call' = "idle"
      /\ IF IsAuthenticated(client) THEN client' = Logout(client) ELSE client' = client
      /\ UNCHANGED <<logins, toServer, toClient, server, closed>>
  BY DEF Disconnect, wires
<1>2. /\ ClientOK(client) /\ WiresOK(toClient, toServer, server.plan) /\ ServerOK /\ CallOK
  BY DEF IInv
<1>3. ClientOK(client') /\ client'.out = <<>> /\ client'.state # "Active"
  <2>1. CASE IsAuthenticated(client)
    <3>1. ClientOK(client') /\ client'.out = client.out /\ Ended(client')
      BY <1>1, <1>2, <2>1, LogoutOK
    <3>2. QED  BY <1>2, <3>1 DEF Ended, CallOK
  <2>2. CASE ~IsAuthenticated(client)
    BY <1>1, <1>2, <2>2, AuthenticatedIs DEF CallOK
  <2>3. QED  BY <2>1, <2>2
<1>4. CallOK' /\ Idle'
  BY <1>1, <1>2, <1>3 DEF CallOK, Idle
<1>5. ServerOK' /\ WiresOK(toClient', toServer', server'.plan)
  BY <1>1, <1>2 DEF ServerOK
<1>6. QED  BY <1>3, <1>4, <1>5 DEF IInv

LEMMA TunnelIs ==
    /\ IsTunnel(Tunnel) /\ Tunnel.live /\ Tunnel.state = "ProtocolReset" /\ Tunnel.run = 0
    /\ Tunnel.cipher = NoCipher /\ Tunnel.certs = 0 /\ Tunnel.rx = 0 /\ Tunnel.tx = 0
    /\ ~Tunnel.stale /\ Tunnel.out = <<>> /\ Tunnel.log = <<>> /\ Tunnel.buffered = <<>>
<1>1. Tunnel \in Tunnels(<<>>, <<>>, <<>>)
  BY DEF Tunnel, Tunnels, AllStates, Ciphers
<1>2. /\ Tunnel.live /\ Tunnel.state = "ProtocolReset" /\ Tunnel.run = 0
      /\ Tunnel.cipher = NoCipher /\ Tunnel.certs = 0 /\ Tunnel.rx = 0 /\ Tunnel.tx = 0
      /\ ~Tunnel.stale /\ Tunnel.out = <<>> /\ Tunnel.log = <<>> /\ Tunnel.buffered = <<>>
  BY DEF Tunnel
<1>3. OfClient(<<>>) /\ Parts(<<>>)
  BY DEF OfClient, Parts, IsSeq
<1>4. IsTunnel(Tunnel)
  BY <1>1, <1>2, <1>3 DEF IsTunnel
<1>5. QED  BY <1>2, <1>4

\* A tunnel that is started.
LEMMA StartedIs ==
    ASSUME NEW c, c = Started
    PROVE  /\ ClientOK(c) /\ c.live /\ c.state = "Client_Hello" /\ c.run = 1
           /\ c.cipher = NoCipher /\ c.certs = 0 /\ c.rx = 0 /\ ~c.stale
           /\ OfClient(c.out) /\ OneHello(<<>>, c.out, 1)
<1>t. PICK t : t = Tunnel
  OBVIOUS
<1>1. /\ IsTunnel(t) /\ t.live /\ t.state # "Client_Hello" /\ t.run = 0
      /\ t.cipher = NoCipher /\ t.certs = 0 /\ t.rx = 0 /\ t.tx = 0
      /\ ~t.stale /\ t.out = <<>>
  BY <1>t, TunnelIs
<1>2. c = SendClientHello(t)
  BY <1>t DEF Started
<1>3. /\ IsTunnel(c) /\ Agrees(c) /\ c.live /\ c.state = "Client_Hello"
      /\ c.run = t.run + 1 /\ c.cipher = t.cipher /\ c.certs = t.certs
      /\ c.rx = t.rx /\ c.stale = t.stale
      /\ c.out = t.out \o HelloRecords(t.run + 1, t.tx)
  BY <1>1, <1>2, HelloSent
<1>4. c.run = 1 /\ t.run + 1 = 1
  BY <1>1, <1>3
<1>5. OfClient(<<>>)
  BY DEF OfClient, IsSeq
<1>6. OneHello(<<>>, <<>> \o HelloRecords(1, 0), 1)
  <2>1. PICK x, run, key : x = <<>> /\ run = 1 /\ key = 0
    OBVIOUS
  <2>2. OfClient(x) /\ run \in Nat \ {0} /\ key \in Nat
    BY <1>5, <2>1
  <2>3. OneHello(x, x \o HelloRecords(run, key), run)
    BY <2>2, HelloAfter
  <2>4. QED  BY <2>1, <2>3
<1>7. c.out = <<>> \o HelloRecords(1, 0)
  <2>1. t.run + 1 = 1 /\ t.tx = 0 /\ t.out = <<>>
    BY <1>1, <1>4
  <2>2. QED  BY <1>3, <2>1
<1>8. OneHello(<<>>, c.out, 1)
  BY <1>6, <1>7
<1>9. ClientOK(c)
  BY <1>3 DEF ClientOK, States
<1>10. OfClient(c.out)
  BY <1>3 DEF IsTunnel
<1>11. QED  BY <1>1, <1>3, <1>4, <1>8, <1>9, <1>10

LEMMA ServerIs ==
    ASSUME NEW plan, NEW s, s = Server(plan)
    PROVE  /\ s = [plan |-> s.plan, phase |-> s.phase, log |-> s.log,
                   run |-> s.run, rx |-> s.rx, tx |-> s.tx, asked |-> s.asked]
           /\ s.plan = plan /\ s.phase = "hello" /\ s.run = 0 /\ s.rx = 0 /\ s.tx = 0
BY DEF Server

\* A new socket.
LEMMA NewSocket ==
    ASSUME NEW c, ClientOK(c), ConnectsAndPuts(c)
    PROVE  /\ ClientOK(client') /\ Alike(c, client') /\ client'.out = <<>>
           /\ client'.stale <=> c.state # "Client_Hello"
           /\ toServer' = c.out /\ toClient' = <<>> /\ closed' = "open"
           /\ server'.phase = "hello" /\ server'.run = 0 /\ server'.rx = 0 /\ server'.tx = 0
           /\ WiresOK(toClient', toServer', server'.plan) /\ ServerOK'
<1>1. /\ client' = [c EXCEPT !.out = <<>>, !.stale = c.state # "Client_Hello"]
      /\ toServer' = c.out /\ toClient' = <<>> /\ closed' = "open"
      /\ server' \in {Server(plan) : plan \in Servers}
  BY DEF ConnectsAndPuts
<1>2. PICK plan \in Servers : server' = Server(plan)
  BY <1>1
<1>3. /\ server' = [plan |-> server'.plan, phase |-> server'.phase, log |-> server'.log,
                    run |-> server'.run, rx |-> server'.rx, tx |-> server'.tx,
                    asked |-> server'.asked]
      /\ server'.plan = plan /\ server'.phase = "hello" /\ server'.run = 0
      /\ server'.rx = 0 /\ server'.tx = 0
  BY <1>2, ServerIs
<1>4. ServerOK'
  BY <1>1, <1>3 DEF ServerOK
<1>t. c \in Tunnels(c.log, c.buffered, c.out) /\ Parts(c.buffered) /\ OfClient(c.out)
  BY DEF ClientOK, IsTunnel
<1>b. PICK b \in BOOLEAN : b = (c.state # "Client_Hello")
  OBVIOUS
<1>d. PICK d : d = [c EXCEPT !.out = <<>>, !.stale = b]
  OBVIOUS
<1>5. d \in Tunnels(c.log, c.buffered, <<>>)
  BY <1>t, <1>d DEF Tunnels
<1>6. /\ Alike(c, d) /\ d.stale = b /\ d.out = <<>> /\ d.buffered = c.buffered
      /\ d.transport = c.transport /\ d.session = c.session
  BY <1>t, <1>d DEF Alike, Tunnels
<1>7. OfClient(<<>>)
  BY DEF OfClient, IsSeq
<1>8. IsTunnel(d)
  BY <1>t, <1>5, <1>6, <1>7 DEF IsTunnel, Alike
<1>9. Agrees(d)
  BY <1>6 DEF ClientOK, Agrees, Alike
<1>10. ClientOK(d)
  BY <1>6, <1>8, <1>9 DEF ClientOK, Alike
<1>11. client' = d
  BY <1>1, <1>b, <1>d
<1>12. WiresOK(toClient', toServer', server'.plan)
  BY <1>1, <1>t DEF WiresOK, OfClient, IsSeq
<1>13. QED  BY <1>1, <1>3, <1>4, <1>6, <1>10, <1>11, <1>12, <1>b

\* A tunnel that is started on a new socket.
LEMMA StartedInv ==
    ASSUME NEW c, c = Started, ConnectsAndPuts(c),
           call' \in {"login", "sending"}, logins' \in 0 .. MaxLogins
    PROVE  IInv'
<1>1. /\ ClientOK(c) /\ c.live /\ c.state = "Client_Hello" /\ c.run = 1
      /\ c.cipher = NoCipher /\ c.certs = 0 /\ c.rx = 0
      /\ OfClient(c.out) /\ OneHello(<<>>, c.out, 1)
  BY StartedIs
<1>2. /\ ClientOK(client') /\ Alike(c, client') /\ client'.out = <<>> /\ ~client'.stale
      /\ toServer' = c.out /\ toClient' = <<>> /\ closed' = "open"
      /\ server'.phase = "hello" /\ server'.run = 0
      /\ WiresOK(toClient', toServer', server'.plan) /\ ServerOK'
  BY <1>1, NewSocket
<1>in. PICK in : in = toClient'
  OBVIOUS
<1>s. PICK s : s = server'
  OBVIOUS
<1>3. \A i \in 1 .. Len(in) : FALSE
  BY <1>2, <1>in
<1>4. FirstOK(c, in, s, TRUE)
  BY <1>1, <1>3 DEF FirstOK
<1>5. Settled(c, s.plan)
  BY <1>1 DEF Settled
<1>6. HellosOK(c, in, c.out, s)
  <2>1. \A i \in 1 .. Len(c.out) :
           IsHello(c.out[i]) =>
              /\ c.out[i].value.run = 1
              /\ \A j \in 1 .. Len(c.out) : IsHello(c.out[j]) => j = i
    BY <1>1 DEF OneHello
  <2>2. s.run < c.run
    BY <1>1, <1>2, <1>s
  <2>3. QED  BY <1>1, <1>3, <2>1, <2>2 DEF HellosOK
<1>7. AnswersOK(c, in) /\ FinishedOK(in, s) /\ ActiveOK(c, s) /\ s.run <= c.run
  BY <1>1, <1>2, <1>3, <1>s DEF AnswersOK, FinishedOK, ActiveOK
<1>8. Good(c, in, c.out, s, TRUE)
  BY <1>4, <1>5, <1>6, <1>7 DEF Good, InStep
<1>9. Good(client', in, c.out, s, TRUE)
  BY <1>2, <1>8, AlikeGood
<1>10. FreshOK'
  BY <1>2, <1>9, <1>in, <1>s DEF FreshOK, Looping
<1>11. CallOK'
  BY <1>2 DEF CallOK, Idle
<1>12. QED  BY <1>2, <1>10, <1>11 DEF IInv

LEMMA ConnectInv ==
    ASSUME IInv, Connect
    PROVE  IInv'
<1>1. ConnectsAndPuts(Started) /\ call' = "login" /\ logins' \in 0 .. MaxLogins
  <2>1. logins \in 0 .. MaxLogins
    BY DEF IInv, CallOK
  <2>2. MaxLogins \in Nat
    BY TlsAssumption
  <2>3. logins < MaxLogins /\ logins' = logins + 1
    BY DEF Connect
  <2>4. logins' \in 0 .. MaxLogins
    BY <2>1, <2>2, <2>3
  <2>5. QED  BY <2>4 DEF Connect
<1>c. PICK c : c = Started
  OBVIOUS
<1>2. QED  BY <1>1, <1>c, StartedInv

\* A session whose socket is replaced under it.
LEMMA ReplacedInv ==
    ASSUME NEW c, ClientOK(c), c.state = "Active", c.rx = c.run, c.tx = c.run,
           \A i \in 1 .. Len(c.out) : c.out[i].key # 0,
           ConnectsAndPuts(c), call' = "connected", logins' \in 0 .. MaxLogins
    PROVE  IInv'
<1>1. /\ ClientOK(client') /\ Alike(c, client') /\ client'.out = <<>> /\ client'.stale
      /\ toServer' = c.out /\ toClient' = <<>> /\ closed' = "open"
      /\ server'.phase = "hello" /\ server'.rx = 0 /\ server'.tx = 0
      /\ WiresOK(toClient', toServer', server'.plan) /\ ServerOK'
  BY NewSocket
<1>2. \A i \in 1 .. Len(toClient') : FALSE
  BY <1>1
<1>3. StaleOK'
  BY <1>1, <1>2 DEF StaleOK, Alike
<1>4. CallOK'
  BY <1>1 DEF CallOK, Idle
<1>5. QED  BY <1>1, <1>3, <1>4 DEF IInv

\* An active tunnel is on the last handshake's keys.
LEMMA ActiveKeys ==
    ASSUME IInv, ~Idle, client.state = "Active"
    PROVE  client.live /\ client.rx = client.run /\ client.tx = client.run
<1>1. ClientOK(client) /\ IF client.stale THEN StaleOK ELSE FreshOK
  BY DEF IInv
<1>2. client.live
  BY <1>1, TransportIs
<1>3. CASE client.stale
  BY <1>1, <1>2, <1>3 DEF StaleOK
<1>4. CASE ~client.stale
  <2>1. Good(client, toClient, toServer, server, closed = "open")
    BY <1>1, <1>4 DEF FreshOK
  <2>2. Settled(client, server.plan)
    BY <1>2, <2>1, QuietWires DEF Handshaking
  <2>3. QED  BY <1>2, <2>2 DEF Settled
<1>5. QED  BY <1>3, <1>4

\* What the client sends on the socket that it has.
LEMMA OldSocket ==
    ASSUME NEW c, ClientOK(c), OfClient(toServer), Puts(c),
           NEW open \in BOOLEAN, open = (closed = "open")
    PROVE  /\ ClientOK(client') /\ Alike(c, client') /\ client'.out = <<>>
           /\ client'.stale = c.stale
           /\ toServer' = Out(toServer, open, c) /\ OfClient(toServer')
<1>1. client' = [c EXCEPT !.out = <<>>] /\ toServer' = Out(toServer, open, c)
  BY DEF Puts, Out
<1>2. /\ ClientOK(client') /\ Alike(c, client') /\ client'.out = <<>>
      /\ client'.stale = c.stale
  BY <1>1, PutsIs
<1>3. OfClient(c.out)
  BY DEF ClientOK, IsTunnel
<1>4. OfClient(toServer')
  BY <1>1, <1>3, OutIs
<1>5. QED  BY <1>1, <1>2, <1>4

\* A request of an active tunnel.
LEMMA RequestIs ==
    ASSUME NEW c, ClientOK(c), c.state = "Active", c.out = <<>>,
           NEW d, d = Sent(c, Data(c.tx))
    PROVE  /\ ClientOK(d) /\ Alike(c, d) /\ d.stale = c.stale
           /\ OfClient(d.out) /\ Len(d.out) = 1 /\ ~IsHello(d.out[1]) /\ d.out[1].key = c.tx
<1>1. c.live /\ c.tx \in Nat /\ IsTunnel(c) /\ Agrees(c)
  BY TransportIs DEF ClientOK, IsTunnel, Tunnels
<1>x. PICK x : x = Data(c.tx)
  OBVIOUS
<1>2. OfClient(x) /\ Len(x) = 1 /\ ~IsHello(x[1]) /\ x[1].key = c.tx
  BY <1>1, <1>x, SendsAre
<1>3. IsTunnel(d) /\ KeptAll(c, d) /\ Agrees(d) /\ d.out = c.out \o x
  <2>1. OfClient(x) /\ d = Sent(c, x) /\ IsTunnel(c)
    BY <1>1, <1>2, <1>x
  <2>2. /\ IsTunnel(d) /\ KeptAll(c, d) /\ (Agrees(c) => Agrees(d))
        /\ d.out = IF c.live THEN c.out \o x ELSE c.out
    BY <2>1, SentIs
  <2>3. QED  BY <1>1, <2>2
<1>4. d.out = x
  <2>1. x \in Seq(Elements(x))
    BY <1>2, SeqIs DEF OfClient
  <2>2. <<>> \o x = x
    BY <2>1, ConcatEmptySeq
  <2>3. QED  BY <1>3, <2>2
<1>5. Alike(c, d) /\ d.stale = c.stale
  BY <1>3 DEF KeptAll, Alike
<1>6. ClientOK(d)
  BY <1>3, <1>5 DEF ClientOK, Alike
<1>7. QED  BY <1>2, <1>4, <1>5, <1>6

LEMMA SendRequestInv ==
    ASSUME IInv, SendRequest
    PROVE  IInv'
<1>1. /\ call = "connected" /\ client.state = "Active" /\ toServer = <<>> /\ toClient = <<>>
      /\ call' = "connected" /\ logins' = logins
      /\ \/ /\ closed # "reset"
            /\ Puts(Sent(client, Data(client.tx)))
            /\ toClient' = toClient /\ server' = server /\ closed' = closed
         \/ /\ closed = "reset"
            /\ ConnectsAndPuts(Sent(client, Data(client.tx)))
         \/ /\ closed = "reset"
            /\ client' = Logout(client)
            /\ UNCHANGED <<toServer, toClient, server, closed>>
  BY DEF SendRequest, TunnelActive, wires
<1>2. /\ ClientOK(client) /\ WiresOK(toClient, toServer, server.plan) /\ ServerOK /\ CallOK
      /\ ~Idle /\ IF client.stale THEN StaleOK ELSE FreshOK
  BY <1>1 DEF IInv, Idle
<1>3. client.live /\ client.rx = client.run /\ client.tx = client.run /\ client.run \in Nat \ {0}
  BY <1>1, <1>2, ActiveKeys, TransportIs
<1>open. PICK open \in BOOLEAN : open = (closed = "open")
  OBVIOUS
<1>c. PICK c : c = Sent(client, Data(client.tx))
  OBVIOUS
<1>4. /\ ClientOK(c) /\ Alike(client, c) /\ c.stale = client.stale
      /\ OfClient(c.out) /\ Len(c.out) = 1 /\ ~IsHello(c.out[1]) /\ c.out[1].key = client.tx
  BY <1>1, <1>2, <1>c, RequestIs DEF CallOK
<1>5. OfClient(toServer)
  BY <1>2 DEF WiresOK, OfClient
<1>6. \A i \in 1 .. Len(c.out) : c.out[i].key # 0 /\ ~IsHello(c.out[i])
  <2>1. \A i \in 1 .. Len(c.out) : i = 1
    BY <1>4
  <2>2. QED  BY <1>3, <1>4, <2>1
<1>7. CASE /\ closed # "reset" /\ Puts(c)
           /\ toClient' = toClient /\ server' = server /\ closed' = closed
  <2>1. /\ ClientOK(client') /\ Alike(c, client') /\ client'.out = <<>>
        /\ client'.stale = c.stale
        /\ toServer' = Out(toServer, open, c) /\ OfClient(toServer')
    BY <1>4, <1>5, <1>7, <1>open, OldSocket
  <2>2. ServerOK' /\ CallOK' /\ WiresOK(toClient', toServer', server'.plan)
    BY <1>1, <1>2, <1>7, <2>1 DEF ServerOK, CallOK, Idle, WiresOK, OfClient
  <2>3. toServer' = c.out \/ toServer' = <<>>
    <3>1. c.out \in Seq(Elements(c.out))
      BY <1>4, SeqIs DEF OfClient
    <3>2. <<>> \o c.out = c.out
      BY <3>1, ConcatEmptySeq
    <3>3. QED  BY <1>1, <2>1, <3>2 DEF Out
  <2>4. \A i \in 1 .. Len(toServer') : toServer'[i].key # 0 /\ ~IsHello(toServer'[i])
    BY <1>6, <2>3
  <2>5. CASE client.stale
    <3>1. StaleOK
      BY <1>2, <2>5
    <3>2. StaleOK'
      BY <1>1, <1>3, <1>4, <1>7, <2>1, <2>4, <3>1 DEF StaleOK, Alike
    <3>3. QED  BY <1>4, <2>1, <2>2, <2>5, <3>2 DEF IInv
  <2>6. CASE ~client.stale
    <3>1. FreshOK /\ Good(client, toClient, toServer, server, open)
      BY <1>2, <1>open, <2>6 DEF FreshOK
    <3>2. /\ Settled(client, server.plan) /\ InStep(client, toClient, toServer, server)
          /\ NoServerHellos(toClient) /\ ~First(toClient, server, open)
      BY <1>1, <1>3, <3>1, QuietWires
    <3>3. NoHellos(toServer')
      BY <2>4 DEF NoHellos
    <3>4. /\ Settled(client', server.plan) /\ server.run <= client'.run
          /\ FinishedOK(toClient, server) /\ ActiveOK(client', server)
      BY <1>4, <2>1, <3>2 DEF Alike, Settled, InStep, ActiveOK
    <3>5. Good(client', toClient, toServer', server, open)
      BY <3>2, <3>3, <3>4, QuietGood
    <3>6. FreshOK'
      BY <1>7, <1>open, <3>2, <3>5 DEF FreshOK
    <3>7. QED  BY <1>4, <2>1, <2>2, <2>6, <3>6 DEF IInv
  <2>7. QED  BY <2>5, <2>6
<1>8. CASE closed = "reset" /\ ConnectsAndPuts(c)
  <2>1. c.state = "Active" /\ c.rx = c.run /\ c.tx = c.run
    BY <1>1, <1>3, <1>4 DEF Alike
  <2>2. logins' \in 0 .. MaxLogins
    BY <1>1, <1>2 DEF CallOK
  <2>3. QED  BY <1>1, <1>4, <1>6, <1>8, <2>1, <2>2, ReplacedInv
<1>9. CASE /\ closed = "reset" /\ client' = Logout(client)
           /\ UNCHANGED <<toServer, toClient, server, closed>>
  <2>1. /\ ClientOK(client') /\ client'.stale = client.stale /\ client'.out = <<>>
        /\ Ended(client')
    BY <1>2, <1>9, LogoutOK DEF CallOK
  <2>2. ServerOK' /\ CallOK' /\ WiresOK(toClient', toServer', server'.plan)
    BY <1>1, <1>2, <1>9, <2>1 DEF ServerOK, CallOK, Idle
  <2>3. CASE client.stale
    <3>1. StaleOK'
      BY <1>1, <1>2, <1>9, <2>1, <2>3 DEF StaleOK, Ended
    <3>2. QED  BY <2>1, <2>2, <2>3, <3>1 DEF IInv
  <2>4. CASE ~client.stale
    <3>1. ~First(toClient, server, closed = "open")
      BY <1>1, <1>2, <2>4 DEF FreshOK, Looping
    <3>2. Good(client', toClient, toServer, server, closed = "open")
      BY <2>1, <3>1, EndedGood
    <3>3. FreshOK'
      BY <1>9, <3>1, <3>2 DEF FreshOK
    <3>4. QED  BY <2>1, <2>2, <2>4, <3>3 DEF IInv
  <2>5. QED  BY <2>3, <2>4
<1>10. QED  BY <1>1, <1>7, <1>8, <1>9, <1>c

LEMMA RefreshInv ==
    ASSUME IInv, Refresh
    PROVE  IInv'
<1>ag. PICK again \in BOOLEAN : again = ~IsAuthenticated(client)
  OBVIOUS
<1>c. PICK c : c = IF again THEN Started ELSE client
  OBVIOUS
<1>1. /\ call = "connected" /\ logins < MaxLogins
      /\ logins' = IF again THEN logins + 1 ELSE logins
      /\ call' = IF again THEN "sending" ELSE "connected"
      /\ \/ /\ closed # "reset" /\ Puts(c)
            /\ toClient' = toClient /\ server' = server /\ closed' = closed
         \/ closed # "open" /\ ConnectsAndPuts(c)
  BY <1>ag, <1>c DEF Refresh
<1>2. /\ ClientOK(client) /\ WiresOK(toClient, toServer, server.plan) /\ ServerOK /\ CallOK
      /\ ~Idle /\ IF client.stale THEN StaleOK ELSE FreshOK
  BY <1>1 DEF IInv, Idle
<1>3. again <=> client.state # "Active"
  BY <1>2, <1>ag, AuthenticatedIs
<1>4. logins' \in 0 .. MaxLogins
  <2>1. logins \in 0 .. MaxLogins
    BY <1>2 DEF CallOK
  <2>2. MaxLogins \in Nat
    BY TlsAssumption
  <2>3. logins < MaxLogins /\ (logins' = logins + 1 \/ logins' = logins)
    BY <1>1
  <2>4. QED  BY <2>1, <2>2, <2>3
<1>open. PICK open \in BOOLEAN : open = (closed = "open")
  OBVIOUS
<1>5. OfClient(toServer)
  BY <1>2 DEF WiresOK, OfClient
<1>6. CASE ~again /\ ConnectsAndPuts(c)
  <2>1. c = client /\ c.state = "Active" /\ call' = "connected"
    BY <1>1, <1>3, <1>6, <1>c
  <2>2. c.rx = c.run /\ c.tx = c.run
    BY <1>2, <2>1, ActiveKeys
  <2>3. c.out = <<>>
    BY <1>2, <2>1 DEF CallOK
  <2>4. \A i \in 1 .. Len(c.out) : c.out[i].key # 0
    BY <2>3
  <2>5. QED  BY <1>2, <1>4, <1>6, <2>1, <2>2, <2>4, ReplacedInv
<1>7. CASE again /\ ConnectsAndPuts(c)
  <2>1. c = Started /\ call' \in {"login", "sending"}
    BY <1>1, <1>7, <1>c
  <2>2. QED  BY <1>4, <1>7, <2>1, StartedInv
<1>8. CASE /\ closed # "reset" /\ Puts(c) /\ ~again
           /\ toClient' = toClient /\ server' = server /\ closed' = closed
  <2>1. c = client /\ c.out = <<>> /\ call' = call
    BY <1>1, <1>2, <1>8, <1>c DEF CallOK
  <2>2. /\ ClientOK(client') /\ Alike(c, client') /\ client'.out = <<>>
        /\ client'.stale = c.stale /\ toServer' = Out(toServer, open, c)
    BY <1>2, <1>5, <1>8, <1>open, <2>1, OldSocket
  <2>3. toServer' = toServer
    <3>1. toServer \in Seq(Elements(toServer))
      BY <1>5, SeqIs DEF OfClient
    <3>2. toServer \o <<>> = toServer
      BY <3>1, ConcatEmptySeq
    <3>3. QED  BY <2>1, <2>2, <3>2 DEF Out
  <2>4. ServerOK' /\ CallOK' /\ WiresOK(toClient', toServer', server'.plan)
    BY <1>1, <1>2, <1>4, <1>8, <2>1, <2>2, <2>3 DEF ServerOK, CallOK, Idle
  <2>5. CASE client.stale
    <3>1. StaleOK'
      BY <1>1, <1>2, <1>8, <2>1, <2>2, <2>3, <2>5 DEF StaleOK, Alike
    <3>2. QED  BY <2>1, <2>2, <2>4, <2>5, <3>1 DEF IInv
  <2>6. CASE ~client.stale
    <3>1. FreshOK
      BY <1>2, <2>6
    <3>2. Good(client', toClient, toServer, server, closed = "open")
      BY <2>1, <2>2, <3>1, AlikeGood DEF FreshOK
    <3>3. FreshOK'
      BY <1>8, <2>1, <2>3, <3>1, <3>2 DEF FreshOK, Looping
    <3>4. QED  BY <2>1, <2>2, <2>4, <2>6, <3>3 DEF IInv
  <2>7. QED  BY <2>5, <2>6
<1>9. CASE /\ closed # "reset" /\ Puts(c) /\ again
           /\ toClient' = toClient /\ server' = server /\ closed' = closed
  <2>1. c = Started /\ call' = "sending" /\ client.state # "Active"
    BY <1>1, <1>3, <1>9, <1>c
  <2>2. ClientOK(c) /\ c.live /\ c.state = "Client_Hello" /\ c.rx = 0 /\ ~c.stale
    BY <2>1, StartedIs
  <2>3. /\ ClientOK(client') /\ Alike(c, client') /\ client'.out = <<>>
        /\ client'.stale = c.stale /\ OfClient(toServer')
    BY <1>5, <1>9, <1>open, <2>2, OldSocket
  <2>4. ServerOK' /\ CallOK' /\ WiresOK(toClient', toServer', server'.plan)
    BY <1>2, <1>4, <1>9, <2>1, <2>3 DEF ServerOK, CallOK, Idle, WiresOK, OfClient
  <2>5. ~First(toClient, server, open)
    <3>1. CASE client.stale
      <4>1. \A i \in 1 .. Len(toClient) : ~IsServerHello(toClient[i])
        BY <1>2, <3>1 DEF StaleOK, IsServerHello, IsMessage
      <4>2. ~open
        BY <1>2, <1>open, <2>1, <3>1 DEF StaleOK
      <4>3. QED  BY <4>1, <4>2 DEF First
    <3>2. CASE ~client.stale
      BY <1>1, <1>2, <1>open, <3>2 DEF FreshOK, Looping
    <3>3. QED  BY <3>1, <3>2
  <2>6. Good(client', toClient, toServer', server, open)
    BY <2>2, <2>3, <2>5, NotEngagedGood DEF Alike
  <2>7. FreshOK'
    BY <1>9, <1>open, <2>5, <2>6 DEF FreshOK
  <2>8. QED  BY <2>2, <2>3, <2>4, <2>7 DEF IInv
<1>10. QED  BY <1>1, <1>6, <1>7, <1>8, <1>9

-----------------------------------------------------------------------------
(* The steps of the server *)

\* The server has said no more than in2 has after in: no server hello.
Extends(in, in2) ==
    /\ Len(in) \in Nat /\ Len(in2) \in Nat /\ Len(in) <= Len(in2)
    /\ \A i \in 1 .. Len(in) : in2[i] = in[i]
    /\ \A i \in Len(in) + 1 .. Len(in2) : ~IsServerHello(in2[i])

\* A server that does not start a handshake.
LEMMA ServerMoves ==
    ASSUME NEW c, NEW in, NEW out, NEW s, NEW open \in BOOLEAN, Good(c, in, out, s, open),
           NEW in2, NEW out2, NEW s2, NEW open2 \in BOOLEAN, NEW k,
           Extends(in, in2), IsRest(out2, out, k), s2.plan = s.plan, s2.run = s.run,
           s2.phase = "hello" /\ open2 => s.phase = "hello" /\ open,
           FinishedOK(in, s) => FinishedOK(in2, s2), ActiveOK(c, s) => ActiveOK(c, s2)
    PROVE  Good(c, in2, out2, s2, open2) /\ (First(in2, s2, open2) => First(in, s, open))
<1>e. /\ Len(in) \in Nat /\ Len(in2) \in Nat /\ Len(in) <= Len(in2)
      /\ \A i \in 1 .. Len(in) : in2[i] = in[i]
  BY DEF Extends
<1>1. ASSUME NEW i \in 1 .. Len(in2), IsServerHello(in2[i])
      PROVE  i \in 1 .. Len(in) /\ in2[i] = in[i]
  <2>1. ~(i \in Len(in) + 1 .. Len(in2))
    BY <1>1 DEF Extends
  <2>2. i \in 1 .. Len(in)
    BY <1>e, <2>1
  <2>3. QED  BY <1>e, <2>2
<1>2. First(in2, s2, open2) => First(in, s, open)
  BY <1>1 DEF First
<1>3. FirstOK(c, in2, s2, open2)
  <2> SUFFICES ASSUME First(in2, s2, open2)
               PROVE  /\ c.live /\ c.state = "Client_Hello" /\ c.rx = 0
                      /\ \A i \in 1 .. Len(in2) :
                            IsServerHello(in2[i]) /\ in2[i].key = 0 => \A j \in 1 .. i - 1 :
                                in2[j].is = "handshake" /\ in2[j].part = 1 /\ in2[j].key = 0
    BY DEF FirstOK
  <2>1. /\ c.live /\ c.state = "Client_Hello" /\ c.rx = 0
        /\ \A i \in 1 .. Len(in) :
              IsServerHello(in[i]) /\ in[i].key = 0 => \A j \in 1 .. i - 1 :
                  in[j].is = "handshake" /\ in[j].part = 1 /\ in[j].key = 0
    BY <1>2 DEF Good, FirstOK
  <2>2. ASSUME NEW i \in 1 .. Len(in2), IsServerHello(in2[i]), in2[i].key = 0, NEW j \in 1 .. i - 1
        PROVE  in2[j].is = "handshake" /\ in2[j].part = 1 /\ in2[j].key = 0
    <3>1. i \in 1 .. Len(in) /\ in2[i] = in[i]
      BY <1>1, <2>2
    <3>2. j \in 1 .. Len(in)
      BY <1>e, <3>1
    <3>3. in2[j] = in[j]
      BY <1>e, <3>2
    <3>4. IsServerHello(in[i]) /\ in[i].key = 0
      BY <2>2, <3>1, Zenon
    <3>5. in[j].is = "handshake" /\ in[j].part = 1 /\ in[j].key = 0
      BY <2>1, <3>1, <3>4
    <3>6. QED  BY <3>3, <3>5
  <2>3. QED  BY <2>1, <2>2
<1>4. ASSUME Engaged(c, in2, s2, open2)
      PROVE  Settled(c, s2.plan) /\ InStep(c, in2, out2, s2)
  <2>1. Engaged(c, in, s, open)
    BY <1>2, <1>4 DEF Engaged
  <2>2. Settled(c, s.plan) /\ InStep(c, in, out, s)
    BY <2>1 DEF Good
  <2>o. /\ Len(out) \in Nat /\ k \in 0 .. Len(out) /\ Len(out2) = Len(out) - k
        /\ \A i \in 1 .. Len(out2) : i + k \in 1 .. Len(out) /\ out2[i] = out[i + k]
    <3>1. /\ Len(out) \in Nat /\ k \in 0 .. Len(out) /\ Len(out2) = Len(out) - k
          /\ \A i \in 1 .. Len(out) - k : out2[i] = out[k + i]
      BY DEF IsRest
    <3>2. \A i \in 1 .. Len(out) - k : i + k \in 1 .. Len(out) /\ k + i = i + k
      BY <3>1
    <3>3. QED  BY <3>1, <3>2
  <2>3. HellosOK(c, in2, out2, s2)
    <3>1. ASSUME NEW i \in 1 .. Len(out2), IsHello(out2[i])
          PROVE  /\ c.state = "Client_Hello" /\ out2[i].value.run = c.run /\ s2.run < c.run
                 /\ \A j \in 1 .. Len(out2) : IsHello(out2[j]) => j = i
                 /\ \A j \in 1 .. Len(in2) : ~IsServerHello(in2[j])
      <4>1. PICK l \in 1 .. Len(out) : l = i + k
        BY <2>o
      <4>2. out2[i] = out[l] /\ IsHello(out[l])
        BY <2>o, <3>1, <4>1
      <4>3. /\ c.state = "Client_Hello" /\ out[l].value.run = c.run /\ s.run < c.run
            /\ \A j \in 1 .. Len(out) : IsHello(out[j]) => j = l
            /\ \A j \in 1 .. Len(in) : ~IsServerHello(in[j])
        BY <2>2, <4>2 DEF InStep, HellosOK
      <4>4. ASSUME NEW j \in 1 .. Len(out2), IsHello(out2[j]) PROVE j = i
        <5>1. PICK h \in 1 .. Len(out) : h = j + k
          BY <2>o
        <5>2. IsHello(out[h])
          BY <2>o, <4>4, <5>1
        <5>3. h = l
          BY <4>3, <5>2
        <5>4. i \in Nat /\ j \in Nat /\ k \in Nat
          BY <2>o
        <5>5. QED  BY <4>1, <5>1, <5>3, <5>4
      <4>5. \A j \in 1 .. Len(in2) : ~IsServerHello(in2[j])
        BY <1>1, <4>3
      <4>6. QED  BY <4>2, <4>3, <4>4, <4>5
    <3>2. QED  BY <3>1 DEF HellosOK
  <2>4. AnswersOK(c, in2)
    <3>1. ASSUME NEW i \in 1 .. Len(in2), IsServerHello(in2[i])
          PROVE  /\ c.state = "Client_Hello"
                 /\ \A j \in 1 .. Len(in2) : IsServerHello(in2[j]) => j = i
      <4>1. AnswersOK(c, in)
        BY <2>2 DEF InStep
      <4>2. i \in 1 .. Len(in) /\ IsServerHello(in[i])
        BY <1>1, <3>1
      <4>3. /\ c.state = "Client_Hello"
            /\ \A j \in 1 .. Len(in) : IsServerHello(in[j]) => j = i
        BY <4>1, <4>2 DEF AnswersOK
      <4>4. ASSUME NEW j \in 1 .. Len(in2), IsServerHello(in2[j]) PROVE j = i
        <5>1. j \in 1 .. Len(in) /\ IsServerHello(in[j])
          BY <1>1, <4>4
        <5>2. QED  BY <4>3, <5>1
      <4>5. QED  BY <4>3, <4>4
    <3>2. QED  BY <3>1 DEF AnswersOK
  <2>5. QED  BY <2>2, <2>3, <2>4 DEF InStep
<1>5. QED  BY <1>2, <1>3, <1>4 DEF Good

NoFinisheds(x) == \A i \in 1 .. Len(x) : ~IsFinished(x[i])

\* What a server says that starts and ends no handshake.
Quiet(x, plan) == OfServer(x, plan) /\ NoServerHellos(x) /\ NoFinisheds(x)

LEMMA OfServerConcat ==
    ASSUME NEW plan, NEW x, NEW y, OfServer(x, plan), OfServer(y, plan)
    PROVE  OfServer(x \o y, plan)
<1>1. IsSeq(x) /\ IsSeq(y)
  BY DEF OfServer
<1>2. IsSeq(x \o y)
  BY <1>1, ConcatIs
<1>3. ASSUME NEW i \in 1 .. Len(x \o y) PROVE FromServer((x \o y)[i], plan)
  <2>1. \/ i \in 1 .. Len(x) /\ (x \o y)[i] = x[i]
        \/ i - Len(x) \in 1 .. Len(y) /\ (x \o y)[i] = y[i - Len(x)]
    BY <1>1, ConcatAll
  <2>2. QED  BY <2>1 DEF OfServer
<1>4. QED  BY <1>2, <1>3 DEF OfServer

LEMMA ExtendsConcat ==
    ASSUME NEW x, NEW y, IsSeq(x), IsSeq(y), NoServerHellos(y)
    PROVE  Extends(x, x \o y)
<1>1. /\ Len(x) \in Nat /\ Len(y) \in Nat /\ Len(x \o y) = Len(x) + Len(y)
      /\ \A i \in 1 .. Len(x) : (x \o y)[i] = x[i]
  BY ConcatIs
<1>2. ASSUME NEW i \in Len(x) + 1 .. Len(x \o y) PROVE ~IsServerHello((x \o y)[i])
  <2>1. i \in Len(x) + 1 .. Len(x) + Len(y) /\ i - Len(x) \in 1 .. Len(y)
    BY <1>1
  <2>2. (x \o y)[i] = y[i - Len(x)]
    BY <2>1, ConcatIs
  <2>3. ~IsServerHello(y[i - Len(x)])
    BY <2>1 DEF NoServerHellos
  <2>4. QED  BY <2>2, <2>3
<1>3. QED  BY <1>1, <1>2 DEF Extends

\* A server that keeps its keys and, once it has finished, its transcript.
Stays(s, s2) ==
    /\ s2.plan = s.plan /\ s2.run = s.run /\ s2.tx = s.tx
    /\ s.phase \in Over => s2.phase \in Over /\ s2.log = s.log
    /\ s2.phase = "hello" => s.phase = "hello"

\* It has said x.
Speaks(in, s, open, in2, s2, open2, x) ==
    /\ IsSeq(in) /\ Quiet(x, s.plan) /\ in2 = in \o x /\ Stays(s, s2)
    /\ open \in BOOLEAN /\ open2 \in BOOLEAN /\ (open2 => open)

LEMMA QuietMoves ==
    ASSUME NEW c, NEW in, NEW out, NEW s, NEW open, Good(c, in, out, s, open),
           NEW out2, NEW k, IsRest(out2, out, k),
           NEW in2, NEW s2, NEW open2, NEW x, Speaks(in, s, open, in2, s2, open2, x)
    PROVE  Good(c, in2, out2, s2, open2) /\ (First(in2, s2, open2) => First(in, s, open))
<1>s. /\ IsSeq(in) /\ Quiet(x, s.plan) /\ in2 = in \o x /\ Stays(s, s2)
      /\ open \in BOOLEAN /\ open2 \in BOOLEAN /\ (open2 => open)
  BY DEF Speaks
<1>x. IsSeq(x) /\ NoServerHellos(x) /\ NoFinisheds(x)
  BY <1>s DEF Quiet, OfServer
<1>1. Extends(in, in2)
  BY <1>s, <1>x, ExtendsConcat
<1>2. ASSUME FinishedOK(in, s) PROVE FinishedOK(in2, s2)
  <2>1. ASSUME NEW i \in 1 .. Len(in2), IsFinished(in2[i])
        PROVE  /\ in2[i].key <= s2.run
               /\ in2[i].key = s2.run =>
                     s2.tx = s2.run /\ s2.phase \in Over /\ in2[i].value.value = s2.log
    <3>1. \/ i \in 1 .. Len(in) /\ in2[i] = in[i]
          \/ i - Len(in) \in 1 .. Len(x) /\ in2[i] = x[i - Len(in)]
      BY <1>s, <1>x, ConcatAll
    <3>2. i \in 1 .. Len(in) /\ in2[i] = in[i]
      BY <1>x, <2>1, <3>1 DEF NoFinisheds
    <3>3. /\ in[i].key <= s.run
          /\ in[i].key = s.run => s.tx = s.run /\ s.phase \in Over /\ in[i].value.value = s.log
      BY <1>2, <2>1, <3>2 DEF FinishedOK
    <3>4. QED  BY <1>s, <3>2, <3>3 DEF Stays
  <2>2. QED  BY <2>1 DEF FinishedOK
<1>3. ActiveOK(c, s) => ActiveOK(c, s2)
  BY <1>s DEF ActiveOK, Stays
<1>4. QED  BY <1>1, <1>2, <1>3, <1>s, ServerMoves DEF Stays

\* Records that a server says.
LEMMA QuietAre ==
    ASSUME NEW plan, NEW key \in Nat
    PROVE  /\ Quiet(<<>>, plan) /\ Quiet(Data(key), plan)
           /\ OfServer(ChangeCipherSpec(key), plan) /\ NoServerHellos(ChangeCipherSpec(key))
           /\ Len(ChangeCipherSpec(key)) = 1 /\ ~IsFinished(ChangeCipherSpec(key)[1])
           /\ \A what : /\ Quiet(Alert(what, key), plan) /\ Len(Alert(what, key)) = 1
                        /\ Alert(what, key)[1].is = "alert" /\ Alert(what, key)[1].key = key
<1>1. ASSUME NEW x, NEW r, x = <<r>>, r.is \in {"ccs", "alert", "data"}, r.part = 2, r.key = key
      PROVE  Quiet(x, plan) /\ OfServer(x, plan) /\ NoServerHellos(x) /\ ~IsFinished(r)
  <2>1. Len(x) = 1 /\ x[1] = r /\ IsSeq(x)
    BY <1>1 DEF IsSeq
  <2>2. FromServer(r, plan) /\ ~IsServerHello(r) /\ ~IsFinished(r)
    BY <1>1 DEF FromServer, IsServerHello, IsFinished, IsMessage
  <2>3. \A i \in 1 .. Len(x) : x[i] = r
    <3>1. \A i \in 1 .. Len(x) : i = 1
      BY <2>1
    <3>2. QED  BY <2>1, <3>1
  <2>4. OfServer(x, plan) /\ NoServerHellos(x) /\ NoFinisheds(x)
    BY <2>1, <2>2, <2>3 DEF OfServer, NoServerHellos, NoFinisheds
  <2>5. QED  BY <2>2, <2>4 DEF Quiet
<1>2. Quiet(<<>>, plan)
  BY DEF Quiet, OfServer, NoServerHellos, NoFinisheds, IsSeq
<1>3. Quiet(Data(key), plan)
  <2>1. PICK r : r = Record("data", "", 2, key)
    OBVIOUS
  <2>2. r.is = "data" /\ r.part = 2 /\ r.key = key
    BY <2>1 DEF Record
  <2>3. Data(key) = <<r>>
    BY <2>1 DEF Data
  <2>4. QED  BY <1>1, <2>2, <2>3
<1>4. /\ OfServer(ChangeCipherSpec(key), plan) /\ NoServerHellos(ChangeCipherSpec(key))
      /\ Len(ChangeCipherSpec(key)) = 1 /\ ~IsFinished(ChangeCipherSpec(key)[1])
  <2>1. PICK r : r = Record("ccs", "", 2, key)
    OBVIOUS
  <2>2. r.is = "ccs" /\ r.part = 2 /\ r.key = key
    BY <2>1 DEF Record
  <2>x. PICK x : x = ChangeCipherSpec(key)
    OBVIOUS
  <2>3. x = <<r>>
    BY <2>1, <2>x DEF ChangeCipherSpec
  <2>4. OfServer(x, plan) /\ NoServerHellos(x) /\ ~IsFinished(r)
    BY <1>1, <2>2, <2>3
  <2>5. Len(x) = 1 /\ x[1] = r
    BY <2>3
  <2>6. QED  BY <2>4, <2>5, <2>x
<1>5. ASSUME NEW what
      PROVE  /\ Quiet(Alert(what, key), plan) /\ Len(Alert(what, key)) = 1
             /\ Alert(what, key)[1].is = "alert" /\ Alert(what, key)[1].key = key
  <2>1. PICK r : r = Record("alert", what, 2, key)
    OBVIOUS
  <2>2. r.is = "alert" /\ r.part = 2 /\ r.key = key
    BY <2>1 DEF Record
  <2>x. PICK x : x = Alert(what, key)
    OBVIOUS
  <2>3. x = <<r>>
    BY <2>1, <2>x DEF Alert
  <2>4. Quiet(x, plan)
    BY <1>1, <2>2, <2>3
  <2>5. Len(x) = 1 /\ x[1] = r
    BY <2>3
  <2>6. QED  BY <2>2, <2>4, <2>5, <2>x
<1>6. QED  BY <1>2, <1>3, <1>4, <1>5

\* A message that a server sends by itself.
ByItself(x, type, run, value, key) ==
    /\ type \in {"hello_request", "finished"} /\ run \in Nat \ {0} /\ key \in Nat
    /\ x = Handshake(Message(type, run, value), key)

Spoken(x, plan, type, value, key) ==
    /\ OfServer(x, plan) /\ NoServerHellos(x)
    /\ type = "hello_request" => Quiet(x, plan)
    /\ Len(x) = 2
    /\ \A i \in 1 .. 2 : x[i].key = key /\ x[i].value.value = value

LEMMA MessageIs ==
    ASSUME NEW plan, NEW type, NEW run, NEW value, NEW key, NEW x,
           ByItself(x, type, run, value, key)
    PROVE  Spoken(x, plan, type, value, key)
<1>1. /\ OfClient(x) /\ Len(x) = 2
      /\ \A i \in 1 .. 2 : x[i].is = "handshake" /\ x[i].key = key /\ x[i].part = i
                            /\ x[i].value = Message(type, run, value)
  BY HandshakeIs DEF ByItself
<1>m. PICK m : m = Message(type, run, value)
  OBVIOUS
<1>2. m.type = type /\ m.value = value
  BY <1>m DEF Message
<1>3. Said(m, plan)
  BY <1>2 DEF Said, ServerTypes, ByItself
<1>4. ASSUME NEW i \in 1 .. 2
      PROVE  /\ FromServer(x[i], plan) /\ ~IsServerHello(x[i])
             /\ type = "hello_request" => ~IsFinished(x[i])
             /\ x[i].key = key /\ x[i].value.value = value
  <2>1. x[i].is = "handshake" /\ x[i].key = key /\ x[i].part \in {1, 2} /\ x[i].value = m
    BY <1>1, <1>m
  <2>2. FromServer(x[i], plan)
    BY <1>3, <2>1 DEF FromServer, ByItself
  <2>3. ~IsServerHello(x[i]) /\ (type = "hello_request" => ~IsFinished(x[i]))
    BY <1>2, <2>1 DEF IsServerHello, IsFinished, IsMessage, ByItself
  <2>4. QED  BY <1>2, <2>1, <2>2, <2>3
<1>5. IsSeq(x)
  BY <1>1 DEF OfClient
<1>6. OfServer(x, plan) /\ NoServerHellos(x)
  BY <1>1, <1>4, <1>5 DEF OfServer, NoServerHellos
<1>7. type = "hello_request" => Quiet(x, plan)
  BY <1>1, <1>4, <1>6 DEF Quiet, NoFinisheds
<1>8. QED  BY <1>1, <1>4, <1>6, <1>7 DEF Spoken

\* The messages that follow a server hello.
FlightPart(x, plan) ==
    IsSeq(x) /\ \A i \in 1 .. Len(x) : Said(x[i], plan) /\ x[i].type \notin {"server_hello", "finished"}

\* A server hello and what follows it.
HelloFirst(x, plan) ==
    /\ IsSeq(x) /\ Len(x) >= 1 /\ x[1].type = "server_hello" /\ Said(x[1], plan)
    /\ \A i \in 2 .. Len(x) : Said(x[i], plan) /\ x[i].type \notin {"server_hello", "finished"}

LEMMA FlightGoesOn ==
    ASSUME NEW plan, NEW x, NEW y, HelloFirst(x, plan), FlightPart(y, plan)
    PROVE  HelloFirst(x \o y, plan)
<1>1. /\ IsSeq(x) /\ IsSeq(y) /\ Len(x) >= 1 /\ x[1].type = "server_hello" /\ Said(x[1], plan)
  BY DEF HelloFirst, FlightPart
<1>2. /\ IsSeq(x \o y) /\ Len(x) \in Nat /\ Len(y) \in Nat /\ Len(x \o y) = Len(x) + Len(y)
      /\ \A i \in 1 .. Len(x) : (x \o y)[i] = x[i]
  BY <1>1, ConcatIs
<1>3. Len(x \o y) >= 1 /\ (x \o y)[1] = x[1]
  BY <1>1, <1>2
<1>4. ASSUME NEW i \in 2 .. Len(x \o y)
      PROVE  Said((x \o y)[i], plan) /\ (x \o y)[i].type \notin {"server_hello", "finished"}
  <2>1. i \in 1 .. Len(x \o y)
    BY <1>2
  <2>2. \/ i \in 1 .. Len(x) /\ (x \o y)[i] = x[i]
        \/ i - Len(x) \in 1 .. Len(y) /\ (x \o y)[i] = y[i - Len(x)]
    BY <1>1, <2>1, ConcatAll
  <2>3. CASE i \in 1 .. Len(x) /\ (x \o y)[i] = x[i]
    <3>1. i \in 2 .. Len(x)
      BY <1>2, <2>3
    <3>2. QED  BY <2>3, <3>1 DEF HelloFirst
  <2>4. CASE i - Len(x) \in 1 .. Len(y) /\ (x \o y)[i] = y[i - Len(x)]
    BY <2>4 DEF FlightPart
  <2>5. QED  BY <2>2, <2>3, <2>4
<1>5. QED  BY <1>1, <1>2, <1>3, <1>4 DEF HelloFirst

LEMMA FlightIs ==
    ASSUME NEW plan, NEW run
    PROVE  HelloFirst(Flight(plan, run), plan)
<1>1. ASSUME NEW x, NEW m, x = <<m>> \/ x = <<>>, Said(m, plan),
             m.type \notin {"server_hello", "finished"}
      PROVE  FlightPart(x, plan)
  <2>1. CASE x = <<>>
    BY <2>1 DEF FlightPart, IsSeq
  <2>2. CASE x = <<m>>
    <3>1. Len(x) = 1 /\ x[1] = m /\ IsSeq(x)
      BY <2>2 DEF IsSeq
    <3>2. \A i \in 1 .. Len(x) : i = 1
      BY <3>1
    <3>3. QED  BY <1>1, <3>1, <3>2 DEF FlightPart
  <2>3. QED  BY <1>1, <2>1, <2>2
<1>v. PICK v : v = [suite |-> plan.suite, extension |-> plan.fault = "extension"]
  OBVIOUS
<1>h. PICK h : h = <<Message("server_hello", run, v)>>
  OBVIOUS
<1>c. PICK c : c = IF NeedsCertificate(plan.suite) /\ plan.fault # "no certificate"
                   THEN <<Message("certificate", run,
                                  IF plan.fault = "bad certificate" THEN "bad" ELSE "good")>>
                   ELSE <<>>
  OBVIOUS
<1>k. PICK k : k = IF NeedsServerKey(plan.suite)
                   THEN <<Message("server_key_exchange", run, "")>> ELSE <<>>
  OBVIOUS
<1>r. PICK r : r = IF plan.asks THEN <<Message("certificate_request", run, "")>> ELSE <<>>
  OBVIOUS
<1>d. PICK d : d = <<Message("server_hello_done", run, "")>>
  OBVIOUS
<1>2. HelloFirst(h, plan)
  <2>m. PICK m : m = Message("server_hello", run, v)
    OBVIOUS
  <2>1. m.type = "server_hello" /\ m.value = v
    BY <2>m DEF Message
  <2>2. v.suite = plan.suite /\ (v.extension <=> plan.fault = "extension")
    BY <1>v
  <2>3. Said(m, plan)
    BY <2>1, <2>2 DEF Said, ServerTypes
  <2>4. h = <<m>>
    BY <1>h, <2>m
  <2>5. Len(h) = 1 /\ h[1] = m /\ IsSeq(h)
    BY <2>4 DEF IsSeq
  <2>6. \A i \in 2 .. Len(h) : FALSE
    BY <2>5
  <2>7. QED  BY <2>1, <2>3, <2>5, <2>6 DEF HelloFirst
<1>3. FlightPart(c, plan)
  <2>1. CASE plan.fault # "no certificate"
    <3>1. PICK value : value = IF plan.fault = "bad certificate" THEN "bad" ELSE "good"
      OBVIOUS
    <3>m. PICK m : m = Message("certificate", run, value)
      OBVIOUS
    <3>2. m.type = "certificate" /\ m.value = value
      BY <3>m DEF Message
    <3>3. Said(m, plan)
      BY <2>1, <3>1, <3>2 DEF Said, ServerTypes
    <3>4. c = <<m>> \/ c = <<>>
      BY <1>c, <3>1, <3>m
    <3>5. QED  BY <1>1, <3>2, <3>3, <3>4
  <2>2. CASE plan.fault = "no certificate"
    <3>1. c = <<>>
      BY <1>c, <2>2
    <3>2. QED  BY <3>1 DEF FlightPart, IsSeq
  <2>3. QED  BY <2>1, <2>2
<1>4. FlightPart(k, plan) /\ FlightPart(r, plan) /\ FlightPart(d, plan)
  <2>1. ASSUME NEW x, NEW type \in {"server_key_exchange", "certificate_request",
                                     "server_hello_done"},
               x = <<Message(type, run, "")>> \/ x = <<>>
        PROVE  FlightPart(x, plan)
    <3>m. PICK m : m = Message(type, run, "")
      OBVIOUS
    <3>1. m.type = type
      BY <3>m DEF Message
    <3>2. Said(m, plan)
      BY <3>1 DEF Said, ServerTypes
    <3>3. x = <<m>> \/ x = <<>>
      BY <2>1, <3>m
    <3>4. QED  BY <1>1, <3>1, <3>2, <3>3
  <2>2. k = <<Message("server_key_exchange", run, "")>> \/ k = <<>>
    BY <1>k
  <2>3. r = <<Message("certificate_request", run, "")>> \/ r = <<>>
    BY <1>r
  <2>4. QED  BY <1>d, <2>1, <2>2, <2>3
<1>5. HelloFirst(((((h \o c) \o k) \o r) \o d), plan)
  BY <1>2, <1>3, <1>4, FlightGoesOn
<1>6. Flight(plan, run) = (((h \o c) \o k) \o r) \o d
  BY <1>v, <1>h, <1>c, <1>k, <1>r, <1>d DEF Flight
<1>7. QED  BY <1>5, <1>6

\* A flight in records: the server hello ends in the second, and nothing is a Finished.
LEMMA FlightRecords ==
    ASSUME NEW plan, NEW f, HelloFirst(f, plan), NEW key \in Nat, NEW x, x = Handshakes(f, key)
    PROVE  /\ OfServer(x, plan) /\ Len(x) >= 2
           /\ x[1].is = "handshake" /\ x[1].part = 1
           /\ \A i \in 1 .. Len(x) : /\ x[i].key = key /\ ~IsFinished(x[i])
                                     /\ IsServerHello(x[i]) => i = 2
<1>1. /\ IsSeq(f) /\ Len(f) \in Nat /\ Len(f) >= 1
      /\ \A i \in 2 .. Len(f) : Said(f[i], plan) /\ f[i].type \notin {"server_hello", "finished"}
      /\ f[1].type = "server_hello" /\ Said(f[1], plan)
  BY DEF HelloFirst, IsSeq
<1>n. PICK n \in Nat : n = 2 * Len(f) /\ n >= 2
  BY <1>1
<1>2. x = [i \in 1 .. n |-> Record("handshake", f[(i + 1) \div 2], 2 - (i % 2), key)]
  BY <1>n DEF Handshakes
<1>3. Len(x) = n /\ IsSeq(x)
  BY <1>2 DEF IsSeq
<1>4. ASSUME NEW i \in 1 .. n
      PROVE  /\ (i + 1) \div 2 \in 1 .. Len(f) /\ 2 - (i % 2) \in {1, 2}
             /\ (i + 1) \div 2 = 1 /\ 2 - (i % 2) = 2 => i = 2
             /\ i = 1 => 2 - (i % 2) = 1
  BY <1>1, <1>n
<1>5. ASSUME NEW i \in 1 .. n
      PROVE  /\ FromServer(x[i], plan) /\ x[i].key = key /\ ~IsFinished(x[i])
             /\ IsServerHello(x[i]) => i = 2
             /\ x[i].is = "handshake" /\ (i = 1 => x[i].part = 1)
  <2>k. PICK k \in 1 .. Len(f) : k = (i + 1) \div 2
    BY <1>4
  <2>p. PICK part \in {1, 2} : part = 2 - (i % 2)
    BY <1>4
  <2>1. x[i] = Record("handshake", f[k], part, key)
    BY <1>2, <2>k, <2>p
  <2>2. x[i].is = "handshake" /\ x[i].value = f[k] /\ x[i].part = part /\ x[i].key = key
    BY <2>1 DEF Record
  <2>3. k = 1 \/ k \in 2 .. Len(f)
    BY <1>1
  <2>4. Said(f[k], plan) /\ f[k].type # "finished" /\ (f[k].type = "server_hello" => k = 1)
    BY <1>1, <2>3
  <2>5. FromServer(x[i], plan)
    BY <2>2, <2>4 DEF FromServer
  <2>6. ~IsFinished(x[i])
    BY <2>2, <2>4 DEF IsFinished, IsMessage
  <2>7. ASSUME IsServerHello(x[i]) PROVE i = 2
    <3>1. k = 1 /\ part = 2
      BY <2>2, <2>4, <2>7 DEF IsServerHello, IsMessage
    <3>2. QED  BY <1>4, <2>k, <2>p, <3>1
  <2>8. i = 1 => part = 1
    BY <1>4, <2>p
  <2>9. QED  BY <2>2, <2>5, <2>6, <2>7, <2>8
<1>6. 1 \in 1 .. n
  BY <1>n
<1>7. QED  BY <1>3, <1>5, <1>6, <1>n DEF OfServer

\* A server that starts a handshake.
Hailed(c, in, out, s, out2, s2, f, x, in2) ==
    /\ Good(c, in, out, s, TRUE)
    /\ IsSeq(in) /\ s.run \in Nat /\ c.run \in Nat /\ s.tx \in Nat
    /\ \A i \in 1 .. Len(in) : in[i].key \in Nat
    /\ s.phase = "hello" => in = <<>> /\ s.tx = 0
    /\ s.phase # "hello" => s.tx # 0
    /\ IsRest(out2, out, 1) /\ IsHello(out[1])
    /\ s2.plan = s.plan /\ s2.run = out[1].value.run /\ s2.phase = "key"
    /\ HelloFirst(f, s.plan) /\ x = Handshakes(f, s.tx) /\ in2 = in \o x

LEMMA GreetsGood ==
    ASSUME NEW c, NEW in, NEW out, NEW s, NEW out2, NEW s2, NEW f, NEW x, NEW in2,
           Hailed(c, in, out, s, out2, s2, f, x, in2)
    PROVE  Good(c, in2, out2, s2, TRUE) /\ (First(in2, s2, TRUE) => First(in, s, TRUE))
<1> USE DEF Hailed
<1>x. /\ IsSeq(x) /\ Len(x) >= 2 /\ x[1].is = "handshake" /\ x[1].part = 1
      /\ \A i \in 1 .. Len(x) : /\ x[i].key = s.tx /\ ~IsFinished(x[i])
                                /\ IsServerHello(x[i]) => i = 2
  BY FlightRecords DEF OfServer
<1>2. /\ Len(in) \in Nat /\ Len(x) \in Nat /\ Len(in2) = Len(in) + Len(x)
      /\ \A i \in 1 .. Len(in) : in2[i] = in[i]
  BY <1>x, ConcatIs
<1>3. ASSUME NEW i \in 1 .. Len(in2)
      PROVE  \/ i \in 1 .. Len(in) /\ in2[i] = in[i]
             \/ i > Len(in) /\ i - Len(in) \in 1 .. Len(x) /\ in2[i] = x[i - Len(in)]
  BY <1>x, ConcatAll
<1>o. Len(out) \in Nat /\ Len(out2) = Len(out) - 1 /\ 1 \in 1 .. Len(out)
      /\ \A i \in 1 .. Len(out2) : 1 + i \in 1 .. Len(out) /\ out2[i] = out[1 + i]
  <2>1. /\ Len(out) \in Nat /\ 1 \in 0 .. Len(out) /\ Len(out2) = Len(out) - 1
        /\ \A i \in 1 .. Len(out) - 1 : out2[i] = out[1 + i]
    BY DEF IsRest
  <2>2. 1 \in 1 .. Len(out) /\ \A i \in 1 .. Len(out) - 1 : 1 + i \in 1 .. Len(out)
    BY <2>1
  <2>3. QED  BY <2>1, <2>2
<1>4. s.phase = "hello" => Engaged(c, in, s, TRUE)
  <2>1. ASSUME s.phase = "hello" PROVE Engaged(c, in, s, TRUE)
    <3>1. First(in, s, TRUE)
      BY <2>1 DEF First
    <3>2. c.live /\ c.state = "Client_Hello"
      BY <3>1 DEF Good, FirstOK
    <3>3. QED  BY <3>1, <3>2 DEF Engaged, Handshaking
  <2>2. QED  BY <2>1
<1>5. First(in2, s2, TRUE) => First(in, s, TRUE)
  <2>1. ASSUME First(in2, s2, TRUE), s.phase # "hello" PROVE First(in, s, TRUE)
    <3>1. PICK i \in 1 .. Len(in2) : IsServerHello(in2[i]) /\ in2[i].key = 0
      BY <2>1 DEF First
    <3>2. i \in 1 .. Len(in) /\ in2[i] = in[i]
      BY <1>x, <1>3, <2>1, <3>1
    <3>3. QED  BY <3>1, <3>2 DEF First
  <2>2. QED  BY <2>1 DEF First
<1>6. CASE Engaged(c, in, s, TRUE)
  <2>1. Settled(c, s.plan) /\ InStep(c, in, out, s)
    BY <1>6 DEF Good
  <2>2. /\ c.state = "Client_Hello" /\ s2.run = c.run /\ s.run < c.run
        /\ \A j \in 1 .. Len(out) : IsHello(out[j]) => j = 1
        /\ NoServerHellos(in)
    BY <1>o, <2>1 DEF InStep, HellosOK, NoServerHellos
  <2>3. NoHellos(out2)
    <3>1. ASSUME NEW i \in 1 .. Len(out2) PROVE ~IsHello(out2[i])
      <4>1. PICK j \in 1 .. Len(out) : j = 1 + i
        BY <1>o
      <4>2. j # 1 /\ out2[i] = out[j]
        BY <1>o, <4>1
      <4>3. QED  BY <2>2, <4>2
    <3>2. QED  BY <3>1 DEF NoHellos
  <2>4. ASSUME NEW i \in 1 .. Len(in2), IsServerHello(in2[i])
        PROVE  i = Len(in) + 2 /\ in2[i].key = s.tx
    <3>1. i > Len(in) /\ i - Len(in) \in 1 .. Len(x) /\ in2[i] = x[i - Len(in)]
      BY <1>3, <2>2, <2>4 DEF NoServerHellos
    <3>2. PICK k \in 1 .. Len(x) : k = i - Len(in)
      BY <3>1
    <3>3. k = 2 /\ x[k].key = s.tx
      BY <1>x, <2>4, <3>1, <3>2
    <3>4. i \in Nat
      BY <1>2
    <3>5. QED  BY <1>2, <3>1, <3>2, <3>3, <3>4
  <2>5. AnswersOK(c, in2)
    <3>1. ASSUME NEW i \in 1 .. Len(in2), NEW j \in 1 .. Len(in2),
                 IsServerHello(in2[i]), IsServerHello(in2[j])
          PROVE  i = j
      BY <2>4, <3>1
    <3>2. QED  BY <2>2, <3>1 DEF AnswersOK
  <2>6. FinishedOK(in2, s2)
    <3>1. ASSUME NEW i \in 1 .. Len(in2), IsFinished(in2[i])
          PROVE  in2[i].key <= s2.run /\ in2[i].key # s2.run
      <4>1. i \in 1 .. Len(in) /\ in2[i] = in[i]
        BY <1>x, <1>3, <3>1
      <4>2. in[i].key <= s.run
        BY <2>1, <3>1, <4>1 DEF InStep, FinishedOK
      <4>3. PICK key \in Nat : key = in[i].key
        BY <4>1
      <4>4. key <= s.run /\ s.run < s2.run
        BY <2>2, <4>2, <4>3
      <4>5. key <= s2.run /\ key # s2.run
        <5>1. s2.run \in Nat /\ s.run \in Nat
          BY <2>2
        <5>2. QED  BY <4>3, <4>4, <5>1
      <4>6. QED  BY <4>1, <4>3, <4>5
    <3>2. QED  BY <3>1 DEF FinishedOK
  <2>7. InStep(c, in2, out2, s2)
    BY <2>2, <2>3, <2>5, <2>6 DEF InStep, HellosOK, NoHellos, ActiveOK
  <2>8. FirstOK(c, in2, s2, TRUE)
    <3> SUFFICES ASSUME First(in2, s2, TRUE)
                 PROVE  /\ c.live /\ c.state = "Client_Hello" /\ c.rx = 0
                        /\ \A i \in 1 .. Len(in2) :
                              IsServerHello(in2[i]) /\ in2[i].key = 0 => \A j \in 1 .. i - 1 :
                                  in2[j].is = "handshake" /\ in2[j].part = 1 /\ in2[j].key = 0
      BY DEF FirstOK
    <3>1. PICK l \in 1 .. Len(in2) : IsServerHello(in2[l]) /\ in2[l].key = 0
      BY DEF First
    <3>2. s.tx = 0
      BY <2>4, <3>1
    <3>3. s.phase = "hello" /\ in = <<>>
      BY <3>2
    <3>4. Len(in) = 0
      BY <3>3
    <3>5. First(in, s, TRUE)
      BY <3>3 DEF First
    <3>6. c.live /\ c.state = "Client_Hello" /\ c.rx = 0
      BY <3>5 DEF Good, FirstOK
    <3>7. ASSUME NEW i \in 1 .. Len(in2), IsServerHello(in2[i]), NEW j \in 1 .. i - 1
          PROVE  in2[j].is = "handshake" /\ in2[j].part = 1 /\ in2[j].key = 0
      <4>1. i = 2
        BY <2>4, <3>4, <3>7
      <4>2. j = 1
        BY <4>1
      <4>3. 1 \in 1 .. Len(in2) /\ ~(1 \in 1 .. Len(in)) /\ 1 - Len(in) = 1 /\ 1 \in 1 .. Len(x)
        BY <1>x, <1>2, <3>4
      <4>4. in2[1] = x[1]
        BY <1>3, <4>3
      <4>5. QED  BY <1>x, <3>2, <4>2, <4>3, <4>4
    <3>8. QED  BY <3>6, <3>7
  <2>9. QED  BY <1>5, <2>1, <2>7, <2>8 DEF Good
<1>7. CASE ~Engaged(c, in, s, TRUE)
  <2>1. s.phase # "hello"
    BY <1>4, <1>7
  <2>2. ~First(in, s, TRUE)
    <3>1. ASSUME First(in, s, TRUE) PROVE FALSE
      <4>1. c.live /\ c.state = "Client_Hello"
        BY <3>1 DEF Good, FirstOK
      <4>2. Engaged(c, in, s, TRUE)
        BY <3>1, <4>1 DEF Engaged, Handshaking
      <4>3. QED  BY <1>7, <4>2
    <3>2. QED  BY <3>1
  <2>3. ~First(in2, s2, TRUE)
    BY <1>5, <2>2
  <2>4. ~Engaged(c, in2, s2, TRUE)
    BY <1>7, <2>3 DEF Engaged
  <2>5. QED  BY <2>3, <2>4 DEF Good, FirstOK
<1>8. QED  BY <1>6, <1>7

\* A server that finishes a handshake.
Ends(c, in, out, s, out2, s2, x, in2) ==
    /\ Good(c, in, out, s, TRUE)
    /\ IsSeq(in) /\ s.run \in Nat \ {0} /\ s.tx \in Nat /\ s.phase = "finished"
    /\ IsRest(out2, out, 1)
    /\ s2.plan = s.plan /\ s2.run = s.run /\ s2.phase = "open" /\ s2.tx = s.run
    /\ x = ChangeCipherSpec(s.tx) \o Handshake(Message("finished", s.run, s2.log), s.run)
    /\ in2 = in \o x

LEMMA FinishesGood ==
    ASSUME NEW c, NEW in, NEW out, NEW s, NEW out2, NEW s2, NEW x, NEW in2,
           Ends(c, in, out, s, out2, s2, x, in2)
    PROVE  /\ Good(c, in2, out2, s2, TRUE) /\ (First(in2, s2, TRUE) => First(in, s, TRUE))
           /\ OfServer(x, s.plan)
<1> USE DEF Ends
<1>a. PICK a : a = ChangeCipherSpec(s.tx)
  OBVIOUS
<1>b. PICK b : b = Handshake(Message("finished", s.run, s2.log), s.run)
  OBVIOUS
<1>1. /\ OfServer(a, s.plan) /\ NoServerHellos(a) /\ Len(a) = 1 /\ ~IsFinished(a[1])
  BY <1>a, QuietAre
<1>2. /\ OfServer(b, s.plan) /\ NoServerHellos(b) /\ Len(b) = 2
      /\ \A i \in 1 .. 2 : b[i].key = s.run /\ b[i].value.value = s2.log
  <2>t. PICK type : type = "finished"
    OBVIOUS
  <2>r. PICK run : run = s.run
    OBVIOUS
  <2>k. PICK key : key = s.run
    OBVIOUS
  <2>v. PICK value : value = s2.log
    OBVIOUS
  <2>0. b = Handshake(Message(type, run, value), key)
    BY <1>b, <2>t, <2>r, <2>k, <2>v, Zenon
  <2>1. ByItself(b, type, run, value, key)
    BY <2>0, <2>t, <2>r, <2>k DEF ByItself
  <2>p. PICK plan : plan = s.plan
    OBVIOUS
  <2>2. /\ OfServer(b, plan) /\ NoServerHellos(b) /\ Len(b) = 2
        /\ \A i \in 1 .. 2 : b[i].key = key /\ b[i].value.value = value
    <3>1. Spoken(b, plan, type, value, key)
      BY <2>1, MessageIs
    <3>2. QED  BY <3>1 DEF Spoken
  <2>3. QED  BY <2>2, <2>k, <2>v, <2>p
<1>3. x = a \o b /\ OfServer(x, s.plan)
  BY <1>1, <1>2, <1>a, <1>b, OfServerConcat
<1>4. IsSeq(a) /\ IsSeq(b) /\ IsSeq(x)
  BY <1>1, <1>2, <1>3 DEF OfServer
<1>5. ASSUME NEW i \in 1 .. Len(x)
      PROVE  /\ ~IsServerHello(x[i])
             /\ IsFinished(x[i]) => x[i].key = s.run /\ x[i].value.value = s2.log
  <2>1. \/ i \in 1 .. Len(a) /\ x[i] = a[i]
        \/ i - Len(a) \in 1 .. Len(b) /\ x[i] = b[i - Len(a)]
    BY <1>3, <1>4, ConcatAll
  <2>2. CASE i \in 1 .. Len(a) /\ x[i] = a[i]
    <3>1. i = 1
      BY <1>1, <2>2
    <3>2. QED  BY <1>1, <2>2, <3>1 DEF NoServerHellos
  <2>3. CASE i - Len(a) \in 1 .. Len(b) /\ x[i] = b[i - Len(a)]
    <3>1. PICK k \in 1 .. Len(b) : k = i - Len(a)
      BY <2>3
    <3>2. k \in 1 .. 2 /\ x[i] = b[k]
      BY <1>2, <2>3, <3>1
    <3>3. QED  BY <1>2, <3>1, <3>2 DEF NoServerHellos
  <2>4. QED  BY <2>1, <2>2, <2>3
<1>6. NoServerHellos(x)
  BY <1>5 DEF NoServerHellos
<1>7. Extends(in, in2)
  BY <1>4, <1>6, ExtendsConcat
<1>8. ASSUME FinishedOK(in, s) PROVE FinishedOK(in2, s2)
  <2>1. ASSUME NEW i \in 1 .. Len(in2), IsFinished(in2[i])
        PROVE  /\ in2[i].key <= s2.run
               /\ in2[i].key = s2.run =>
                     s2.tx = s2.run /\ s2.phase \in Over /\ in2[i].value.value = s2.log
    <3>1. \/ i \in 1 .. Len(in) /\ in2[i] = in[i]
          \/ i - Len(in) \in 1 .. Len(x) /\ in2[i] = x[i - Len(in)]
      BY <1>4, ConcatAll
    <3>2. CASE i \in 1 .. Len(in) /\ in2[i] = in[i]
      <4>1. /\ in[i].key <= s.run
            /\ in[i].key = s.run => s.phase \in Over
        BY <1>8, <2>1, <3>2 DEF FinishedOK
      <4>2. QED  BY <3>2, <4>1 DEF Over
    <3>3. CASE i - Len(in) \in 1 .. Len(x) /\ in2[i] = x[i - Len(in)]
      <4>1. in2[i].key = s.run /\ in2[i].value.value = s2.log
        BY <1>5, <2>1, <3>3
      <4>2. s.run <= s.run
        OBVIOUS
      <4>3. QED  BY <4>1, <4>2 DEF Over
    <3>4. QED  BY <3>1, <3>2, <3>3
  <2>2. QED  BY <2>1 DEF FinishedOK
<1>9. ActiveOK(c, s) => ActiveOK(c, s2)
  BY DEF ActiveOK, Over
<1>10. Good(c, in2, out2, s2, TRUE) /\ (First(in2, s2, TRUE) => First(in, s, TRUE))
  BY <1>7, <1>8, <1>9, ServerMoves
<1>11. QED  BY <1>3, <1>10

-----------------------------------------------------------------------------
(* The server's actions *)

IsServer(s) ==
    s = [plan |-> s.plan, phase |-> s.phase, log |-> s.log,
         run |-> s.run, rx |-> s.rx, tx |-> s.tx, asked |-> s.asked]

\* What a step of the server leaves as it was.
ServerStep == ~Idle /\ client' = client /\ call' = call /\ logins' = logins

\* Whom the server speaks to is a tunnel of this connection.
LEMMA FreshServerInv ==
    ASSUME IInv, ServerStep, ~client.stale, closed' \in {"open", "closed", "reset"},
           OfServer(toClient', server'.plan), OfClient(toServer'), ServerOK',
           NEW open \in BOOLEAN, open = (closed = "open"),
           NEW open2 \in BOOLEAN, open2 = (closed' = "open"),
           Good(client, toClient', toServer', server', open2),
           First(toClient', server', open2) => First(toClient, server, open)
    PROVE  IInv'
<1>1. ClientOK(client) /\ CallOK /\ FreshOK
  BY DEF IInv, ServerStep
<1>2. WiresOK(toClient', toServer', server'.plan)
  BY DEF WiresOK, OfServer, OfClient
<1>3. CallOK'
  BY <1>1 DEF CallOK, ServerStep, Idle
<1>4. Looping' <=> Looping
  BY DEF ServerStep, Looping
<1>5. FreshOK'
  BY <1>1, <1>4 DEF FreshOK, ServerStep
<1>6. QED  BY <1>1, <1>2, <1>3, <1>5 DEF IInv, ServerStep

\* The new server of a tunnel whose socket was replaced gives up.
LEMMA StaleServerInv ==
    ASSUME IInv, ServerStep, client.stale, closed = "open",
           closed' \in {"closed", "reset"},
           IsServer(server'), server'.plan = server.plan, server'.run = server.run,
           server'.rx = server.rx, server'.tx = server.tx,
           server'.phase \in {"refused", "gone"},
           \/ toServer' = toServer
           \/ toServer # <<>> /\ toServer' = Tail(toServer),
           \/ toClient' = <<>>
           \/ closed' = "closed" /\ toClient' = toClient
           \/ closed' = "closed" /\ \E what : toClient' = toClient \o Alert(what, server.tx)
    PROVE  IInv'
<1>1. ClientOK(client) /\ CallOK /\ StaleOK /\ ServerOK /\ WiresOK(toClient, toServer, server.plan)
  BY DEF IInv, ServerStep
<1>2. CallOK'
  BY <1>1 DEF CallOK, ServerStep, Idle
<1>o. IsSeq(toServer) /\ \A i \in 1 .. Len(toServer) : FromClient(toServer[i]) /\ toServer[i].key # 0
  BY <1>1 DEF WiresOK, StaleOK
<1>3. OfClient(toServer') /\ \A i \in 1 .. Len(toServer') : toServer'[i].key # 0
  <2>1. CASE toServer' = toServer
    BY <1>o, <2>1 DEF OfClient
  <2>2. CASE toServer # <<>> /\ toServer' = Tail(toServer)
    <3>1. /\ Len(toServer) \in Nat \ {0} /\ IsSeq(toServer') /\ Len(toServer') = Len(toServer) - 1
          /\ \A i \in 1 .. Len(toServer) - 1 : toServer'[i] = toServer[i + 1]
      BY <1>o, <2>2, TailIs
    <3>2. \A i \in 1 .. Len(toServer') : i + 1 \in 1 .. Len(toServer) /\ toServer'[i] = toServer[i + 1]
      BY <3>1
    <3>3. QED  BY <1>o, <3>1, <3>2 DEF OfClient
  <2>3. QED  BY <2>1, <2>2
<1>i. /\ OfServer(toClient, server.plan) /\ IsSeq(toClient)
      /\ \A i \in 1 .. Len(toClient) : toClient[i].is = "alert" /\ toClient[i].key = 0
      /\ server.tx = 0
  BY <1>1 DEF WiresOK, OfServer, StaleOK
<1>4. /\ OfServer(toClient', server.plan)
      /\ \A i \in 1 .. Len(toClient') : toClient'[i].is = "alert" /\ toClient'[i].key = 0
  <2>1. CASE toClient' = <<>>
    <3>1. Quiet(<<>>, server.plan)
      BY QuietAre
    <3>2. Len(toClient') = 0 /\ OfServer(toClient', server.plan)
      BY <2>1, <3>1 DEF Quiet
    <3>3. QED  BY <3>2
  <2>2. CASE toClient' = toClient
    BY <1>i, <2>2
  <2>3. ASSUME NEW what, toClient' = toClient \o Alert(what, server.tx)
        PROVE  /\ OfServer(toClient', server.plan)
               /\ \A i \in 1 .. Len(toClient') : toClient'[i].is = "alert" /\ toClient'[i].key = 0
    <3>k. PICK key \in Nat : key = 0
      OBVIOUS
    <3>x. PICK x : x = Alert(what, key)
      OBVIOUS
    <3>1. Quiet(x, server.plan) /\ Len(x) = 1 /\ x[1].is = "alert" /\ x[1].key = key
      BY <3>x, QuietAre
    <3>2. OfServer(x, server.plan) /\ IsSeq(x) /\ toClient' = toClient \o x
      BY <1>i, <2>3, <3>1, <3>k, <3>x DEF Quiet, OfServer
    <3>3. OfServer(toClient', server.plan)
      BY <1>i, <3>2, OfServerConcat
    <3>4. ASSUME NEW i \in 1 .. Len(toClient')
          PROVE  toClient'[i].is = "alert" /\ toClient'[i].key = 0
      <4>1. \/ i \in 1 .. Len(toClient) /\ toClient'[i] = toClient[i]
            \/ i - Len(toClient) \in 1 .. Len(x) /\ toClient'[i] = x[i - Len(toClient)]
        BY <1>i, <3>2, ConcatAll
      <4>2. \A k \in 1 .. Len(x) : x[k] = x[1]
        <5>1. \A k \in 1 .. Len(x) : k = 1
          BY <3>1
        <5>2. QED  BY <5>1
      <4>3. QED  BY <1>i, <3>1, <3>k, <4>1, <4>2
    <3>5. QED  BY <3>3, <3>4
  <2>4. QED  BY <2>1, <2>2, <2>3
<1>5. ServerOK'
  BY <1>1 DEF ServerOK, IsServer
<1>6. StaleOK'
  <2>1. client.state = "Active" /\ client.rx = client.run /\ client.tx = client.run
    BY <1>1 DEF StaleOK
  <2>2. call' = "connected" /\ server'.rx = 0 /\ server'.tx = 0
    BY <1>1 DEF StaleOK, ServerStep
  <2>3. QED  BY <1>3, <1>4, <2>1, <2>2 DEF StaleOK, ServerStep
<1>7. WiresOK(toClient', toServer', server'.plan)
  BY <1>3, <1>4 DEF WiresOK, OfClient, OfServer
<1>8. QED  BY <1>1, <1>2, <1>5, <1>6, <1>7 DEF IInv, ServerStep

\* The server has taken a record.
LEMMA TakenIs ==
    ASSUME NEW out, OfClient(out), out # <<>>, NEW out2, out2 = Tail(out)
    PROVE  IsRest(out2, out, 1) /\ OfClient(out2) /\ FromClient(out[1]) /\ Head(out) = out[1]
<1>1. IsSeq(out) /\ \A i \in 1 .. Len(out) : FromClient(out[i])
  BY DEF OfClient
<1>2. /\ Len(out) \in Nat \ {0} /\ Head(out) = out[1] /\ IsSeq(out2) /\ Len(out2) = Len(out) - 1
      /\ \A i \in 1 .. Len(out) - 1 : out2[i] = out[i + 1]
  BY <1>1, TailIs
<1>3. \A i \in 1 .. Len(out) - 1 : i + 1 \in 1 .. Len(out) /\ 1 + i = i + 1
  BY <1>2
<1>4. 1 \in 0 .. Len(out) /\ 1 \in 1 .. Len(out)
  BY <1>2
<1>5. IsRest(out2, out, 1)
  BY <1>2, <1>3, <1>4 DEF IsRest
<1>6. OfClient(out2)
  BY <1>1, <1>2, <1>3 DEF OfClient
<1>7. QED  BY <1>1, <1>2, <1>4, <1>5, <1>6

\* What the server does with a record.
LEMMA ServerReadsCases ==
    ASSUME ServerReads, NEW r, r = Head(toServer)
    PROVE  /\ ServerStep /\ closed = "open" /\ toServer # <<>> /\ toServer' = Tail(toServer)
           /\ \/ Refuses(Alert("fatal", server.tx))
              \/ /\ r.key = server.rx
                 /\ \/ Refuses(<<>>)
                    \/ Says(server, <<>>)
                    \/ /\ server.phase = "ccs"
                       /\ Says([server EXCEPT !.phase = "finished", !.rx = server.run], <<>>)
                    \/ server.phase = "open" /\ Says(server, Data(server.tx))
                    \/ IsHello(r) /\ server.phase \in {"hello", "open"} /\ Greets(r.value)
                    \/ /\ server.phase = "key"
                       /\ Says([server EXCEPT !.phase = "ccs", !.log = Append(@, r.value)], <<>>)
                    \/ server.phase = "finished" /\ Finishes(r.value)
<1>1. /\ ServerStep /\ closed = "open" /\ toServer # <<>> /\ toServer' = Tail(toServer)
  BY DEF ServerReads, ServerStep
<1>2. CASE r.key # server.rx
  BY <1>1, <1>2 DEF ServerReads, Refuses, Says
<1>3. CASE r.key = server.rx
  BY <1>1, <1>3 DEF ServerReads, IsHello, IsMessage, Refuses, Says, Greets, Finishes
<1>4. QED  BY <1>1, <1>2, <1>3

\* A server that speaks to a tunnel of this connection, without starting or ending
\* a handshake, and may have taken a record.
LEMMA QuietInv ==
    ASSUME IInv, ServerStep, ~client.stale, closed = "open",
           closed' \in {"open", "closed"},
           \/ toServer' = toServer
           \/ toServer # <<>> /\ toServer' = Tail(toServer),
           NEW x, Quiet(x, server.plan), toClient' = toClient \o x,
           Stays(server, server'), ServerOK'
    PROVE  IInv'
<1>1. WiresOK(toClient, toServer, server.plan) /\ FreshOK
  BY DEF IInv, ServerStep
<1>2. OfServer(toClient, server.plan) /\ IsSeq(toClient) /\ OfClient(toServer) /\ IsSeq(toServer)
  BY <1>1 DEF WiresOK, OfServer, OfClient
<1>3. \E k : IsRest(toServer', toServer, k) /\ OfClient(toServer')
  <2>1. CASE toServer' = toServer
    <3>1. IsRest(toServer, toServer, 0)
      <4>1. Len(toServer) \in Nat
        BY <1>2 DEF IsSeq
      <4>2. 0 \in 0 .. Len(toServer) /\ Len(toServer) = Len(toServer) - 0
            /\ \A i \in 1 .. Len(toServer) - 0 : 0 + i = i
        BY <4>1
      <4>3. QED  BY <4>1, <4>2 DEF IsRest
    <3>2. QED  BY <1>2, <2>1, <3>1
  <2>2. CASE toServer # <<>> /\ toServer' = Tail(toServer)
    <3>1. IsRest(toServer', toServer, 1) /\ OfClient(toServer')
      BY <1>2, <2>2, TakenIs
    <3>2. QED  BY <3>1
  <2>3. QED  BY <2>1, <2>2
<1>k. PICK k : IsRest(toServer', toServer, k) /\ OfClient(toServer')
  BY <1>3
<1>o. PICK open \in BOOLEAN : open = (closed = "open")
  OBVIOUS
<1>p. PICK open2 \in BOOLEAN : open2 = (closed' = "open")
  OBVIOUS
<1>4. Good(client, toClient, toServer, server, open) /\ (open2 => open)
  BY <1>1, <1>o, <1>p DEF FreshOK
<1>i. PICK in : in = toClient
  OBVIOUS
<1>j. PICK in2 : in2 = toClient'
  OBVIOUS
<1>s. PICK s : s = server
  OBVIOUS
<1>t. PICK s2 : s2 = server'
  OBVIOUS
<1>u. PICK out2 : out2 = toServer'
  OBVIOUS
<1>x. /\ Good(client, in, toServer, s, open) /\ IsRest(out2, toServer, k)
      /\ Speaks(in, s, open, in2, s2, open2, x)
  BY <1>2, <1>4, <1>k, <1>i, <1>j, <1>o, <1>p, <1>s, <1>t, <1>u DEF Speaks
<1>y. Good(client, in2, out2, s2, open2) /\ (First(in2, s2, open2) => First(in, s, open))
  BY <1>x, QuietMoves
<1>5. /\ Good(client, toClient', toServer', server', open2)
      /\ First(toClient', server', open2) => First(toClient, server, open)
  BY <1>y, <1>i, <1>j, <1>s, <1>t, <1>u
<1>6. OfServer(toClient', server'.plan)
  <2>1. OfServer(x, server.plan) /\ server'.plan = server.plan
    BY DEF Quiet, Stays
  <2>2. OfServer(toClient \o x, server.plan)
    BY <1>2, <2>1, OfServerConcat
  <2>3. QED  BY <2>1, <2>2
<1>7. QED  BY <1>5, <1>6, <1>k, <1>o, <1>p, FreshServerInv

\* Nothing more is said.
LEMMA SaysNothing ==
    ASSUME NEW x, IsSeq(x)
    PROVE  x \o <<>> = x
<1>1. x \in Seq(Elements(x))
  BY SeqIs
<1>2. QED  BY <1>1, ConcatEmptySeq

\* The server of this connection, with what it has changed.
LEMMA SaysInv ==
    ASSUME IInv, ServerStep, ~client.stale, closed = "open",
           \/ toServer' = toServer
           \/ toServer # <<>> /\ toServer' = Tail(toServer),
           NEW s2, IsServer(s2), Stays(server, s2), s2.rx \in Nat,
           s2.phase \in {"hello", "key", "ccs", "finished", "open"},
           s2.phase = "hello" => s2 = server,
           s2.phase # "hello" => s2.run >= 1,
           s2.phase = "open" => s2.tx = s2.run,
           NEW x, Quiet(x, server.plan), s2.phase = "hello" => x = <<>>,
           Says(s2, x)
    PROVE  IInv'
<1>1. ServerOK /\ WiresOK(toClient, toServer, server.plan)
  BY DEF IInv
<1>2. server' = s2 /\ toClient' = toClient \o x /\ closed' = closed
  BY DEF Says
<1>3. s2.phase = "hello" => toClient' = <<>>
  <2>1. ASSUME s2.phase = "hello" PROVE toClient' = <<>>
    <3>1. toClient = <<>> /\ IsSeq(toClient)
      BY <1>1, <2>1 DEF ServerOK, WiresOK
    <3>2. toClient' = toClient \o <<>>
      BY <1>2, <2>1
    <3>3. QED  BY <3>1, <3>2, SaysNothing
  <2>2. QED  BY <2>1
<1>4. ServerOK'
  <2>1. /\ server.plan \in Servers /\ server.run \in Nat /\ server.tx \in Nat
        /\ server.phase = "hello" => server.rx = 0 /\ server.tx = 0 /\ server.run = 0
    BY <1>1 DEF ServerOK
  <2>2. s2.plan = server.plan /\ s2.run = server.run /\ s2.tx = server.tx
    BY DEF Stays
  <2>3. QED  BY <1>2, <1>3, <2>1, <2>2 DEF ServerOK, IsServer
<1>5. Stays(server, server') /\ closed' \in {"open", "closed"}
  BY <1>2
<1>6. QED  BY <1>2, <1>4, <1>5, QuietInv

LEMMA ServerAsksAgainInv ==
    ASSUME IInv, ServerAsksAgain
    PROVE  IInv'
<1>s. PICK s2 : s2 = [server EXCEPT !.asked = @ + 1]
  OBVIOUS
<1>k. PICK key : key = server.tx
  OBVIOUS
<1>r. PICK run : run = server.run
  OBVIOUS
<1>t. PICK type : type = "hello_request"
  OBVIOUS
<1>v. PICK value : value = ""
  OBVIOUS
<1>p. PICK plan : plan = server.plan
  OBVIOUS
<1>x. PICK x : x = Handshake(Message(type, run, value), key)
  OBVIOUS
<1>1. /\ ServerStep /\ closed = "open" /\ server.phase = "open" /\ toServer' = toServer
      /\ Says(s2, x)
  BY <1>s, <1>k, <1>r, <1>t, <1>v, <1>x DEF ServerAsksAgain, ServerStep
<1>2. ServerOK /\ (client.stale => StaleOK)
  BY <1>1 DEF IInv, ServerStep
<1>3. ~client.stale
  BY <1>1, <1>2 DEF StaleOK
<1>4. /\ IsServer(s2) /\ Stays(server, s2) /\ s2.phase = "open" /\ s2.run = server.run
      /\ s2.rx = server.rx /\ s2.tx = server.tx
  BY <1>1, <1>2, <1>s DEF ServerOK, IsServer, Stays
<1>5. s2.rx \in Nat /\ s2.run >= 1 /\ s2.tx = s2.run
  BY <1>1, <1>2, <1>4 DEF ServerOK
<1>6. ByItself(x, type, run, value, key)
  <2>1. run \in Nat \ {0} /\ key \in Nat
    BY <1>1, <1>2, <1>k, <1>r DEF ServerOK
  <2>2. QED  BY <2>1, <1>t, <1>x DEF ByItself
<1>7. Quiet(x, server.plan)
  <2>1. Spoken(x, plan, type, value, key)
    BY <1>6, MessageIs
  <2>2. QED  BY <2>1, <1>p, <1>t DEF Spoken
<1>8. QED  BY <1>1, <1>3, <1>4, <1>5, <1>7, SaysInv

\* A tunnel that nothing will come to.
LEMMA GoneGood ==
    ASSUME NEW c, NEW in, NEW out, NEW s, NEW open, Good(c, in, out, s, open),
           NEW in2, Len(in2) = 0, NEW s2, Stays(s, s2), NEW open2, ~open2
    PROVE  Good(c, in2, out, s2, open2) /\ ~First(in2, s2, open2)
<1>1. \A i \in 1 .. Len(in2) : FALSE
  OBVIOUS
<1>2. ~First(in2, s2, open2)
  BY <1>1 DEF First
<1>3. ASSUME Engaged(c, in2, s2, open2)
      PROVE  Settled(c, s2.plan) /\ InStep(c, in2, out, s2)
  <2>1. Engaged(c, in, s, open)
    BY <1>2, <1>3 DEF Engaged
  <2>2. Settled(c, s.plan) /\ InStep(c, in, out, s)
    BY <2>1 DEF Good
  <2>3. HellosOK(c, in2, out, s2)
    BY <1>1, <2>2 DEF InStep, HellosOK, Stays
  <2>4. AnswersOK(c, in2) /\ FinishedOK(in2, s2)
    BY <1>1 DEF AnswersOK, FinishedOK
  <2>5. ActiveOK(c, s2) /\ s2.run <= c.run /\ Settled(c, s2.plan)
    BY <2>2 DEF InStep, ActiveOK, Stays
  <2>6. QED  BY <2>3, <2>4, <2>5 DEF InStep
<1>4. QED  BY <1>2, <1>3 DEF Good, FirstOK

\* The server has closed, or the link is broken.
LEMMA GoneInv ==
    ASSUME IInv, ServerStep, closed = "open",
           NEW phase \in {"refused", "gone"}, server' = [server EXCEPT !.phase = phase],
           \/ toServer' = toServer
           \/ toServer # <<>> /\ toServer' = Tail(toServer),
           \/ closed' = "reset" /\ toClient' = <<>> /\ toServer' = toServer
           \/ closed' = "closed" /\ toClient' = toClient
           \/ closed' = "closed" /\ \E what : toClient' = toClient \o Alert(what, server.tx)
    PROVE  IInv'
<1>1. ClientOK(client) /\ ServerOK /\ WiresOK(toClient, toServer, server.plan)
  BY DEF IInv
<1>2. /\ IsServer(server') /\ server'.plan = server.plan /\ server'.run = server.run
      /\ server'.rx = server.rx /\ server'.tx = server.tx /\ server'.phase = phase
      /\ server'.log = server.log
  BY <1>1 DEF ServerOK, IsServer
<1>3. Stays(server, server')
  BY <1>2 DEF Stays, Over
<1>4. closed' \in {"closed", "reset"}
  OBVIOUS
<1>5. ServerOK'
  BY <1>1, <1>2 DEF ServerOK, IsServer
<1>6. CASE client.stale
  BY <1>2, <1>4, <1>6, StaleServerInv
<1>7. CASE ~client.stale
  <2>1. OfServer(toClient, server.plan) /\ IsSeq(toClient) /\ OfClient(toServer) /\ IsSeq(toServer)
    BY <1>1 DEF WiresOK, OfServer, OfClient
  <2>2. CASE closed' = "closed" /\ toClient' = toClient
    <3>1. Quiet(<<>>, server.plan) /\ toClient' = toClient \o <<>>
      BY <2>1, <2>2, QuietAre, SaysNothing
    <3>2. QED  BY <1>3, <1>5, <1>7, <2>2, <3>1, QuietInv
  <2>3. ASSUME NEW what, closed' = "closed", toClient' = toClient \o Alert(what, server.tx)
        PROVE  IInv'
    <3>1. server.tx \in Nat
      BY <1>1 DEF ServerOK
    <3>2. Quiet(Alert(what, server.tx), server.plan)
      BY <3>1, QuietAre
    <3>3. QED  BY <1>3, <1>5, <1>7, <2>3, <3>2, QuietInv
  <2>4. CASE closed' = "reset" /\ toClient' = <<>> /\ toServer' = toServer
    <3>o. PICK open \in BOOLEAN : open = (closed = "open")
      OBVIOUS
    <3>p. PICK open2 \in BOOLEAN : open2 = (closed' = "open")
      OBVIOUS
    <3>1. FreshOK
      BY <1>7 DEF IInv, ServerStep
    <3>2. Good(client, toClient, toServer, server, open)
      BY <3>1, <3>o DEF FreshOK
    <3>3. ~open2 /\ Len(toClient') = 0
      BY <2>4, <3>p
    <3>4. Good(client, toClient', toServer', server', open2) /\ ~First(toClient', server', open2)
      BY <1>3, <2>4, <3>2, <3>3, GoneGood
    <3>5. Quiet(<<>>, server.plan)
      BY QuietAre
    <3>6. OfServer(toClient', server'.plan)
      BY <1>2, <2>4, <3>5 DEF Quiet
    <3>7. OfClient(toServer')
      BY <2>1, <2>4
    <3>8. QED  BY <1>4, <1>5, <1>7, <3>4, <3>6, <3>7, <3>o, <3>p, FreshServerInv
  <2>5. QED  BY <2>2, <2>3, <2>4
<1>8. QED  BY <1>6, <1>7

LEMMA ServerGivesUpInv ==
    ASSUME IInv, ServerGivesUp
    PROVE  IInv'
<1>1. /\ ServerStep /\ closed = "open" /\ toServer' = toServer
      /\ \/ closed' = "closed" /\ toClient' = toClient
         \/ closed' = "closed" /\ \E what : toClient' = toClient \o Alert(what, server.tx)
         \/ closed' = "reset" /\ toClient' = <<>>
  BY DEF ServerGivesUp, ServerStep
<1>p. PICK phase \in {"refused", "gone"} : phase = "gone"
  OBVIOUS
<1>2. server' = [server EXCEPT !.phase = phase]
  BY <1>p DEF ServerGivesUp
<1>3. QED  BY <1>1, <1>2, <1>p, GoneInv

LEMMA GreetsInv ==
    ASSUME IInv, ServerStep, closed = "open", toServer # <<>>, toServer' = Tail(toServer),
           ~client.stale, server.phase \in {"hello", "open"},
           NEW r, r = Head(toServer), IsHello(r), Greets(r.value)
    PROVE  IInv'
<1>1. ServerOK /\ WiresOK(toClient, toServer, server.plan) /\ FreshOK /\ ClientOK(client)
  BY DEF IInv, ServerStep
<1>2. OfServer(toClient, server.plan) /\ IsSeq(toClient) /\ OfClient(toServer)
  BY <1>1 DEF WiresOK, OfServer, OfClient
<1>3. /\ IsRest(toServer', toServer, 1) /\ OfClient(toServer') /\ FromClient(r)
      /\ r = toServer[1]
  BY <1>2, TakenIs
<1>f. PICK f : f = Flight(server.plan, r.value.run)
  OBVIOUS
<1>x. PICK x : x = Handshakes(f, server.tx)
  OBVIOUS
<1>s. PICK s2 : s2 = [server EXCEPT !.phase = "key", !.run = r.value.run,
                                    !.log = <<r.value>> \o f]
  OBVIOUS
<1>4. server' = s2 /\ toClient' = toClient \o x /\ closed' = closed
  BY <1>f, <1>x, <1>s DEF Greets, Says
<1>5. /\ IsServer(s2) /\ s2.plan = server.plan /\ s2.phase = "key" /\ s2.run = r.value.run
      /\ s2.rx = server.rx /\ s2.tx = server.tx
  BY <1>1, <1>s DEF ServerOK, IsServer
<1>6. r.value.run \in Nat \ {0}
  BY <1>3 DEF FromClient, IsHello, IsMessage
<1>7. ServerOK'
  BY <1>1, <1>4, <1>5, <1>6 DEF ServerOK, IsServer
<1>8. HelloFirst(f, server.plan)
  BY <1>f, FlightIs
<1>9. server.tx \in Nat /\ server.run \in Nat /\ client.run \in Nat
  BY <1>1 DEF ServerOK, ClientOK, IsTunnel, Tunnels
<1>10. OfServer(x, server.plan)
  BY <1>8, <1>9, <1>x, FlightRecords
<1>11. OfServer(toClient', server'.plan)
  BY <1>2, <1>4, <1>5, <1>10, OfServerConcat
<1>12. /\ server.phase = "hello" => toClient = <<>> /\ server.tx = 0
       /\ server.phase # "hello" => server.tx # 0
  BY <1>1, <1>9 DEF ServerOK
<1>o. PICK open \in BOOLEAN : open = (closed = "open")
  OBVIOUS
<1>p. PICK open2 \in BOOLEAN : open2 = (closed' = "open")
  OBVIOUS
<1>13. open = TRUE /\ open2 = TRUE
  BY <1>4, <1>o, <1>p
<1>14. Good(client, toClient, toServer, server, TRUE)
  BY <1>1, <1>13, <1>o DEF FreshOK
<1>15. \A i \in 1 .. Len(toClient) : toClient[i].key \in Nat
  BY <1>2 DEF OfServer, FromServer
<1>16. Hailed(client, toClient, toServer, server, toServer', s2, f, x, toClient')
  BY <1>2, <1>3, <1>4, <1>5, <1>8, <1>9, <1>12, <1>14, <1>15, <1>x DEF Hailed
<1>17. /\ Good(client, toClient', toServer', s2, TRUE)
       /\ First(toClient', s2, TRUE) => First(toClient, server, TRUE)
  BY <1>16, GreetsGood
<1>18. /\ Good(client, toClient', toServer', server', open2)
       /\ First(toClient', server', open2) => First(toClient, server, open)
  BY <1>4, <1>13, <1>17
<1>19. closed' \in {"open", "closed", "reset"}
  BY <1>4
<1>20. QED  BY <1>3, <1>7, <1>11, <1>18, <1>19, <1>o, <1>p, FreshServerInv

LEMMA FinishesInv ==
    ASSUME IInv, ServerStep, closed = "open", toServer # <<>>, toServer' = Tail(toServer),
           ~client.stale, server.phase = "finished", NEW m, Finishes(m)
    PROVE  IInv'
<1>1. ServerOK /\ WiresOK(toClient, toServer, server.plan) /\ FreshOK
  BY DEF IInv, ServerStep
<1>2. OfServer(toClient, server.plan) /\ IsSeq(toClient) /\ OfClient(toServer)
  BY <1>1 DEF WiresOK, OfServer, OfClient
<1>3. IsRest(toServer', toServer, 1) /\ OfClient(toServer')
  BY <1>2, TakenIs
<1>l. PICK log : log = Append(server.log, m)
  OBVIOUS
<1>s. PICK s2 : s2 = [server EXCEPT !.phase = "open", !.log = log, !.tx = server.run]
  OBVIOUS
<1>x. PICK x : x = ChangeCipherSpec(server.tx)
                      \o Handshake(Message("finished", server.run, log), server.run)
  OBVIOUS
<1>4. server' = s2 /\ toClient' = toClient \o x /\ closed' = closed
  BY <1>l, <1>x, <1>s DEF Finishes, Says
<1>5. /\ IsServer(s2) /\ s2.plan = server.plan /\ s2.phase = "open" /\ s2.run = server.run
      /\ s2.rx = server.rx /\ s2.tx = server.run /\ s2.log = log
  BY <1>1, <1>s DEF ServerOK, IsServer
<1>6. server.run \in Nat \ {0} /\ server.tx \in Nat
  BY <1>1 DEF ServerOK
<1>7. ServerOK'
  BY <1>1, <1>4, <1>5, <1>6 DEF ServerOK, IsServer
<1>o. PICK open \in BOOLEAN : open = (closed = "open")
  OBVIOUS
<1>p. PICK open2 \in BOOLEAN : open2 = (closed' = "open")
  OBVIOUS
<1>8. open = TRUE /\ open2 = TRUE
  BY <1>4, <1>o, <1>p
<1>9. Good(client, toClient, toServer, server, TRUE)
  BY <1>1, <1>8, <1>o DEF FreshOK
<1>10. Ends(client, toClient, toServer, server, toServer', s2, x, toClient')
  BY <1>2, <1>3, <1>4, <1>5, <1>6, <1>9, <1>x DEF Ends
<1>11. /\ Good(client, toClient', toServer', s2, TRUE)
       /\ First(toClient', s2, TRUE) => First(toClient, server, TRUE)
       /\ OfServer(x, server.plan)
  BY <1>10, FinishesGood
<1>12. OfServer(toClient', server'.plan)
  BY <1>2, <1>4, <1>5, <1>11, OfServerConcat
<1>13. /\ Good(client, toClient', toServer', server', open2)
       /\ First(toClient', server', open2) => First(toClient, server, open)
  BY <1>4, <1>8, <1>11
<1>14. closed' \in {"open", "closed", "reset"}
  BY <1>4
<1>15. QED  BY <1>3, <1>7, <1>12, <1>13, <1>14, <1>o, <1>p, FreshServerInv

LEMMA ServerReadsInv ==
    ASSUME IInv, ServerReads
    PROVE  IInv'
<1>r. PICK r : r = Head(toServer)
  OBVIOUS
<1>1. /\ ServerStep /\ closed = "open" /\ toServer # <<>> /\ toServer' = Tail(toServer)
      /\ \/ Refuses(Alert("fatal", server.tx))
         \/ /\ r.key = server.rx
            /\ \/ Refuses(<<>>)
               \/ Says(server, <<>>)
               \/ /\ server.phase = "ccs"
                  /\ Says([server EXCEPT !.phase = "finished", !.rx = server.run], <<>>)
               \/ server.phase = "open" /\ Says(server, Data(server.tx))
               \/ IsHello(r) /\ server.phase \in {"hello", "open"} /\ Greets(r.value)
               \/ /\ server.phase = "key"
                  /\ Says([server EXCEPT !.phase = "ccs", !.log = Append(@, r.value)], <<>>)
               \/ server.phase = "finished" /\ Finishes(r.value)
  BY <1>r, ServerReadsCases
<1>2. ServerOK /\ WiresOK(toClient, toServer, server.plan) /\ (client.stale => StaleOK)
  BY <1>1 DEF IInv, ServerStep
<1>p. PICK phase \in {"refused", "gone"} : phase = "refused"
  OBVIOUS
<1>3. CASE Refuses(Alert("fatal", server.tx))
  <2>1. /\ server' = [server EXCEPT !.phase = phase] /\ closed' = "closed"
        /\ \E what : toClient' = toClient \o Alert(what, server.tx)
    BY <1>3, <1>p DEF Refuses
  <2>2. QED  BY <1>1, <1>p, <2>1, GoneInv
<1>4. CASE r.key = server.rx
  <2>1. ~client.stale
    <3>1. ASSUME client.stale PROVE FALSE
      <4>1. OfClient(toServer) /\ server.rx = 0 /\ \A i \in 1 .. Len(toServer) : toServer[i].key # 0
        BY <1>2, <3>1 DEF StaleOK, WiresOK, OfClient
      <4>2. Len(toServer) \in Nat \ {0} /\ r = toServer[1]
        BY <1>1, <1>r, <4>1, TailIs DEF OfClient
      <4>3. 1 \in 1 .. Len(toServer)
        BY <4>2
      <4>4. QED  BY <1>4, <4>1, <4>2, <4>3
    <3>2. QED  BY <3>1
  <2>2. /\ IsServer(server) /\ server.rx \in Nat /\ server.run \in Nat /\ server.tx \in Nat
        /\ server.phase \in {"hello", "key", "ccs", "finished", "open"}
        /\ server.phase # "hello" => server.run >= 1
        /\ server.phase = "open" => server.tx = server.run
        /\ Stays(server, server) /\ Quiet(<<>>, server.plan) /\ Quiet(Data(server.tx), server.plan)
    BY <1>1, <1>2, QuietAre DEF ServerOK, IsServer, Stays
  <2>3. CASE Refuses(<<>>)
    <3>1. IsSeq(toClient)
      BY <1>2 DEF WiresOK
    <3>2. /\ server' = [server EXCEPT !.phase = phase] /\ closed' = "closed"
          /\ toClient' = toClient
      BY <1>p, <2>3, <3>1, SaysNothing DEF Refuses
    <3>3. QED  BY <1>1, <1>p, <3>2, GoneInv
  <2>4. CASE Says(server, <<>>)
    BY <1>1, <2>1, <2>2, <2>4, SaysInv
  <2>5. CASE /\ server.phase = "ccs"
             /\ Says([server EXCEPT !.phase = "finished", !.rx = server.run], <<>>)
    <3>s. PICK s2 : s2 = [server EXCEPT !.phase = "finished", !.rx = server.run]
      OBVIOUS
    <3>1. /\ IsServer(s2) /\ s2.plan = server.plan /\ s2.phase = "finished"
          /\ s2.run = server.run /\ s2.rx = server.run /\ s2.tx = server.tx
      BY <2>2, <3>s DEF IsServer
    <3>2. Stays(server, s2) /\ Says(s2, <<>>)
      BY <2>5, <3>s, <3>1 DEF Stays, Over
    <3>3. s2.rx \in Nat /\ s2.run >= 1
      BY <2>2, <2>5, <3>1
    <3>4. QED  BY <1>1, <2>1, <2>2, <3>1, <3>2, <3>3, SaysInv
  <2>6. CASE server.phase = "open" /\ Says(server, Data(server.tx))
    BY <1>1, <2>1, <2>2, <2>6, SaysInv
  <2>7. CASE IsHello(r) /\ server.phase \in {"hello", "open"} /\ Greets(r.value)
    BY <1>1, <1>r, <2>1, <2>7, GreetsInv
  <2>8. CASE /\ server.phase = "key"
             /\ Says([server EXCEPT !.phase = "ccs", !.log = Append(@, r.value)], <<>>)
    <3>s. PICK s2 : s2 = [server EXCEPT !.phase = "ccs", !.log = Append(@, r.value)]
      OBVIOUS
    <3>1. /\ IsServer(s2) /\ s2.plan = server.plan /\ s2.phase = "ccs"
          /\ s2.run = server.run /\ s2.rx = server.rx /\ s2.tx = server.tx
      BY <2>2, <3>s DEF IsServer
    <3>2. Stays(server, s2) /\ Says(s2, <<>>)
      BY <2>8, <3>s, <3>1 DEF Stays, Over
    <3>3. s2.rx \in Nat /\ s2.run >= 1
      BY <2>2, <2>8, <3>1
    <3>4. QED  BY <1>1, <2>1, <2>2, <3>1, <3>2, <3>3, SaysInv
  <2>9. CASE server.phase = "finished" /\ Finishes(r.value)
    BY <1>1, <2>1, <2>9, FinishesInv
  <2>10. QED  BY <1>1, <1>3, <2>3, <2>4, <2>5, <2>6, <2>7, <2>8, <2>9
<1>5. QED  BY <1>1, <1>3, <1>4

-----------------------------------------------------------------------------
(* The theorems *)

LEMMA InitIInv ==
    ASSUME Init
    PROVE  IInv
<1>1. /\ client = [StopTunnel(Tunnel) EXCEPT !.transport = "inactive"]
      /\ Idle /\ logins = 0 /\ toServer = <<>> /\ toClient = <<>> /\ closed = "closed"
      /\ server \in {Server(plan) : plan \in Servers}
  BY DEF Init, Idle
<1>2. /\ IsTunnel(Tunnel) /\ Tunnel.state = "ProtocolReset" /\ ~Tunnel.stale
      /\ Tunnel.out = <<>> /\ Tunnel.log = <<>> /\ Tunnel.buffered = <<>> /\ ~Tunnel.session
  BY TunnelIs DEF Tunnel
<1>3. Logout(Tunnel) = Tunnel
  BY <1>2 DEF Logout
<1>a. PICK a : a = [Tunnel EXCEPT !.live = FALSE, !.state = "ProtocolReset"]
  OBVIOUS
<1>4. client = [a EXCEPT !.transport = "inactive"]
  BY <1>1, <1>3, <1>a DEF StopTunnel
<1>t. Tunnel \in Tunnels(<<>>, <<>>, <<>>)
  BY <1>2 DEF IsTunnel
<1>5. /\ a \in Tunnels(<<>>, <<>>, <<>>) /\ ~a.live /\ a.state = "ProtocolReset"
      /\ ~a.session /\ a.log = <<>> /\ a.buffered = <<>> /\ a.out = <<>>
  BY <1>2, <1>a, <1>t DEF Tunnels, AllStates
<1>6. /\ client \in Tunnels(<<>>, <<>>, <<>>) /\ ~client.live /\ client.state = "ProtocolReset"
      /\ ~client.session /\ client.transport = "inactive"
      /\ client.log = <<>> /\ client.buffered = <<>> /\ client.out = <<>>
  BY <1>4, <1>5 DEF Tunnels
<1>7. OfClient(<<>>) /\ Parts(<<>>)
  BY DEF OfClient, Parts, IsSeq
<1>8. ClientOK(client)
  BY <1>6, <1>7 DEF ClientOK, IsTunnel, Agrees, States
<1>9. WiresOK(toClient, toServer, server.plan)
  BY <1>1 DEF WiresOK, IsSeq
<1>10. ServerOK
  <2>1. PICK plan \in Servers : server = Server(plan)
    BY <1>1
  <2>2. /\ IsServer(server) /\ server.plan = plan /\ server.phase = "hello" /\ server.run = 0
        /\ server.rx = 0 /\ server.tx = 0
    BY <2>1, ServerIs DEF IsServer
  <2>3. QED  BY <1>1, <2>2 DEF ServerOK, IsServer
<1>11. CallOK
  <2>1. MaxLogins \in Nat
    BY TlsAssumption
  <2>2. logins \in 0 .. MaxLogins
    BY <1>1, <2>1
  <2>3. QED  BY <1>1, <1>6, <2>2 DEF CallOK, Idle
<1>12. QED  BY <1>1, <1>8, <1>9, <1>10, <1>11 DEF IInv

LEMMA NextIInv ==
    ASSUME IInv, [Next]_vars
    PROVE  IInv'
<1>1. CASE ServerReads  BY <1>1, ServerReadsInv
<1>2. CASE ServerAsksAgain  BY <1>2, ServerAsksAgainInv
<1>3. CASE ServerGivesUp  BY <1>3, ServerGivesUpInv
<1>4. CASE Connect  BY <1>4, ConnectInv
<1>5. CASE Receive  BY <1>5, ReceiveInv
<1>6. CASE ReceiveFails  BY <1>6, ReceiveFailsInv
<1>7. CASE SendWaits  BY <1>7, SendWaitsInv
<1>8. CASE SendRequest  BY <1>8, SendRequestInv
<1>9. CASE Refresh  BY <1>9, RefreshInv
<1>10. CASE Disconnect  BY <1>10, DisconnectInv
<1>11. CASE UNCHANGED vars
  <2>1. UNCHANGED <<client, call, logins, toServer, toClient, server, closed>>
    BY <1>11 DEF vars
  <2>2. ServerOK' <=> ServerOK
    BY <2>1 DEF ServerOK
  <2>3. (CallOK' <=> CallOK) /\ (Idle' <=> Idle) /\ (Looping' <=> Looping)
    BY <2>1 DEF CallOK, Idle, Looping
  <2>4. StaleOK' <=> StaleOK
    BY <2>1 DEF StaleOK
  <2>5. FreshOK' <=> FreshOK
    BY <2>1, <2>3 DEF FreshOK
  <2>6. QED  BY <2>1, <2>2, <2>3, <2>4, <2>5 DEF IInv
<1>12. QED
  BY <1>1, <1>2, <1>3, <1>4, <1>5, <1>6, <1>7, <1>8, <1>9, <1>10, <1>11 DEF Next

\* The inductive invariant: whatever the servers, however their records are cut,
\* and whenever a server asks for new keys, closes or is replaced, a tunnel and what
\* is under way to it and from it stay in step (SslHandshake_Client, TcpMsgProcessor).
THEOREM Invariant == Spec => []IInv
<1>1. Init => IInv
  BY InitIInv
<1>2. IInv /\ [Next]_vars => IInv'
  BY NextIInv
<1>3. QED  BY <1>1, <1>2, PTL DEF Spec

LEMMA IInvTransport ==
    ASSUME IInv
    PROVE  TransportAgrees
<1>1. ClientOK(client)
  BY DEF IInv
<1>2. QED  BY <1>1, TransportIs DEF TransportAgrees, TunnelActive

\* At any server the processor's transport state says what the tunnel is doing, and
\* there is a session in an active tunnel only (stateChanged, StopTunnel).
THEOREM TransportIsRight == Spec => []TransportAgrees
<1>1. IInv => TransportAgrees
  BY IInvTransport
<1>2. QED  BY <1>1, Invariant, PTL

LEMMA IInvTypeOK ==
    ASSUME IInv
    PROVE  TypeOK
<1>1. ClientOK(client) /\ CallOK
  BY DEF IInv
<1>2. IsTunnel(client) /\ Agrees(client) /\ client.out = <<>>
  BY <1>1 DEF ClientOK, CallOK
<1>3. /\ client.state \in AllStates /\ client.cipher \in Ciphers
      /\ client.transport \in {"inactive", "login", "active", "logout"}
  BY <1>2 DEF IsTunnel, Tunnels
<1>4. ~client.live => client.state = "ProtocolReset" /\ client.transport = "inactive"
  BY <1>2 DEF Agrees
<1>5. QED  BY <1>1, <1>2, <1>3, <1>4 DEF TypeOK, AllStates, Ciphers, CallOK

LEMMA IInvAgreement ==
    ASSUME IInv
    PROVE  Agreement
<1>1. TypeOK
  BY IInvTypeOK
<1>2. ASSUME client.state = "Active"
      PROVE  /\ client.rx = client.run /\ client.tx = client.run
             /\ IF client.stale
                THEN \A i \in DOMAIN toClient : toClient[i].key # client.rx
                ELSE /\ client.log = server.log
                     /\ client.cipher = server.plan.suite
                     /\ server.plan.fault = "none"
  <2>1. /\ ClientOK(client) /\ CallOK /\ ServerOK /\ ~Idle
        /\ WiresOK(toClient, toServer, server.plan)
        /\ IF client.stale THEN StaleOK ELSE FreshOK
    BY <1>2 DEF IInv, CallOK
  <2>2. client.live /\ client.rx = client.run /\ client.tx = client.run
    BY <1>2, <2>1, ActiveKeys
  <2>3. client.run \in Nat \ {0}
    BY <2>1, <2>2, TransportIs
  <2>4. CASE client.stale
    <3>1. \A i \in 1 .. Len(toClient) : toClient[i].key = 0
      BY <2>1, <2>4 DEF StaleOK
    <3>2. DOMAIN toClient = 1 .. Len(toClient)
      <4>1. IsSeq(toClient)
        BY <2>1 DEF WiresOK
      <4>2. toClient \in Seq(Elements(toClient))
        BY <4>1, SeqIs
      <4>3. QED  BY <4>2
    <3>3. QED  BY <2>2, <2>3, <2>4, <3>1, <3>2
  <2>5. CASE ~client.stale
    <3>1. Good(client, toClient, toServer, server, closed = "open")
      BY <2>1, <2>5 DEF FreshOK
    <3>2. Settled(client, server.plan) /\ InStep(client, toClient, toServer, server)
      BY <1>2, <2>2, <3>1, QuietWires DEF Handshaking
    <3>3. client.log = server.log
      BY <1>2, <3>2 DEF InStep, ActiveOK
    <3>4. client.cipher = server.plan.suite /\ client.cipher # NoCipher
      BY <1>2, <3>2 DEF Settled
    <3>5. server.plan.fault # "extension"
      BY <3>2, <3>4 DEF Settled
    <3>6. NeedsCertificate(server.plan.suite) =>
             server.plan.fault \notin {"no certificate", "bad certificate"}
      BY <1>2, <3>2, <3>4 DEF Settled
    <3>7. /\ server.plan.fault \in Faults
          /\ server.plan.fault \in {"no certificate", "bad certificate"} =>
                NeedsCertificate(server.plan.suite)
      <4>1. server.plan \in Servers
        BY <2>1 DEF ServerOK
      <4>2. QED  BY <4>1, TlsAssumption
    <3>8. server.plan.fault = "none"
      BY <3>5, <3>6, <3>7 DEF Faults
    <3>9. QED  BY <2>2, <2>5, <3>3, <3>4, <3>8
  <2>6. QED  BY <2>4, <2>5
<1>3. QED  BY <1>1, <1>2 DEF Agreement

\* An active tunnel and its server have heard and said the same, with the same suite and the
\* last handshake's keys, and the server has no fault; a server put in its place
\* cannot be understood (handleServerFinished, changeState, TcpChannel's reconnect).
THEOREM ActiveMeansAgreed == Spec => []Agreement
<1>1. IInv => Agreement
  BY IInvAgreement
<1>2. QED  BY <1>1, Invariant, PTL
=============================================================================
