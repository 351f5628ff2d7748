---------------------------- MODULE HttpReceive ----------------------------
(***************************************************************************)
(* HttpChannel::Receive and HttpHeader::ReadStream: an HTTP response read  *)
(* from a socket that hands the bytes out in pieces of any size.           *)
(*                                                                         *)
(* A token stands for a part of the stream that is parsed at once: a       *)
(* response line, the rest of the header (all that matters of it is the    *)
(* content-length), one unit of a body, which is text that ends no line,   *)
(* or junk, which is no line of a response wherever it comes.              *)
(*                                                                         *)
(* The server may break the rules at any time: see Malformed.  What a      *)
(* Receive returns from then on is modelled, and nothing is claimed of it  *)
(* until the connection is made anew: see clean.                           *)
(***************************************************************************)
EXTENDS Naturals, SequencesExt

CONSTANTS
    Scripts,    \* what the server should answer a request with: sequences of
                \* [status, length, body], length NoLength or that of the body;
                \* 100s, which have no body, and then the answer
    Malformed,  \* what it may answer instead: any sequences of tokens
    NoLength,
    Chunk,      \* the most a read takes while in the header (1023)
    MaxHttpRequests  \* calls of Send

Messages == UNION {{s[i] : i \in DOMAIN s} : s \in Scripts}

Tokens == [is : {"line"}, value : Nat]
              \union [is : {"blank", "body", "junk"}, value : Nat \union {NoLength}]

ASSUME ReceiveAssumption ==
    /\ NoLength \notin Nat
    /\ Malformed \subseteq Seq(Tokens)
    /\ Chunk \in Nat \ {0}
    /\ MaxHttpRequests \in Nat
    /\ \A m \in Messages :
          /\ m.status \in Nat /\ m.body \in Nat /\ m.length \in {m.body, NoLength}
          /\ m.status = 100 \/ m.length = NoLength => m.body = 0
    /\ \A s \in Scripts :
          /\ s \in Seq(Messages) \ {<<>>}
          /\ \A i \in DOMAIN s : s[i].status = 100 <=> i < Len(s)

VARIABLES
    wire,      \* the bytes the socket has for the client
    connected, \* m_isConnected
    closed,    \* the server has closed its end
    header,    \* the IHttpResponse being read: state, status, length, dataPart
    receive,   \* what Receive is doing, or what it returned
    request,   \* how many requests were sent
    asked,     \* history: on a clean connection, the script the last request was
               \* answered with, if it was answered at all
    clean      \* history: since the connection was made the server has followed
               \* its scripts, and no read has failed

httpVars == <<wire, connected, closed, header, receive, request, asked, clean>>

Line(status) == [is |-> "line", value |-> status]
Blank(length) == [is |-> "blank", value |-> length]
Junk == [is |-> "junk", value |-> 0]
Body(n, size) == [i \in 1 .. size |-> [is |-> "body", value |-> n]]

\* A message as it goes over the wire.
Encoded(m, n) == <<Line(m.status), Blank(m.length)>> \o Body(n, m.body)

EncodedAll(s, n) == FlattenSeq([i \in DOMAIN s |-> Encoded(s[i], n)])

\* HttpHeader::clear, and the lead-in becomes the data.
ClearedHeader(leadin) ==
    [state |-> "request", status |-> 0, length |-> NoLength, data |-> leadin]

HttpInit ==
    /\ wire = <<>>
    /\ connected = TRUE
    /\ closed = FALSE
    /\ header = ClearedHeader(<<>>)
    /\ receive = "idle"
    /\ request = 0
    /\ asked = <<>>
    /\ clean = TRUE

-----------------------------------------------------------------------------
(* HttpHeader *)

\* Where the first line of the data has its end: the text before it is its beginning.
LineEnds(data) == {i \in DOMAIN data : data[i].is # "body"}

\* The response line, if all of it is there yet: any line of two words is one, so
\* that of a header is one as well, and an empty line is waited on for ever.
ParseOffResponseLine(h) ==
    IF h.state # "request" \/ LineEnds(h.data) = {} THEN h
    ELSE LET i == Min(LineEnds(h.data))
             end == h.data[i]
             rest == SubSeq(h.data, i + 1, Len(h.data))
             Parsed(data) == [h EXCEPT !.state = "header", !.status = end.value, !.data = data]
         IN IF end.is = "line" THEN Parsed(rest)
            ELSE IF end.is = "blank" /\ end.value # NoLength
                 THEN Parsed(<<Blank(NoLength)>> \o rest)
            ELSE IF end.is = "blank" /\ i = 1 THEN h
            ELSE [h EXCEPT !.state = "error"]

\* The attributes up to the empty line, if it is there yet; text before them makes
\* another attribute of the content-length.
ParseOffAttributes(h) ==
    IF h.state # "header" \/ LineEnds(h.data) = {} THEN h
    ELSE LET i == Min(LineEnds(h.data))
             end == h.data[i]
         IN IF end.is = "blank" /\ (i = 1 \/ end.value # NoLength)
            THEN [h EXCEPT !.state = "data",
                           !.length = IF i = 1 THEN end.value ELSE NoLength,
                           !.data = SubSeq(h.data, i + 1, Len(h.data))]
            ELSE [h EXCEPT !.state = "error"]

\* Both; what was parsed off is erased at the end, and after an error not at all.
ParseOffHeaders(h) ==
    LET parsed == ParseOffAttributes(ParseOffResponseLine(h))
    IN IF parsed.state = "error" THEN [parsed EXCEPT !.data = h.data] ELSE parsed

InHeader(h) == h.state \in {"request", "header"}

\* How much the next read asks for: no more than the body, once it is known.
TargetLength(h) ==
    IF InHeader(h) THEN Chunk ELSE Min({Chunk, h.length - Len(h.data)})

\* A slip: the body is complete one byte early.
TakeEarly(h, bytes) ==
    LET parsed == ParseOffHeaders([h EXCEPT !.data = @ \o bytes])
    IN IF parsed.state # "data" THEN parsed
       ELSE IF parsed.length = NoLength
            THEN [parsed EXCEPT !.state = IF parsed.status = 200 THEN "refused" ELSE "done"]
       ELSE IF Len(parsed.data) + 1 >= parsed.length
            THEN [parsed EXCEPT !.state = "done"] ELSE parsed

\* A slip: a body that is there waits for more of it.
TakeLate(h, bytes) ==
    LET parsed == ParseOffHeaders([h EXCEPT !.data = @ \o bytes])
    IN IF parsed.state # "data" THEN parsed
       ELSE IF parsed.length = NoLength
            THEN [parsed EXCEPT !.state = IF parsed.status = 200 THEN "refused" ELSE "done"]
       ELSE IF Len(parsed.data) > parsed.length
            THEN [parsed EXCEPT !.state = "done"] ELSE parsed

\* One turn of the loop of ReadStream: the bytes that were read go to the data,
\* and the data is parsed as far as it goes.  A header without a length ends a
\* response, but not one that says 200.
Take(h, bytes) ==
    LET parsed == ParseOffHeaders([h EXCEPT !.data = @ \o bytes])
    IN IF parsed.state # "data" THEN parsed
       ELSE IF parsed.length = NoLength
            THEN [parsed EXCEPT !.state = IF parsed.status = 200 THEN "refused" ELSE "done"]
       ELSE IF Len(parsed.data) >= parsed.length
            THEN [parsed EXCEPT !.state = "done"] ELSE parsed

\* ReadStream has returned; it returns hh_Success for an error as well.
Complete(h) == h.state \in {"done", "error"}

-----------------------------------------------------------------------------
(* HttpChannel *)

\* Send, and the server's answer, one it should give or one it should not.  RawSend
\* connects again when the socket is found broken; the bytes not read from the old
\* one are lost.
HttpSend ==
    /\ receive # "reading"
    /\ request < MaxHttpRequests
    /\ LET kept == IF connected /\ ~closed THEN wire ELSE <<>>
       IN \/ \E s \in Scripts :
                /\ wire' = kept \o EncodedAll(s, request + 1)
                /\ clean' = (clean \/ ~connected \/ closed)
                /\ asked' = IF clean' THEN s ELSE <<>>
          \/ \E m \in Malformed :
                /\ wire' = kept \o m
                /\ clean' = FALSE
                /\ asked' = <<>>
    /\ request' = request + 1
    /\ connected' = TRUE
    /\ closed' = FALSE
    /\ header' = ClearedHeader(<<>>)
    /\ receive' = "reading"

\* The server has closed, and the socket does not know it yet.
SendInVain ==
    /\ receive # "reading"
    /\ request < MaxHttpRequests
    /\ connected /\ closed
    /\ asked' = <<>>
    /\ request' = request + 1
    /\ header' = ClearedHeader(<<>>)
    /\ receive' = "reading"
    /\ UNCHANGED <<wire, connected, closed, clean>>

\* A slip: what follows a 100 is dropped with it.
ReturnOrContinueDropping(h) ==
    IF Complete(h) /\ h.status = 100
    THEN header' = ClearedHeader(<<>>) /\ receive' = "reading"
    ELSE /\ header' = h
         /\ receive' = IF Complete(h) THEN "success"
                    ELSE IF h.state = "refused" THEN "failure" ELSE "reading"

\* After a 100 the response is cleared and read again from what is left over.
ReturnOrContinue(h) ==
    IF Complete(h) /\ h.status = 100
    THEN header' = ClearedHeader(h.data) /\ receive' = "reading"
    ELSE /\ header' = h
         /\ receive' = IF Complete(h) THEN "success"
                    ELSE IF h.state = "refused" THEN "failure" ELSE "reading"

\* RawReceive waits for bytes and returns what is there, up to the target.
Read ==
    /\ receive = "reading"
    /\ wire # <<>>
    /\ \E n \in 1 .. Min({Len(wire), TargetLength(header)}) :
          \E h \in {Take(header, SubSeq(wire, 1, n))} :
             /\ wire' = SubSeq(wire, n + 1, Len(wire))
             /\ ReturnOrContinue(h)
    /\ UNCHANGED <<connected, closed, request, asked, clean>>

\* The second recv of RawReceive fails, or the processor cannot unwrap what was read:
\* Receive returns, and the socket stays as it is with what was not read.
ReadFails ==
    /\ receive = "reading"
    /\ wire # <<>>
    /\ \E n \in 0 .. Min({Len(wire), TargetLength(header)}) :
          wire' = SubSeq(wire, n + 1, Len(wire))
    /\ receive' = "failure"
    /\ clean' = FALSE
    /\ asked' = <<>>
    /\ UNCHANGED <<connected, closed, header, request>>

\* The end of the stream reads as no bytes: the socket is closed.
ReadEnd ==
    /\ receive = "reading"
    /\ wire = <<>>
    /\ closed
    /\ connected' = FALSE
    /\ receive' = "failure"
    /\ UNCHANGED <<wire, closed, header, request, asked, clean>>

\* The server goes away, and what it had still to send with it.
ServerCloses ==
    /\ connected
    /\ ~closed
    /\ closed' = TRUE
    /\ \E n \in 0 .. Len(wire) : wire' = SubSeq(wire, 1, n)
    /\ UNCHANGED <<connected, header, receive, request, asked, clean>>

HttpNext == HttpSend \/ SendInVain \/ Read \/ ReadFails \/ ReadEnd \/ ServerCloses

HttpSpec == HttpInit /\ [][HttpNext]_httpVars

\* The thread in Receive runs on whenever the socket lets it.
FairHttpSpec == HttpSpec /\ WF_httpVars(Read \/ ReadEnd)

-----------------------------------------------------------------------------
(* Properties *)

\* The variables have their types; a response in its data is not all there.
ResponseTypeOK ==
    /\ header.state \in {"request", "header", "data", "done", "error", "refused"}
    /\ header.state = "data" => Len(header.data) < header.length
    /\ receive \in {"idle", "reading", "success", "failure"}
    /\ connected \in BOOLEAN /\ closed \in BOOLEAN /\ clean \in BOOLEAN
    /\ request \in 0 .. MaxHttpRequests
    /\ asked \in Scripts \union {<<>>}

\* The variables have their types, and on a connection on which the server has kept to
\* its scripts and no read has failed, in whatever pieces the stream comes and wherever
\* the server breaks off, a Receive that succeeds has the status and exactly the body of
\* the answer to the last request (ReadStream, 121-211; the loop of Receive, 855-878).
\* After a malformed answer or a failed read this is not so: ReadStream and Receive
\* leave the socket open with what they did not read on it (HttpHeader.cpp, 189-191 and
\* 209-210; HttpChannel.cpp, 839-843), and the next Receive begins with that.
AnswerIsExact ==
    /\ ResponseTypeOK
    /\ clean /\ receive = "success" =>
          /\ header.status = asked[Len(asked)].status
          /\ header.data = Body(request, asked[Len(asked)].body)

\* On such a connection a Receive that succeeds has read its answer off the socket to
\* the last byte, so that the next one starts at a response line.
NothingLeftOver == clean /\ receive = "success" => wire = <<>>

\* A Receive returns when the server has closed the connection, whatever it has sent,
\* or when it has answered in one message on such a connection.  With a 100 first
\* it may not: ReadStream reads before it parses what is left over after the 100
\* (HttpHeader.cpp, 147).
ReceiveReturns ==
    (receive = "reading" /\ (closed \/ (clean /\ Len(asked) = 1))) ~> receive # "reading"

=============================================================================
