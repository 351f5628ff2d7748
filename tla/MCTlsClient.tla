----------------------------- MODULE MCTlsClient -----------------------------
(* Instances of TlsClient for TLC. *)
EXTENDS TlsClient

Sound(suite) == [suite |-> suite, fault |-> "none", asks |-> FALSE, lenient |-> FALSE]

\* Servers of each suite, one of each fault, and those that ask for a client's
\* certificate, whether they insist on it or not.
AllServers ==
    {Sound(suite) : suite \in Suites}
    \union {[Sound("dhe") EXCEPT !.fault = fault] : fault \in Faults}
    \union {[Sound("rsa") EXCEPT !.asks = TRUE, !.lenient = lenient] : lenient \in BOOLEAN}
=============================================================================
