--------------------------- MODULE ReadersWriters ---------------------------
(***************************************************************************)
(* What a readers/writer lock promises to the code that uses it: guards    *)
(* (AutoReaderLock, AutoWriterLock) are granted to threads and given back  *)
(* in LIFO order, and a thread that holds a writer guard shares the lock   *)
(* with no other thread.  How the grant is decided is not said here; the   *)
(* module RWLock is the implementation in VEILCore/RWLock.cpp.             *)
(***************************************************************************)
EXTENDS Naturals, Sequences

CONSTANT Threads     \* the threads that share the lock

VARIABLE held        \* held[t]: the modes of the guards t holds, oldest first

Modes == {"R", "W"}

Holds(t, m) == \E i \in DOMAIN held[t] : held[t][i] = m

Others(t) == Threads \ {t}

Init == held = [t \in Threads |-> <<>>]

\* A reader guard is granted while no other thread is writing.
GrantRead(t) ==
    /\ \A u \in Others(t) : ~Holds(u, "W")
    /\ held' = [held EXCEPT ![t] = Append(@, "R")]

\* A writer guard is granted while no other thread holds any guard.
GrantWrite(t) ==
    /\ \A u \in Others(t) : held[u] = <<>>
    /\ held' = [held EXCEPT ![t] = Append(@, "W")]

\* The newest guard goes out of scope.
Release(t) ==
    /\ held[t] # <<>>
    /\ held' = [held EXCEPT ![t] = SubSeq(@, 1, Len(@) - 1)]

Next == \E t \in Threads : GrantRead(t) \/ GrantWrite(t) \/ Release(t)

Spec == Init /\ [][Next]_held
=============================================================================
