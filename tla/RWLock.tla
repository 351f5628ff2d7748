------------------------------- MODULE RWLock -------------------------------
(***************************************************************************)
(* The readers/writer lock of VEILCore/RWLock.cpp, which the service       *)
(* locators and the plug-in manager are built on.  It is made of a         *)
(* recursive mutex csWrite, a mutex csReadCount, a reader count and a      *)
(* manual-reset event that is set while the count is zero.  Readers pass   *)
(* through csWrite and let it go again; a writer keeps it and waits for    *)
(* the event.  One action per point where another thread can get between   *)
(* two statements.  Guards nest (they are scoped objects), and the         *)
(* constant Nestings says which nestings the callers use.                  *)
(***************************************************************************)
EXTENDS Integers, Sequences, FiniteSets

CONSTANTS
    Threads,     \* the threads that share the lock
    NoThread,    \* owner of a mutex nobody holds
    MaxDepth,    \* bound on the guards one thread nests
    Nestings     \* <<outer, inner>>: the modes callers request under a guard

ASSUME RWLockAssumption ==
    /\ NoThread \notin Threads
    /\ MaxDepth \in Nat
    /\ Nestings \subseteq ({"R", "W"} \X {"R", "W"})

VARIABLES
    csWrite,        \* recursive mutex: [owner, count]
    csReadCount,    \* mutex: its owner
    numReaders,     \* _numReaders
    writeAvailable, \* _writeAvailableEvent is signalled
    pc,             \* where each thread is inside RWLock
    held            \* the modes of the guards each thread holds, oldest first

vars == <<csWrite, csReadCount, numReaders, writeAvailable, pc, held>>

Locations == {"run", "sr_write", "sr_count", "sr_reset",
              "er_count", "er_set", "sw_lock", "sw_wait"}

Init ==
    /\ csWrite = [owner |-> NoThread, count |-> 0]
    /\ csReadCount = NoThread
    /\ numReaders = 0
    /\ writeAvailable = TRUE
    /\ pc = [t \in Threads |-> "run"]
    /\ held = [t \in Threads |-> <<>>]

-----------------------------------------------------------------------------
(* The mutexes (the TSALG library's tsLockMutex / tsUnlockMutex). *)

WriteFree(t) == csWrite.owner \in {t, NoThread}

LockWrite(t) ==
    /\ WriteFree(t)
    /\ csWrite' = [owner |-> t, count |-> csWrite.count + 1]

\* A slip: the first unlock frees the mutex, whatever was locked before.
UnlockWriteAll == csWrite' = [owner |-> NoThread, count |-> 0]

UnlockWrite ==
    csWrite' = IF csWrite.count = 1
               THEN [owner |-> NoThread, count |-> 0]
               ELSE [csWrite EXCEPT !.count = @ - 1]

Goto(t, l) == pc' = [pc EXCEPT ![t] = l]

\* The caller asks for a guard of mode m inside the guards it holds.
MayRequest(t, m) ==
    /\ pc[t] = "run"
    /\ Len(held[t]) < MaxDepth
    /\ \A i \in DOMAIN held[t] : <<held[t][i], m>> \in Nestings

Innermost(t) == held[t][Len(held[t])]

-----------------------------------------------------------------------------
(* AutoReaderLock: StartReader in the constructor. *)

StartReader(t) ==
    /\ MayRequest(t, "R")
    /\ Goto(t, "sr_write")
    /\ UNCHANGED <<csWrite, csReadCount, numReaders, writeAvailable, held>>

StartReaderWrite(t) ==
    /\ pc[t] = "sr_write"
    /\ LockWrite(t)
    /\ Goto(t, "sr_count")
    /\ UNCHANGED <<csReadCount, numReaders, writeAvailable, held>>

StartReaderCount(t) ==
    /\ pc[t] = "sr_count"
    /\ csReadCount = NoThread
    /\ csReadCount' = t
    /\ numReaders' = numReaders + 1
    /\ Goto(t, "sr_reset")
    /\ UNCHANGED <<csWrite, writeAvailable, held>>

\* The first reader resets the event; both mutexes are let go on return.
StartReaderReturn(t) ==
    /\ pc[t] = "sr_reset"
    /\ writeAvailable' = (writeAvailable /\ numReaders # 1)
    /\ csReadCount' = NoThread
    /\ UnlockWrite
    /\ held' = [held EXCEPT ![t] = Append(@, "R")]
    /\ Goto(t, "run")
    /\ UNCHANGED numReaders

(* ~AutoReaderLock: EndReader in the destructor. *)

EndReader(t) ==
    /\ pc[t] = "run"
    /\ held[t] # <<>>
    /\ Innermost(t) = "R"
    /\ held' = [held EXCEPT ![t] = SubSeq(@, 1, Len(@) - 1)]
    /\ Goto(t, "er_count")
    /\ UNCHANGED <<csWrite, csReadCount, numReaders, writeAvailable>>

EndReaderCount(t) ==
    /\ pc[t] = "er_count"
    /\ csReadCount = NoThread
    /\ csReadCount' = t
    /\ numReaders' = numReaders - 1
    /\ Goto(t, "er_set")
    /\ UNCHANGED <<csWrite, writeAvailable, held>>

\* A slip: the last reader leaves without a signal.
EndReaderReturnSilent(t) ==
    /\ pc[t] = "er_set"
    /\ csReadCount' = NoThread
    /\ Goto(t, "run")
    /\ UNCHANGED <<csWrite, numReaders, writeAvailable, held>>

\* The last reader sets the event.
EndReaderReturn(t) ==
    /\ pc[t] = "er_set"
    /\ writeAvailable' = (writeAvailable \/ numReaders = 0)
    /\ csReadCount' = NoThread
    /\ Goto(t, "run")
    /\ UNCHANGED <<csWrite, numReaders, held>>

(* AutoWriterLock: StartWriter in the constructor, EndWriter at the end. *)

StartWriter(t) ==
    /\ MayRequest(t, "W")
    /\ Goto(t, "sw_lock")
    /\ UNCHANGED <<csWrite, csReadCount, numReaders, writeAvailable, held>>

StartWriterLock(t) ==
    /\ pc[t] = "sw_lock"
    /\ LockWrite(t)
    /\ Goto(t, "sw_wait")
    /\ UNCHANGED <<csReadCount, numReaders, writeAvailable, held>>

\* A slip: the writer trusts csWrite alone.
StartWriterReturnAtOnce(t) ==
    /\ pc[t] = "sw_wait"
    /\ held' = [held EXCEPT ![t] = Append(@, "W")]
    /\ Goto(t, "run")
    /\ UNCHANGED <<csWrite, csReadCount, numReaders, writeAvailable>>

\* WaitForEvent(INFINITE), with csWrite held.
StartWriterReturn(t) ==
    /\ pc[t] = "sw_wait"
    /\ writeAvailable
    /\ held' = [held EXCEPT ![t] = Append(@, "W")]
    /\ Goto(t, "run")
    /\ UNCHANGED <<csWrite, csReadCount, numReaders, writeAvailable>>

EndWriter(t) ==
    /\ pc[t] = "run"
    /\ held[t] # <<>>
    /\ Innermost(t) = "W"
    /\ UnlockWrite
    /\ held' = [held EXCEPT ![t] = SubSeq(@, 1, Len(@) - 1)]
    /\ UNCHANGED <<csReadCount, numReaders, writeAvailable, pc>>

-----------------------------------------------------------------------------

Request(t) == StartReader(t) \/ StartWriter(t)

\* The steps a thread takes inside the lock and to give its guards back.
Run(t) ==
    \/ StartReaderWrite(t) \/ StartReaderCount(t) \/ StartReaderReturn(t)
    \/ EndReader(t) \/ EndReaderCount(t) \/ EndReaderReturn(t)
    \/ StartWriterLock(t) \/ StartWriterReturn(t) \/ EndWriter(t)

Next == \E t \in Threads : Request(t) \/ Run(t)

Spec == Init /\ [][Next]_vars

\* Threads are scheduled and leave their critical sections; nothing is
\* assumed about who wins a mutex that several threads wait for.
FairSpec == Spec /\ \A t \in Threads : WF_vars(Run(t))

-----------------------------------------------------------------------------
(* Properties *)

Holds(t, m) == \E i \in DOMAIN held[t] : held[t][i] = m

\* Type invariant of the lock's state and of the threads' guards.
TypeOK ==
    /\ csWrite \in [owner : Threads \cup {NoThread}, count : Int]
    /\ csReadCount \in Threads \cup {NoThread}
    /\ numReaders \in Int
    /\ writeAvailable \in BOOLEAN
    /\ pc \in [Threads -> Locations]
    /\ held \in [Threads -> Seq({"R", "W"})]

\* A thread that holds a writer guard shares the lock with nobody: the
\* locators change their maps only under AutoWriterLock.
MutualExclusion ==
    \A t, u \in Threads : t # u /\ Holds(t, "W") => held[u] = <<>>

\* No wakeup is lost: when nobody is inside the counting section, the event
\* is signalled exactly when no reader is counted.
EventAgrees ==
    csReadCount = NoThread => (writeAvailable <=> numReaders = 0)

(* The inductive invariant.  A frame of a thread is the position of one of  *)
(* its guards, or the position after them for the guard it is constructing *)
(* or destroying.                                                          *)

\* The frames of t that numReaders counts.
ReadFrames(t) ==
    {i \in 1 .. Len(held[t]) + 1 :
        IF i <= Len(held[t]) THEN held[t][i] = "R"
                             ELSE pc[t] \in {"sr_reset", "er_count"}}

\* The frames of t that hold csWrite.
WriteFrames(t) ==
    {i \in 1 .. Len(held[t]) + 1 :
        IF i <= Len(held[t]) THEN held[t][i] = "W"
                             ELSE pc[t] \in {"sr_count", "sr_reset", "sw_wait"}}

CountedFrames == UNION {{t} \X ReadFrames(t) : t \in Threads}

ReadersCounted ==
    /\ IsFiniteSet(CountedFrames)
    /\ numReaders = Cardinality(CountedFrames)

WriteOwned ==
    /\ csWrite.owner = NoThread => csWrite.count = 0
    /\ \A t \in Threads :
          IF t = csWrite.owner
          THEN /\ IsFiniteSet(WriteFrames(t))
               /\ csWrite.count = Cardinality(WriteFrames(t))
               /\ csWrite.count > 0
          ELSE WriteFrames(t) = {}

CountOwned ==
    \A t \in Threads : pc[t] \in {"sr_reset", "er_set"} <=> csReadCount = t

\* What the event says while a thread is between counting and signalling.
EventTracks ==
    /\ csReadCount = NoThread => (writeAvailable <=> numReaders = 0)
    /\ \A t \in Threads :
          /\ pc[t] = "sr_reset" => (writeAvailable <=> numReaders = 1)
          /\ pc[t] = "er_set" => ~writeAvailable

\* Every counted frame belongs to the thread that holds a writer guard.
WriterAlone ==
    \A t, u \in Threads : Holds(t, "W") /\ t # u => ReadFrames(u) = {}

IInv ==
    /\ TypeOK
    /\ ReadersCounted
    /\ WriteOwned
    /\ CountOwned
    /\ EventTracks
    /\ WriterAlone

\* A thread waits for something that is not free.
Blocked(t) ==
    \/ pc[t] \in {"sr_write", "sw_lock"} /\ ~WriteFree(t)
    \/ pc[t] \in {"sr_count", "er_count"} /\ csReadCount # NoThread
    \/ pc[t] = "sw_wait" /\ ~writeAvailable

\* t asks for a guard inside a reader guard of its own.
AsksInsideReader(t) ==
    Holds(t, "R") /\ pc[t] \in {"sr_write", "sr_count", "sr_reset", "sw_lock", "sw_wait"}

\* The threads can all be blocked only when one of them waits as a writer and
\* one of them asked for a guard inside a reader guard of its own: with the
\* nestings of the locators other than CopyClassDef's nobody is stuck.
StuckOnlyInsideReader ==
    (\A t \in Threads : Blocked(t)) =>
        /\ \E t \in Threads : pc[t] = "sw_wait"
        /\ \E t \in Threads : AsksInsideReader(t)

\* A writer that got csWrite is let in, unless a thread asks for a guard
\* inside its own reader guard: the readers inside drain, and no new one
\* passes the writer.
WriterGetsIn ==
    \A t \in Threads :
        pc[t] = "sw_wait" ~> (Holds(t, "W") \/ \E u \in Threads : AsksInsideReader(u))

\* What the lock promises.
Promise == INSTANCE ReadersWriters
Implements == Promise!Spec
=============================================================================
