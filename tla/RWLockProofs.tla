---------------------------- MODULE RWLockProofs ----------------------------
(***************************************************************************)
(* Theorems about RWLock for any set of threads, any nesting depth and any *)
(* nesting discipline.                                                     *)
(***************************************************************************)
EXTENDS RWLock, FiniteSetTheorems, SequenceTheorems, TLAPS

(* What pushing and popping a guard does to a thread's frames. *)

\* Appending a guard keeps the positions below it.
LEMMA PushGuard ==
    ASSUME NEW s \in Seq({"R", "W"}), NEW m \in {"R", "W"}
    PROVE  /\ Append(s, m) \in Seq({"R", "W"})
           /\ Len(Append(s, m)) = Len(s) + 1
           /\ DOMAIN Append(s, m) = 1 .. (Len(s) + 1)
           /\ \A i \in 1 .. Len(s) : Append(s, m)[i] = s[i]
           /\ Append(s, m)[Len(s) + 1] = m
<1>1. Append(s, m) \in Seq({"R", "W"}) /\ Len(s) \in Nat
  OBVIOUS
<1>2. QED  BY <1>1

\* Dropping the newest guard keeps the positions below it.
LEMMA PopGuard ==
    ASSUME NEW s \in Seq({"R", "W"}), s # <<>>,
           NEW p, p = SubSeq(s, 1, Len(s) - 1)
    PROVE  /\ p \in Seq({"R", "W"})
           /\ Len(s) \in Nat \ {0}
           /\ Len(p) = Len(s) - 1
           /\ DOMAIN p = 1 .. (Len(s) - 1)
           /\ \A i \in 1 .. (Len(s) - 1) : p[i] = s[i]
<1>1. Len(s) \in Nat \ {0}
  BY EmptySeq
<1>2. \A i \in 1 .. (Len(s) - 1) : s[i] \in {"R", "W"}
  BY <1>1, ElementOfSeq
<1>3. /\ p \in Seq({"R", "W"})
      /\ Len(p) = IF 1 <= Len(s) - 1 THEN (Len(s) - 1) - 1 + 1 ELSE 0
      /\ \A i \in 1 .. ((Len(s) - 1) - 1 + 1) : p[i] = s[1 + i - 1]
  <2>1. 1 \in Int /\ Len(s) - 1 \in Int
    BY <1>1
  <2>2. QED  BY <1>2, <2>1, SubSeqProperties
<1>4. Len(p) = Len(s) - 1
  <2>1. ASSUME NEW n \in Nat \ {0}
        PROVE  (IF 1 <= n - 1 THEN (n - 1) - 1 + 1 ELSE 0) = n - 1
    OBVIOUS
  <2>2. QED  BY <1>1, <1>3, <2>1, Zenon
<1>5. DOMAIN p = 1 .. (Len(s) - 1)
  BY <1>3, <1>4, LenProperties
<1>6. \A i \in 1 .. (Len(s) - 1) : p[i] = s[i]
  <2>1. \A i \in 1 .. (Len(s) - 1) : i \in 1 .. ((Len(s) - 1) - 1 + 1) /\ 1 + i - 1 = i
    BY <1>1
  <2>2. QED  BY <1>3, <2>1
<1>7. QED  BY <1>1, <1>3, <1>4, <1>5, <1>6

-----------------------------------------------------------------------------
(* Type correctness *)

\* The initial state has the types.
LEMMA InitTypeOK == Init => TypeOK
<1>1. \A t \in Threads : [u \in Threads |-> <<>>][t] \in Seq({"R", "W"})
  BY EmptySeq
<1>2. QED  BY <1>1 DEF Init, TypeOK, Locations

\* A step of one thread keeps the types.
LEMMA NextTypeOK ==
    ASSUME TypeOK, NEW t \in Threads, Request(t) \/ Run(t)
    PROVE  TypeOK'
<1> USE DEF TypeOK, Locations, Goto
<1>h. held[t] \in Seq({"R", "W"})
  OBVIOUS
<1>w. UnlockWrite => csWrite' \in [owner : Threads \cup {NoThread}, count : Int]
  <2>1. [owner |-> NoThread, count |-> 0] \in [owner : Threads \cup {NoThread}, count : Int]
    OBVIOUS
  <2>2. [csWrite EXCEPT !.count = @ - 1] \in [owner : Threads \cup {NoThread}, count : Int]
    OBVIOUS
  <2>3. QED  BY <2>1, <2>2 DEF UnlockWrite
<1>1. CASE StartReader(t)       BY <1>1 DEF StartReader, MayRequest
<1>2. CASE StartWriter(t)       BY <1>2 DEF StartWriter, MayRequest
<1>3. CASE StartReaderWrite(t)  BY <1>3 DEF StartReaderWrite, LockWrite, WriteFree
<1>4. CASE StartReaderCount(t)  BY <1>4 DEF StartReaderCount
<1>5. CASE StartReaderReturn(t)
  <2>1. Append(held[t], "R") \in Seq({"R", "W"})
    BY <1>h, PushGuard
  <2>2. QED  BY <2>1, <1>w, <1>5 DEF StartReaderReturn
<1>6. CASE EndReader(t)
  <2>1. SubSeq(held[t], 1, Len(held[t]) - 1) \in Seq({"R", "W"})
    BY <1>h, <1>6, PopGuard DEF EndReader
  <2>2. QED  BY <2>1, <1>6 DEF EndReader
<1>7. CASE EndReaderCount(t)    BY <1>7 DEF EndReaderCount
<1>8. CASE EndReaderReturn(t)   BY <1>8 DEF EndReaderReturn
<1>9. CASE StartWriterLock(t)   BY <1>9 DEF StartWriterLock, LockWrite, WriteFree
<1>10. CASE StartWriterReturn(t)
  <2>1. Append(held[t], "W") \in Seq({"R", "W"})
    BY <1>h, PushGuard
  <2>2. QED  BY <2>1, <1>10 DEF StartWriterReturn
<1>11. CASE EndWriter(t)
  <2>1. SubSeq(held[t], 1, Len(held[t]) - 1) \in Seq({"R", "W"})
    BY <1>h, <1>11, PopGuard DEF EndWriter
  <2>2. QED  BY <2>1, <1>w, <1>11 DEF EndWriter
<1>12. QED
  BY <1>1, <1>2, <1>3, <1>4, <1>5, <1>6, <1>7, <1>8, <1>9, <1>10, <1>11
  DEF Request, Run

-----------------------------------------------------------------------------
(* How a step changes the frames *)

\* Only the stepping thread's guards and location change.
LEMMA OthersKeepFrames ==
    ASSUME TypeOK, NEW t \in Threads, Request(t) \/ Run(t),
           NEW u \in Threads, u # t
    PROVE  /\ held'[u] = held[u]
           /\ pc'[u] = pc[u]
           /\ ReadFrames(u)' = ReadFrames(u)
           /\ WriteFrames(u)' = WriteFrames(u)
<1>1. held'[u] = held[u] /\ pc'[u] = pc[u]
  BY DEF Request, Run, TypeOK, Goto, StartReader, StartReaderWrite,
         StartReaderCount, StartReaderReturn, EndReader, EndReaderCount,
         EndReaderReturn, StartWriter, StartWriterLock, StartWriterReturn, EndWriter
<1>2. QED  BY <1>1 DEF ReadFrames, WriteFrames

\* A thread's guards as they are after a push and after a pop.
LEMMA Pushed ==
    ASSUME TypeOK, NEW t \in Threads, NEW m \in {"R", "W"},
           held' = [held EXCEPT ![t] = Append(@, m)]
    PROVE  /\ Len(held[t]) \in Nat
           /\ Len(held'[t]) = Len(held[t]) + 1
           /\ \A i \in 1 .. Len(held[t]) : held'[t][i] = held[t][i]
           /\ held'[t][Len(held[t]) + 1] = m
<1>1. held[t] \in Seq({"R", "W"}) /\ held'[t] = Append(held[t], m)
  BY DEF TypeOK
<1>2. QED  BY <1>1, PushGuard, LenProperties

\* The guards of a thread after a scope has ended.
LEMMA Popped ==
    ASSUME TypeOK, NEW t \in Threads, held[t] # <<>>,
           held' = [held EXCEPT ![t] = SubSeq(@, 1, Len(@) - 1)]
    PROVE  /\ Len(held[t]) \in Nat \ {0}
           /\ Len(held'[t]) = Len(held[t]) - 1
           /\ \A i \in 1 .. (Len(held[t]) - 1) : held'[t][i] = held[t][i]
<1>1. held[t] \in Seq({"R", "W"})
  BY DEF TypeOK
<1>2. held'[t] = SubSeq(held[t], 1, Len(held[t]) - 1)
  BY DEF TypeOK
<1>3. QED  BY <1>1, <1>2, PopGuard

\* numReaders++ adds the frame under construction to the counted ones,
\* numReaders-- removes the one under destruction, nothing else counts.
LEMMA ReadFramesStep ==
    ASSUME TypeOK, NEW t \in Threads, Request(t) \/ Run(t)
    PROVE  /\ StartReaderCount(t) =>
                 /\ ReadFrames(t)' = ReadFrames(t) \cup {Len(held[t]) + 1}
                 /\ Len(held[t]) + 1 \notin ReadFrames(t)
           /\ EndReaderCount(t) =>
                 /\ ReadFrames(t)' = ReadFrames(t) \ {Len(held[t]) + 1}
                 /\ Len(held[t]) + 1 \in ReadFrames(t)
           /\ ~StartReaderCount(t) /\ ~EndReaderCount(t) =>
                 ReadFrames(t)' = ReadFrames(t)
<1>len. Len(held[t]) \in Nat
  <2>1. held[t] \in Seq({"R", "W"})
    BY DEF TypeOK
  <2>2. QED  BY <2>1, LenProperties
<1> USE <1>len DEF ReadFrames, TypeOK, Goto
<1>1. CASE StartReader(t)
  BY <1>1 DEF StartReader, MayRequest, StartReaderCount, EndReaderCount
<1>2. CASE StartWriter(t)
  BY <1>2 DEF StartWriter, MayRequest, StartReaderCount, EndReaderCount
<1>3. CASE StartReaderWrite(t)
  BY <1>3 DEF StartReaderWrite, StartReaderCount, EndReaderCount
<1>4. CASE StartReaderCount(t)
  BY <1>4 DEF StartReaderCount, EndReaderCount
<1>5. CASE StartReaderReturn(t)
  <2>1. /\ Len(held'[t]) = Len(held[t]) + 1
        /\ \A i \in 1 .. Len(held[t]) : held'[t][i] = held[t][i]
        /\ held'[t][Len(held[t]) + 1] = "R"
    BY <1>5, Pushed DEF StartReaderReturn
  <2>2. pc[t] = "sr_reset" /\ pc'[t] = "run"
    BY <1>5 DEF StartReaderReturn
  <2>3. QED  BY <2>1, <2>2 DEF StartReaderCount, EndReaderCount
<1>6. CASE EndReader(t)
  <2>1. /\ Len(held[t]) \in Nat \ {0}
        /\ Len(held'[t]) = Len(held[t]) - 1
        /\ \A i \in 1 .. (Len(held[t]) - 1) : held'[t][i] = held[t][i]
    BY <1>6, Popped DEF EndReader
  <2>2. pc[t] = "run" /\ pc'[t] = "er_count" /\ held[t][Len(held[t])] = "R"
    BY <1>6 DEF EndReader, Innermost
  <2>3. QED  BY <2>1, <2>2 DEF StartReaderCount, EndReaderCount
<1>7. CASE EndReaderCount(t)
  BY <1>7 DEF StartReaderCount, EndReaderCount
<1>8. CASE EndReaderReturn(t)
  BY <1>8 DEF EndReaderReturn, StartReaderCount, EndReaderCount
<1>9. CASE StartWriterLock(t)
  BY <1>9 DEF StartWriterLock, StartReaderCount, EndReaderCount
<1>10. CASE StartWriterReturn(t)
  <2>1. /\ Len(held'[t]) = Len(held[t]) + 1
        /\ \A i \in 1 .. Len(held[t]) : held'[t][i] = held[t][i]
        /\ held'[t][Len(held[t]) + 1] = "W"
    BY <1>10, Pushed DEF StartWriterReturn
  <2>2. pc[t] = "sw_wait" /\ pc'[t] = "run"
    BY <1>10 DEF StartWriterReturn
  <2>3. QED  BY <2>1, <2>2 DEF StartReaderCount, EndReaderCount
<1>11. CASE EndWriter(t)
  <2>1. /\ Len(held[t]) \in Nat \ {0}
        /\ Len(held'[t]) = Len(held[t]) - 1
        /\ \A i \in 1 .. (Len(held[t]) - 1) : held'[t][i] = held[t][i]
    BY <1>11, Popped DEF EndWriter
  <2>2. pc[t] = "run" /\ pc'[t] = "run" /\ held[t][Len(held[t])] = "W"
    BY <1>11 DEF EndWriter, Innermost
  <2>3. QED  BY <2>1, <2>2 DEF StartReaderCount, EndReaderCount
<1>12. QED
  BY <1>1, <1>2, <1>3, <1>4, <1>5, <1>6, <1>7, <1>8, <1>9, <1>10, <1>11
  DEF Request, Run

\* Locking csWrite adds the thread's newest frame to those that hold it;
\* unlocking it removes the newest one.
LEMMA WriteFramesStep ==
    ASSUME TypeOK, NEW t \in Threads, Request(t) \/ Run(t)
    PROVE  /\ StartReaderWrite(t) \/ StartWriterLock(t) =>
                 /\ WriteFrames(t)' = WriteFrames(t) \cup {Len(held[t]) + 1}
                 /\ Len(held[t]) + 1 \notin WriteFrames(t)
           /\ StartReaderReturn(t) =>
                 /\ WriteFrames(t)' = WriteFrames(t) \ {Len(held[t]) + 1}
                 /\ Len(held[t]) + 1 \in WriteFrames(t)
           /\ EndWriter(t) =>
                 /\ WriteFrames(t)' = WriteFrames(t) \ {Len(held[t])}
                 /\ Len(held[t]) \in WriteFrames(t)
           /\ ~StartReaderWrite(t) /\ ~StartWriterLock(t)
              /\ ~StartReaderReturn(t) /\ ~EndWriter(t) =>
                 WriteFrames(t)' = WriteFrames(t)
<1>len. Len(held[t]) \in Nat
  <2>1. held[t] \in Seq({"R", "W"})
    BY DEF TypeOK
  <2>2. QED  BY <2>1, LenProperties
<1> USE <1>len DEF WriteFrames, TypeOK, Goto
<1>1. CASE StartReader(t)
  BY <1>1 DEF StartReader, MayRequest, StartReaderWrite, StartWriterLock,
     StartReaderReturn, EndWriter, Innermost
<1>2. CASE StartWriter(t)
  BY <1>2 DEF StartWriter, MayRequest, StartReaderWrite, StartWriterLock,
     StartReaderReturn, EndWriter
<1>3. CASE StartReaderWrite(t)
  BY <1>3 DEF StartReaderWrite, StartReaderReturn, EndWriter
<1>4. CASE StartReaderCount(t)
  BY <1>4 DEF StartReaderCount, StartReaderWrite, StartWriterLock,
     StartReaderReturn, EndWriter
<1>5. CASE StartReaderReturn(t)
  <2>1. /\ Len(held'[t]) = Len(held[t]) + 1
        /\ \A i \in 1 .. Len(held[t]) : held'[t][i] = held[t][i]
        /\ held'[t][Len(held[t]) + 1] = "R"
    BY <1>5, Pushed DEF StartReaderReturn
  <2>2. pc[t] = "sr_reset" /\ pc'[t] = "run"
    BY <1>5 DEF StartReaderReturn
  <2>3. WriteFrames(t)' = WriteFrames(t) \ {Len(held[t]) + 1}
    BY <2>1, <2>2
  <2>4. Len(held[t]) + 1 \in WriteFrames(t)
    BY <2>2
  <2>5. ~StartReaderWrite(t) /\ ~StartWriterLock(t) /\ ~EndWriter(t)
    BY <2>2 DEF StartReaderWrite, StartWriterLock, EndWriter
  <2>6. QED  BY <1>5, <2>3, <2>4, <2>5
<1>6. CASE EndReader(t)
  <2>1. /\ Len(held[t]) \in Nat \ {0}
        /\ Len(held'[t]) = Len(held[t]) - 1
        /\ \A i \in 1 .. (Len(held[t]) - 1) : held'[t][i] = held[t][i]
    BY <1>6, Popped DEF EndReader
  <2>2. pc[t] = "run" /\ pc'[t] = "er_count" /\ held[t][Len(held[t])] = "R"
    BY <1>6 DEF EndReader, Innermost
  <2>3. QED
    BY <2>1, <2>2 DEF StartReaderWrite, StartWriterLock, StartReaderReturn,
       EndWriter, Innermost
<1>7. CASE EndReaderCount(t)
  BY <1>7 DEF EndReaderCount, StartReaderWrite, StartWriterLock,
     StartReaderReturn, EndWriter
<1>8. CASE EndReaderReturn(t)
  BY <1>8 DEF EndReaderReturn, StartReaderWrite, StartWriterLock,
     StartReaderReturn, EndWriter
<1>9. CASE StartWriterLock(t)
  BY <1>9 DEF StartWriterLock, StartReaderReturn, EndWriter
<1>10. CASE StartWriterReturn(t)
  <2>1. /\ Len(held'[t]) = Len(held[t]) + 1
        /\ \A i \in 1 .. Len(held[t]) : held'[t][i] = held[t][i]
        /\ held'[t][Len(held[t]) + 1] = "W"
    BY <1>10, Pushed DEF StartWriterReturn
  <2>2. pc[t] = "sw_wait" /\ pc'[t] = "run"
    BY <1>10 DEF StartWriterReturn
  <2>3. WriteFrames(t)' = WriteFrames(t)
    BY <2>1, <2>2
  <2>4. /\ ~StartReaderWrite(t) /\ ~StartWriterLock(t)
        /\ ~StartReaderReturn(t) /\ ~EndWriter(t)
    BY <2>2 DEF StartReaderWrite, StartWriterLock, StartReaderReturn, EndWriter
  <2>5. QED  BY <2>3, <2>4
<1>11. CASE EndWriter(t)
  <2>1. /\ Len(held[t]) \in Nat \ {0}
        /\ Len(held'[t]) = Len(held[t]) - 1
        /\ \A i \in 1 .. (Len(held[t]) - 1) : held'[t][i] = held[t][i]
    BY <1>11, Popped DEF EndWriter
  <2>2. pc[t] = "run" /\ pc'[t] = "run" /\ held[t][Len(held[t])] = "W"
    BY <1>11 DEF EndWriter, Innermost
  <2>3. WriteFrames(t)' = WriteFrames(t) \ {Len(held[t])}
    <3>1. \A i : i \in WriteFrames(t)' <=>
                   i \in 1 .. (Len(held[t]) - 1) /\ held[t][i] = "W"
      <4>1. ASSUME NEW i \in Int
            PROVE  i \in WriteFrames(t)' <=>
                     i \in 1 .. (Len(held[t]) - 1) /\ held[t][i] = "W"
        <5>1. CASE i \in 1 .. (Len(held[t]) - 1)
          BY <5>1, <2>1
        <5>2. CASE i \notin 1 .. (Len(held[t]) - 1)
          BY <5>2, <2>1, <2>2
        <5>3. QED  BY <5>1, <5>2
      <4>2. \A i : i \in WriteFrames(t)' => i \in Int
        BY <2>1
      <4>3. QED  BY <4>1, <4>2
    <3>2. \A i : i \in WriteFrames(t) /\ i # Len(held[t]) <=>
                   i \in 1 .. (Len(held[t]) - 1) /\ held[t][i] = "W"
      BY <2>1, <2>2
    <3> HIDE DEF WriteFrames
    <3>3. QED  BY <3>1, <3>2
  <2>4. Len(held[t]) \in WriteFrames(t)
    BY <2>1, <2>2
  <2>5. ~StartReaderWrite(t) /\ ~StartWriterLock(t) /\ ~StartReaderReturn(t)
    BY <2>2 DEF StartReaderWrite, StartWriterLock, StartReaderReturn
  <2>6. QED  BY <1>11, <2>3, <2>4, <2>5
<1>12. QED
  BY <1>1, <1>2, <1>3, <1>4, <1>5, <1>6, <1>7, <1>8, <1>9, <1>10, <1>11
  DEF Request, Run

\* A frame is counted when it is a read frame of its thread.
LEMMA CountedFramesMember ==
    ASSUME NEW u \in Threads, NEW i
    PROVE  <<u, i>> \in CountedFrames <=> i \in ReadFrames(u)
BY DEF CountedFrames

-----------------------------------------------------------------------------
(* The inductive invariant *)

\* The initial state satisfies every conjunct.
LEMMA InitIInv == Init => IInv
<1> SUFFICES ASSUME Init PROVE IInv
  OBVIOUS
<1>1. TypeOK
  BY InitTypeOK
<1>2. \A t \in Threads : /\ held[t] = <<>>
                         /\ pc[t] = "run"
                         /\ ReadFrames(t) = {}
                         /\ WriteFrames(t) = {}
  BY EmptySeq DEF Init, ReadFrames, WriteFrames
<1>3. CountedFrames = {}
  BY <1>2 DEF CountedFrames
<1>4. ReadersCounted
  BY <1>3, FS_EmptySet DEF ReadersCounted, Init
<1>5. WriteOwned
  BY <1>2, RWLockAssumption DEF WriteOwned, Init
<1>6. CountOwned
  BY <1>2, RWLockAssumption DEF CountOwned, Init
<1>7. EventTracks
  BY <1>2 DEF EventTracks, Init
<1>8. WriterAlone
  BY <1>2 DEF WriterAlone
<1>9. QED  BY <1>1, <1>4, <1>5, <1>6, <1>7, <1>8 DEF IInv

\* numReaders stays the number of counted frames.
LEMMA ReadersCountedStep ==
    ASSUME TypeOK, ReadersCounted, NEW t \in Threads, Request(t) \/ Run(t)
    PROVE  ReadersCounted'
<1> DEFINE f == <<t, Len(held[t]) + 1>>
<1>m. \A x : x \in CountedFrames <=> \E u \in Threads : \E i \in ReadFrames(u) : x = <<u, i>>
  BY DEF CountedFrames
<1>n. \A x : x \in CountedFrames' <=> \E u \in Threads : \E i \in ReadFrames(u)' : x = <<u, i>>
  BY DEF CountedFrames
<1>o. \A u \in Threads : u # t => ReadFrames(u)' = ReadFrames(u)
  BY OthersKeepFrames
<1>1. CASE StartReaderCount(t)
  <2>1. /\ ReadFrames(t)' = ReadFrames(t) \cup {Len(held[t]) + 1}
        /\ Len(held[t]) + 1 \notin ReadFrames(t)
    BY <1>1, ReadFramesStep
  <2>2. CountedFrames' = CountedFrames \cup {f} /\ f \notin CountedFrames
    BY <2>1, <1>m, <1>n, <1>o
  <2>3. numReaders' = numReaders + 1
    BY <1>1 DEF StartReaderCount
  <2>4. QED  BY <2>2, <2>3, FS_AddElement DEF ReadersCounted
<1>2. CASE EndReaderCount(t)
  <2>1. /\ ReadFrames(t)' = ReadFrames(t) \ {Len(held[t]) + 1}
        /\ Len(held[t]) + 1 \in ReadFrames(t)
    BY <1>2, ReadFramesStep
  <2>2. CountedFrames' = CountedFrames \ {f} /\ f \in CountedFrames
    BY <2>1, <1>m, <1>n, <1>o
  <2>3. numReaders' = numReaders - 1
    BY <1>2 DEF EndReaderCount
  <2>4. QED  BY <2>2, <2>3, FS_RemoveElement DEF ReadersCounted
<1>3. CASE ~StartReaderCount(t) /\ ~EndReaderCount(t)
  <2>1. ReadFrames(t)' = ReadFrames(t)
    BY <1>3, ReadFramesStep
  <2>2. CountedFrames' = CountedFrames
    BY <2>1, <1>m, <1>n, <1>o
  <2>3. numReaders' = numReaders
    BY <1>3 DEF Request, Run, StartReader, StartReaderWrite, StartReaderReturn,
       EndReader, EndReaderReturn, StartWriter, StartWriterLock,
       StartWriterReturn, EndWriter
  <2>4. QED  BY <2>2, <2>3 DEF ReadersCounted
<1>4. QED  BY <1>1, <1>2, <1>3

\* csWrite stays held by exactly the frames of one thread.
LEMMA WriteOwnedStep ==
    ASSUME TypeOK, WriteOwned, NEW t \in Threads, Request(t) \/ Run(t)
    PROVE  WriteOwned'
<1>o. \A u \in Threads : u # t => WriteFrames(u)' = WriteFrames(u)
  BY OthersKeepFrames
<1>t. /\ NoThread \notin Threads
      /\ csWrite = [owner |-> csWrite.owner, count |-> csWrite.count]
      /\ csWrite.count \in Int
  BY RWLockAssumption DEF TypeOK
<1>1. CASE StartReaderWrite(t) \/ StartWriterLock(t)
  <2>1. /\ WriteFrames(t)' = WriteFrames(t) \cup {Len(held[t]) + 1}
        /\ Len(held[t]) + 1 \notin WriteFrames(t)
    BY <1>1, WriteFramesStep
  <2>2. /\ csWrite.owner = t \/ csWrite.owner = NoThread
        /\ csWrite'.owner = t
        /\ csWrite'.count = csWrite.count + 1
    BY <1>1, <1>t DEF StartReaderWrite, StartWriterLock, LockWrite, WriteFree
  <2>3. IsFiniteSet(WriteFrames(t)) /\ csWrite.count = Cardinality(WriteFrames(t))
    BY <2>2, <1>t, FS_EmptySet DEF WriteOwned
  <2>4. /\ IsFiniteSet(WriteFrames(t)')
        /\ csWrite'.count = Cardinality(WriteFrames(t)')
        /\ csWrite'.count > 0
    <3>1. /\ IsFiniteSet(WriteFrames(t) \cup {Len(held[t]) + 1})
          /\ Cardinality(WriteFrames(t) \cup {Len(held[t]) + 1}) =
                 Cardinality(WriteFrames(t)) + 1
      BY <2>1, <2>3, FS_AddElement
    <3>2. Cardinality(WriteFrames(t)) \in Nat
      BY <2>3, FS_CardinalityType
    <3>3. QED  BY <3>1, <3>2, <2>1, <2>2, <2>3
  <2>5. \A u \in Threads : u # t => WriteFrames(u)' = {}
    BY <1>o, <1>t, <2>2 DEF WriteOwned
  <2>6. QED  BY <2>2, <2>4, <2>5, <1>t DEF WriteOwned
<1>2. ASSUME NEW i, WriteFrames(t)' = WriteFrames(t) \ {i},
             i \in WriteFrames(t), UnlockWrite
      PROVE  WriteOwned'
  <2>1. csWrite.owner = t
    BY <1>2 DEF WriteOwned
  <2>2. /\ IsFiniteSet(WriteFrames(t)')
        /\ Cardinality(WriteFrames(t)') = csWrite.count - 1
    BY <1>2, <2>1, FS_RemoveElement DEF WriteOwned
  <2>3. \A u \in Threads : u # t => WriteFrames(u)' = {}
    BY <1>o, <2>1 DEF WriteOwned
  <2>4. CASE csWrite.count = 1
    <3>1. WriteFrames(t)' = {}
      BY <2>2, <2>4, FS_EmptySet
    <3>2. csWrite'.owner = NoThread /\ csWrite'.count = 0
      BY <1>2, <2>4 DEF UnlockWrite
    <3>3. QED  BY <3>1, <3>2, <2>3, <1>t DEF WriteOwned
  <2>5. CASE csWrite.count # 1
    <3>1. csWrite' = [csWrite EXCEPT !.count = @ - 1]
      BY <1>2, <2>5 DEF UnlockWrite
    <3>2. csWrite'.owner = t /\ csWrite'.count = csWrite.count - 1
      BY <3>1, <1>t, <2>1
    <3>3. csWrite'.count > 0
      BY <3>2, <2>1, <2>5, <1>t DEF WriteOwned
    <3>4. QED  BY <3>2, <3>3, <2>2, <2>3, <1>t DEF WriteOwned
  <2>6. QED  BY <2>4, <2>5
<1>3. CASE StartReaderReturn(t)
  BY <1>3, <1>2, WriteFramesStep DEF StartReaderReturn
<1>4. CASE EndWriter(t)
  BY <1>4, <1>2, WriteFramesStep DEF EndWriter
<1>5. CASE /\ ~StartReaderWrite(t) /\ ~StartWriterLock(t)
           /\ ~StartReaderReturn(t) /\ ~EndWriter(t)
  <2>1. WriteFrames(t)' = WriteFrames(t)
    BY <1>5, WriteFramesStep
  <2>2. csWrite' = csWrite
    BY <1>5 DEF Request, Run, StartReader, StartReaderCount, EndReader,
       EndReaderCount, EndReaderReturn, StartWriter, StartWriterReturn
  <2>3. \A u \in Threads : WriteFrames(u)' = WriteFrames(u)
    BY <1>o, <2>1
  <2>4. QED  BY <2>2, <2>3 DEF WriteOwned
<1>6. QED  BY <1>1, <1>3, <1>4, <1>5

\* The count is zero exactly when nobody has a counted frame.
LEMMA NoReaders ==
    ASSUME ReadersCounted
    PROVE  /\ numReaders \in Nat
           /\ numReaders = 0 <=> \A u \in Threads : ReadFrames(u) = {}
<1>1. numReaders \in Nat /\ (numReaders = 0 <=> CountedFrames = {})
  BY FS_EmptySet, FS_CardinalityType DEF ReadersCounted
<1>m. \A x : x \in CountedFrames <=> \E u \in Threads : \E i \in ReadFrames(u) : x = <<u, i>>
  BY DEF CountedFrames
<1>2. ASSUME CountedFrames = {}, NEW u \in Threads
      PROVE  ReadFrames(u) = {}
  <2>1. ASSUME NEW i \in ReadFrames(u) PROVE FALSE
    <3>1. <<u, i>> \in CountedFrames
      BY <1>m
    <3>2. QED  BY <3>1, <1>2
  <2>2. QED  BY <2>1
<1>3. ASSUME \A u \in Threads : ReadFrames(u) = {}
      PROVE  CountedFrames = {}
  BY <1>3, <1>m
<1>4. QED  BY <1>1, <1>2, <1>3

\* The thread that resets the event is counted already.
LEMMA ReadFramesInside ==
    ASSUME TypeOK, NEW t \in Threads, StartReaderReturn(t)
    PROVE  Len(held[t]) + 1 \in ReadFrames(t)
<1>1. held[t] \in Seq({"R", "W"})
  BY DEF TypeOK
<1>2. Len(held[t]) \in Nat
  BY <1>1, LenProperties
<1>3. QED  BY <1>2 DEF ReadFrames, StartReaderReturn

\* csReadCount stays held by the thread between counting and signalling, and
\* the event keeps following the count.
LEMMA CountSectionStep ==
    ASSUME TypeOK, ReadersCounted, CountOwned, EventTracks,
           NEW t \in Threads, Request(t) \/ Run(t)
    PROVE  CountOwned' /\ EventTracks'
<1> USE RWLockAssumption DEF TypeOK, CountOwned, EventTracks, Goto, Locations
<1>1. CASE StartReader(t)       BY <1>1 DEF StartReader, MayRequest
<1>2. CASE StartWriter(t)       BY <1>2 DEF StartWriter, MayRequest
<1>3. CASE StartReaderWrite(t)  BY <1>3 DEF StartReaderWrite
<1>4. CASE StartReaderCount(t)
  <2>1. /\ csReadCount = NoThread /\ csReadCount' = t
        /\ numReaders \in Nat /\ numReaders' = numReaders + 1
        /\ writeAvailable' = writeAvailable
        /\ pc' = [pc EXCEPT ![t] = "sr_reset"]
    BY <1>4, NoReaders DEF StartReaderCount
  <2>2. writeAvailable' <=> numReaders' = 1
    BY <2>1
  <2>3. CountOwned'
    BY <2>1
  <2>4. EventTracks'
    BY <2>1, <2>2
  <2>5. QED  BY <2>3, <2>4
<1>5. CASE StartReaderReturn(t)
  <2>1. /\ pc[t] = "sr_reset"
        /\ csReadCount' = NoThread
        /\ writeAvailable' = (writeAvailable /\ numReaders # 1)
        /\ numReaders' = numReaders
        /\ pc' = [pc EXCEPT ![t] = "run"]
    BY <1>5 DEF StartReaderReturn
  <2>2. csReadCount = t
    BY <2>1
  <2>3. numReaders # 0
    BY <1>5, NoReaders, ReadFramesInside
  <2>4. CountOwned'
    BY <2>1, <2>2
  <2>5. \A u \in Threads : pc'[u] \notin {"sr_reset", "er_set"}
    BY <2>1, <2>4
  <2>6. writeAvailable' = FALSE
    BY <2>1
  <2>7. EventTracks'
    BY <2>1, <2>3, <2>5, <2>6
  <2>8. QED  BY <2>4, <2>7
<1>6. CASE EndReader(t)         BY <1>6 DEF EndReader
<1>7. CASE EndReaderCount(t)
  <2>1. /\ csReadCount = NoThread /\ csReadCount' = t
        /\ writeAvailable' = writeAvailable
        /\ pc' = [pc EXCEPT ![t] = "er_set"]
    BY <1>7 DEF EndReaderCount
  <2>2. ReadFrames(t) # {}
    BY <1>7, ReadFramesStep
  <2>3. ~writeAvailable
    BY <2>1, <2>2, NoReaders
  <2>4. CountOwned'
    BY <2>1
  <2>5. EventTracks'
    BY <2>1, <2>3
  <2>6. QED  BY <2>4, <2>5
<1>8. CASE EndReaderReturn(t)
  <2>1. /\ pc[t] = "er_set"
        /\ csReadCount' = NoThread
        /\ writeAvailable' = (writeAvailable \/ numReaders = 0)
        /\ numReaders' = numReaders
        /\ pc' = [pc EXCEPT ![t] = "run"]
    BY <1>8 DEF EndReaderReturn
  <2>2. csReadCount = t /\ writeAvailable = FALSE
    BY <2>1
  <2>3. CountOwned'
    BY <2>1, <2>2
  <2>4. \A u \in Threads : pc'[u] \notin {"sr_reset", "er_set"}
    BY <2>1, <2>3
  <2>5. writeAvailable' <=> numReaders' = 0
    BY <2>1, <2>2
  <2>6. EventTracks'
    BY <2>1, <2>4, <2>5
  <2>7. QED  BY <2>3, <2>6
<1>9. CASE StartWriterLock(t)   BY <1>9 DEF StartWriterLock
<1>10. CASE StartWriterReturn(t) BY <1>10 DEF StartWriterReturn
<1>11. CASE EndWriter(t)        BY <1>11 DEF EndWriter
<1>12. QED
  BY <1>1, <1>2, <1>3, <1>4, <1>5, <1>6, <1>7, <1>8, <1>9, <1>10, <1>11
  DEF Request, Run

\* A thread with a frame in csWrite is its owner.
LEMMA OwnsWrite ==
    ASSUME WriteOwned, NEW t \in Threads, NEW u \in Threads,
           WriteFrames(t) # {}, WriteFrames(u) # {}
    PROVE  t = u
BY DEF WriteOwned

\* A guard is a frame.
LEMMA GuardsAreFrames ==
    ASSUME TypeOK, NEW t \in Threads
    PROVE  /\ Holds(t, "R") => ReadFrames(t) # {}
           /\ Holds(t, "W") => WriteFrames(t) # {}
<1>1. held[t] \in Seq({"R", "W"})
  BY DEF TypeOK
<1>2. Len(held[t]) \in Nat /\ DOMAIN held[t] = 1 .. Len(held[t])
  BY <1>1, LenProperties
<1>3. QED  BY <1>2 DEF Holds, ReadFrames, WriteFrames

\* A thread inside StartReader or StartWriter holds csWrite there.
LEMMA InsideFrames ==
    ASSUME TypeOK, NEW t \in Threads,
           pc[t] \in {"sr_count", "sr_reset", "sw_wait"}
    PROVE  WriteFrames(t) # {}
<1>1. held[t] \in Seq({"R", "W"})
  BY DEF TypeOK
<1>2. Len(held[t]) \in Nat
  BY <1>1, LenProperties
<1>3. Len(held[t]) + 1 \in WriteFrames(t)
  BY <1>2 DEF WriteFrames
<1>4. QED  BY <1>3

\* When a writer's wait ends, nobody is counted.
LEMMA WaitEnds ==
    ASSUME IInv, NEW t \in Threads, pc[t] = "sw_wait", writeAvailable
    PROVE  numReaders = 0
<1> USE DEF IInv
<1>1. CASE csReadCount = NoThread
  BY <1>1 DEF EventTracks
<1>2. CASE csReadCount # NoThread
  <2>1. PICK u \in Threads : csReadCount = u
    BY <1>2 DEF TypeOK
  <2>2. pc[u] \in {"sr_reset", "er_set"}
    BY <2>1 DEF CountOwned
  <2>3. pc[u] = "sr_reset"
    BY <2>2 DEF EventTracks
  <2>4. u = t
    BY <2>3, InsideFrames, OwnsWrite
  <2>5. QED  BY <2>3, <2>4
<1>3. QED  BY <1>1, <1>2

\* Whoever holds a writer guard stays the only one with counted frames.
LEMMA WriterAloneStep ==
    ASSUME IInv, NEW t \in Threads, Request(t) \/ Run(t)
    PROVE  WriterAlone'
<1> SUFFICES ASSUME NEW v \in Threads, NEW u \in Threads,
                    Holds(v, "W")', v # u
             PROVE  ReadFrames(u)' = {}
  BY DEF WriterAlone
<1>ty. TypeOK
  BY DEF IInv
<1>1. CASE StartWriterReturn(t) /\ v = t
  <2>1. numReaders = 0
    BY <1>1, WaitEnds DEF StartWriterReturn
  <2>2. ReadFrames(u) = {}
    BY <2>1, NoReaders DEF IInv
  <2>3. QED  BY <2>2, <1>1, <1>ty, OthersKeepFrames
<1>2. CASE ~(StartWriterReturn(t) /\ v = t)
  <2>1. Holds(v, "W")
    <3>1. CASE v # t
      BY <3>1, <1>ty, OthersKeepFrames DEF Holds
    <3>2. CASE v = t
      <4>h. held[t] \in Seq({"R", "W"}) /\ Len(held[t]) \in Nat
            /\ DOMAIN held[t] = 1 .. Len(held[t])
        BY <1>ty, LenProperties DEF TypeOK
      <4>1. CASE StartReaderReturn(t)
        <5>1. held'[t] = Append(held[t], "R")
          BY <4>1, <1>ty DEF StartReaderReturn, TypeOK
        <5>2. DOMAIN held'[t] = 1 .. (Len(held[t]) + 1)
          BY <5>1, <4>h, PushGuard
        <5>3. /\ \A i \in 1 .. Len(held[t]) : held'[t][i] = held[t][i]
              /\ held'[t][Len(held[t]) + 1] = "R"
          BY <5>1, <4>h, PushGuard
        <5>4. QED  BY <5>2, <5>3, <4>h, <3>2 DEF Holds
      <4>2. CASE EndReader(t) \/ EndWriter(t)
        <5>1. held[t] # <<>> /\ held'[t] = SubSeq(held[t], 1, Len(held[t]) - 1)
          BY <4>2, <1>ty DEF EndReader, EndWriter, TypeOK
        <5>2. DOMAIN held'[t] = 1 .. (Len(held[t]) - 1)
          BY <5>1, <4>h, PopGuard
        <5>3. \A i \in 1 .. (Len(held[t]) - 1) : held'[t][i] = held[t][i]
          BY <5>1, <4>h, PopGuard
        <5>4. QED  BY <5>2, <5>3, <4>h, <3>2 DEF Holds
      <4>3. CASE ~StartReaderReturn(t) /\ ~EndReader(t) /\ ~EndWriter(t)
        <5>1. held' = held
          BY <4>3, <1>2, <3>2 DEF Request, Run, StartReader, StartReaderWrite,
             StartReaderCount, EndReaderCount, EndReaderReturn, StartWriter,
             StartWriterLock, StartWriterReturn
        <5>2. QED  BY <5>1 DEF Holds
      <4>4. QED  BY <4>1, <4>2, <4>3
    <3>3. QED  BY <3>1, <3>2
  <2>2. ReadFrames(u) = {}
    BY <2>1 DEF WriterAlone, IInv
  <2>3. CASE u # t
    BY <2>2, <2>3, <1>ty, OthersKeepFrames
  <2>4. CASE u = t
    <3>1. ~StartReaderCount(t)
      <4>1. SUFFICES ASSUME StartReaderCount(t) PROVE FALSE
        OBVIOUS
      <4>2. WriteFrames(t) # {}
        BY <4>1, <1>ty, InsideFrames DEF StartReaderCount
      <4>3. WriteFrames(v) # {}
        BY <2>1, <1>ty, GuardsAreFrames
      <4>4. QED  BY <4>2, <4>3, <2>4, OwnsWrite DEF IInv
    <3>2. QED  BY <3>1, <2>2, <2>4, <1>ty, ReadFramesStep
  <2>5. QED  BY <2>3, <2>4
<1>3. QED  BY <1>1, <1>2

\* Every step, and a stutter, keeps the inductive invariant.
LEMMA NextIInv == IInv /\ [Next]_vars => IInv'
<1> SUFFICES ASSUME IInv, [Next]_vars PROVE IInv'
  OBVIOUS
<1>1. ASSUME NEW t \in Threads, Request(t) \/ Run(t)
      PROVE  IInv'
  <2>1. TypeOK /\ ReadersCounted /\ WriteOwned /\ CountOwned /\ EventTracks
    BY DEF IInv
  <2>2. TypeOK'
    BY <1>1, <2>1, NextTypeOK
  <2>3. ReadersCounted'
    BY <1>1, <2>1, ReadersCountedStep
  <2>4. WriteOwned'
    BY <1>1, <2>1, WriteOwnedStep
  <2>5. CountOwned' /\ EventTracks'
    BY <1>1, <2>1, CountSectionStep
  <2>6. WriterAlone'
    BY <1>1, WriterAloneStep
  <2>7. QED  BY <2>2, <2>3, <2>4, <2>5, <2>6 DEF IInv
<1>2. CASE UNCHANGED vars
  <2>1. \A t \in Threads : /\ ReadFrames(t)' = ReadFrames(t)
                           /\ WriteFrames(t)' = WriteFrames(t)
                           /\ Holds(t, "W")' = Holds(t, "W")
    BY <1>2 DEF vars, ReadFrames, WriteFrames, Holds
  <2>2. CountedFrames' = CountedFrames
    BY <1>2 DEF vars, CountedFrames, ReadFrames
  <2>3. TypeOK' /\ CountOwned' /\ EventTracks'
    BY <1>2 DEF IInv, vars, TypeOK, CountOwned, EventTracks, Locations
  <2>4. ReadersCounted'
    BY <1>2, <2>2 DEF IInv, vars, ReadersCounted
  <2>5. WriteOwned'
    BY <1>2, <2>1 DEF IInv, vars, WriteOwned
  <2>6. WriterAlone'
    BY <2>1 DEF IInv, WriterAlone
  <2>7. QED  BY <2>3, <2>4, <2>5, <2>6 DEF IInv
<1>3. QED  BY <1>1, <1>2 DEF Next

\* A thread with no counted and no writing frame holds no guard.
LEMMA NoFramesNoGuards ==
    ASSUME TypeOK, NEW t \in Threads, ReadFrames(t) = {}, WriteFrames(t) = {}
    PROVE  held[t] = <<>>
<1>1. held[t] \in Seq({"R", "W"})
  BY DEF TypeOK
<1>2. Len(held[t]) \in Nat /\ DOMAIN held[t] = 1 .. Len(held[t])
  BY <1>1, LenProperties
<1>3. \A i \in 1 .. Len(held[t]) : held[t][i] \in {"R", "W"}
  BY <1>1, ElementOfSeq
<1>4. ~Holds(t, "R") /\ ~Holds(t, "W")
  BY GuardsAreFrames
<1>5. Len(held[t]) = 0
  BY <1>2, <1>3, <1>4 DEF Holds
<1>6. QED  BY <1>1, <1>5, EmptySeq

\* The inductive invariant gives mutual exclusion.
LEMMA IInvExcludes == IInv => MutualExclusion
<1> SUFFICES ASSUME IInv, NEW t \in Threads, NEW u \in Threads,
                    t # u, Holds(t, "W")
             PROVE  held[u] = <<>>
  BY DEF MutualExclusion
<1>1. ReadFrames(u) = {}
  BY DEF IInv, WriterAlone
<1>2. WriteFrames(t) # {}
  BY GuardsAreFrames DEF IInv
<1>3. WriteFrames(u) = {}
  BY <1>2, OwnsWrite DEF IInv
<1>4. QED  BY <1>1, <1>3, NoFramesNoGuards DEF IInv

-----------------------------------------------------------------------------
(* Who can be stuck *)

\* Whoever holds csReadCount goes on, so nobody waits for it.
LEMMA CountIsFree ==
    ASSUME IInv, \A t \in Threads : Blocked(t)
    PROVE  csReadCount = NoThread
<1>1. ASSUME NEW t \in Threads, csReadCount = t
      PROVE  FALSE
  <2>1. pc[t] \in {"sr_reset", "er_set"}
    BY <1>1 DEF IInv, CountOwned
  <2>2. QED  BY <2>1 DEF Blocked
<1>2. QED  BY <1>1 DEF IInv, TypeOK

\* When nobody goes on, the writer waits inside csWrite.
LEMMA WriterWaits ==
    ASSUME IInv, Threads # {}, \A t \in Threads : Blocked(t)
    PROVE  \E t \in Threads : pc[t] = "sw_wait" /\ ~writeAvailable
<1>1. csReadCount = NoThread
  BY CountIsFree
<1>2. PICK t \in Threads : TRUE
  OBVIOUS
<1>3. CASE WriteFree(t)
  BY <1>1, <1>3 DEF Blocked
<1>4. CASE ~WriteFree(t)
  <2>1. PICK w \in Threads : csWrite.owner = w
    BY <1>4 DEF WriteFree, IInv, TypeOK
  <2>2. WriteFree(w)
    BY <2>1 DEF WriteFree
  <2>3. QED  BY <1>1, <2>2 DEF Blocked
<1>5. QED  BY <1>3, <1>4

\* The readers that keep it waiting hold guards and ask for another one.
LEMMA StuckInsideReader ==
    ASSUME IInv, Threads # {}
    PROVE  StuckOnlyInsideReader
<1> SUFFICES ASSUME \A t \in Threads : Blocked(t)
             PROVE  /\ \E t \in Threads : pc[t] = "sw_wait"
                    /\ \E t \in Threads : AsksInsideReader(t)
  BY DEF StuckOnlyInsideReader
<1>1. PICK w \in Threads : pc[w] = "sw_wait" /\ ~writeAvailable
  BY WriterWaits
<1>2. csReadCount = NoThread
  BY CountIsFree
<1>3. numReaders # 0
  BY <1>1, <1>2 DEF IInv, EventTracks
<1>4. PICK u \in Threads : ReadFrames(u) # {}
  BY <1>3, NoReaders DEF IInv
<1>5. pc[u] \in {"sr_write", "sw_lock", "sw_wait"}
  BY <1>2 DEF Blocked
<1>6. Holds(u, "R")
  <2>1. held[u] \in Seq({"R", "W"})
    BY DEF IInv, TypeOK
  <2>2. Len(held[u]) \in Nat /\ DOMAIN held[u] = 1 .. Len(held[u])
    BY <2>1, LenProperties
  <2>3. PICK i \in 1 .. Len(held[u]) + 1 :
           IF i <= Len(held[u]) THEN held[u][i] = "R"
                                ELSE pc[u] \in {"sr_reset", "er_count"}
    BY <1>4 DEF ReadFrames
  <2>4. QED  BY <1>5, <2>2, <2>3 DEF Holds
<1>7. QED  BY <1>1, <1>5, <1>6 DEF AsksInsideReader

-----------------------------------------------------------------------------
(* Theorems of the specification *)

\* The invariant of the lock, for any threads, depth and nesting.
THEOREM Invariant == Spec => []IInv
<1>1. QED  BY InitIInv, NextIInv, PTL DEF Spec

\* The variables keep their types.
THEOREM TypeCorrect == Spec => []TypeOK
<1>1. IInv => TypeOK
  BY DEF IInv
<1>2. QED  BY <1>1, Invariant, PTL

\* A writer shares the lock with nobody.
THEOREM Exclusion == Spec => []MutualExclusion
<1>1. QED  BY IInvExcludes, Invariant, PTL

\* No wakeup is lost between the reader count and the event.
THEOREM NoLostWakeup == Spec => []EventAgrees
<1>1. IInv => EventAgrees
  BY DEF IInv, EventTracks, EventAgrees
<1>2. QED  BY <1>1, Invariant, PTL

\* All the threads that use the lock wait for good only when one of them waits
\* in StartWriter and one asked for a guard inside a reader guard of its own,
\* as CopyClassDef's callers do: every other nesting gets through.
THEOREM NobodyElseIsStuck ==
    ASSUME Threads # {}
    PROVE  Spec => []StuckOnlyInsideReader
<1>1. IInv => StuckOnlyInsideReader
  BY StuckInsideReader
<1>2. QED  BY <1>1, Invariant, PTL

\* Each step of the lock is a grant, a release or a stutter of the promise.
LEMMA StepImplements ==
    ASSUME IInv, [Next]_vars
    PROVE  [Promise!Next]_held
<1>ty. TypeOK
  BY DEF IInv
<1>1. ASSUME NEW t \in Threads, StartReaderReturn(t)
      PROVE  Promise!GrantRead(t)
  <2>1. WriteFrames(t) # {}
    BY <1>1, <1>ty, InsideFrames DEF StartReaderReturn
  <2>2. ASSUME NEW u \in Threads \ {t}, Holds(u, "W") PROVE FALSE
    BY <2>1, <2>2, <1>ty, GuardsAreFrames, OwnsWrite DEF IInv
  <2>3. QED
    BY <1>1, <2>2 DEF StartReaderReturn, Holds, Promise!GrantRead,
       Promise!Others, Promise!Holds
<1>2. ASSUME NEW t \in Threads, StartWriterReturn(t)
      PROVE  Promise!GrantWrite(t)
  <2>1. numReaders = 0
    BY <1>2, WaitEnds DEF StartWriterReturn
  <2>2. WriteFrames(t) # {}
    BY <1>2, <1>ty, InsideFrames DEF StartWriterReturn
  <2>3. ASSUME NEW u \in Threads \ {t} PROVE held[u] = <<>>
    <3>1. ReadFrames(u) = {}
      BY <2>1, NoReaders DEF IInv
    <3>2. WriteFrames(u) = {}
      BY <2>2, OwnsWrite DEF IInv
    <3>3. QED  BY <3>1, <3>2, <1>ty, NoFramesNoGuards
  <2>4. QED
    BY <1>2, <2>3 DEF StartWriterReturn, Promise!GrantWrite, Promise!Others
<1>3. ASSUME NEW t \in Threads, EndReader(t) \/ EndWriter(t)
      PROVE  Promise!Release(t)
  BY <1>3 DEF EndReader, EndWriter, Promise!Release
<1>4. ASSUME NEW t \in Threads, Request(t) \/ Run(t),
             ~StartReaderReturn(t), ~StartWriterReturn(t),
             ~EndReader(t), ~EndWriter(t)
      PROVE  held' = held
  BY <1>4 DEF Request, Run, StartReader, StartReaderWrite, StartReaderCount,
     EndReaderCount, EndReaderReturn, StartWriter, StartWriterLock
<1>5. CASE UNCHANGED vars
  BY <1>5 DEF vars
<1>6. QED  BY <1>1, <1>2, <1>3, <1>4, <1>5 DEF Next, Promise!Next

\* The lock implements the promise it makes to its callers.
THEOREM Refinement == Spec => Implements
<1>1. Init => Promise!Init
  BY DEF Init, Promise!Init
<1>2. QED
  BY <1>1, StepImplements, Invariant, PTL DEF Spec, Implements, Promise!Spec
=============================================================================
