------------------------ MODULE FileOperationsProofs ------------------------
(***************************************************************************)
(* Theorems about FileOperations for any finite sets of commands and of    *)
(* documents, files of any size and any command lines.                     *)
(***************************************************************************)
EXTENDS FileOperations, FiniteSetTheorems, FunctionTheorems, SequenceTheorems, TLAPS

\* A command that has come to a file, and one that nobody has met there.
Busy(c) == cmd[c].pc \notin {"idle", "next"}
Alone(c) == Busy(c) /\ To(c) \notin spoiled

\* What a command knows of itself.
CallsOK ==
    \A c \in Commands :
        /\ Busy(c) => cmd[c].inputs # <<>> /\ To(c) \in Names
        /\ cmd[c].pc \notin {"prepare", "work", "close"} =>
              cmd[c].in = NoInode /\ cmd[c].out = NoInode
        /\ cmd[c].pc \in {"begin", "check", "open", "prepare"} => cmd[c].done = 0

\* Two commands that meet on a name have spoiled it.
MeetingsSpoil ==
    \A c, d \in Commands :
        c # d /\ Busy(c) /\ Busy(d) /\ To(d) \in {Input(c), To(c)} => To(c) \in spoiled

\* A file has one name; one that is being written, the temporary name or a
\* spoiled one.
NamesOK ==
    /\ \A p, q \in Paths : dir[p] = dir[q] /\ dir[p] # NoInode => p = q
    /\ \A c \in Commands, p \in Paths :
          dir[p] = cmd[c].out /\ dir[p] # NoInode =>
             p = TempOf(c) \/ (p = To(c) /\ To(c) \in spoiled)

\* The documents in the clear are as long as they say.
BlocksOK ==
    /\ \A i \in Inodes : store[i].form = "plain" => store[i].blocks = store[i].size
    /\ \A c \in Commands : cmd[c].from.form = "plain" => cmd[c].from.blocks = cmd[c].from.size

\* What a command takes in, and what it is to make of it.
Taken(c) == IF cmd[c].opened THEN cmd[c].from ELSE Empty
Made(c) == Result(cmd[c].kind, Taken(c))

\* What a command has written before it is done.
Draft(c) ==
    IF cmd[c].done = 0 THEN Empty
    ELSE IF cmd[c].kind = "encrypt"
    THEN Cipher(cmd[c].from.doc, cmd[c].done, cmd[c].done, FALSE)
    ELSE Plain(cmd[c].from.doc, cmd[c].done)

\* It came to a whole file, of the right kind.
SourceOK(c) ==
    /\ Whole(cmd[c].from)
    /\ cmd[c].kind = "encrypt" => cmd[c].from.form = "plain"
    /\ cmd[c].kind = "decrypt" /\ cmd[c].pc \notin {"begin", "check"} => HasHeader(cmd[c].from)

\* The input stays as it was.
InputOK(c) ==
    /\ cmd[c].pc \in {"begin", "check", "open", "prepare", "work", "close"} =>
          dir[Input(c)] # NoInode /\ At(Input(c)) = cmd[c].from
    /\ cmd[c].pc \in {"prepare", "work"} =>
          cmd[c].in = IF cmd[c].opened THEN dir[Input(c)] ELSE NoInode

\* The temporary file, and at the end the output, hold what the command has made so
\* far.
OutputOK(c) ==
    /\ cmd[c].pc \in {"check", "open", "clean"} => dir[TempOf(c)] = NoInode
    /\ cmd[c].pc \in {"prepare", "work", "close"} => dir[TempOf(c)] = cmd[c].out
    /\ cmd[c].pc \in {"prepare", "work"} /\ cmd[c].out # NoInode => store[cmd[c].out] = Draft(c)
    /\ cmd[c].pc = "work" =>
          /\ cmd[c].done <= Taken(c).blocks
          /\ cmd[c].kind = "decrypt" => cmd[c].opened
          /\ cmd[c].done > 0 => cmd[c].out # NoInode
    /\ cmd[c].pc \in {"close", "remove", "rename"} =>
          IF dir[TempOf(c)] = NoInode THEN Taken(c).doc = NoDocument ELSE At(TempOf(c)) = Made(c)
    /\ cmd[c].pc = "clean" => dir[To(c)] # NoInode /\ At(To(c)) = Made(c)
    /\ cmd[c].pc = "unlink" => At(TempOf(c)) \in {Empty, Mixed}

AloneOK == \A c \in Commands : Alone(c) => SourceOK(c) /\ InputOK(c) /\ OutputOK(c)

IInv == NeverHalf /\ CallsOK /\ MeetingsSpoil /\ NamesOK /\ BlocksOK /\ AloneOK

-----------------------------------------------------------------------------
(* Names, inodes and contents *)

LEMMA TempIs ==
    /\ Names \subseteq Paths
    /\ \A p \in Names : Temp(p) \in Paths \ Names
    /\ \A p, q \in Names : Temp(p) = Temp(q) => p = q
<1>1. ASSUME NEW p \in Names PROVE Temp(p) \in Paths \ Names
  BY DEF Names, Paths, Temp
<1>2. ASSUME NEW p \in Names, NEW q \in Names, Temp(p) = Temp(q) PROVE p = q
  <2>1. /\ p = [doc |-> p.doc, ckm |-> p.ckm, tmp |-> FALSE]
        /\ q = [doc |-> q.doc, ckm |-> q.ckm, tmp |-> FALSE]
    BY DEF Names, Paths
  <2>2. /\ Temp(p).doc = p.doc /\ Temp(p).ckm = p.ckm
        /\ Temp(q).doc = q.doc /\ Temp(q).ckm = q.ckm
    BY DEF Names, Paths, Temp
  <2>3. QED  BY <1>2, <2>1, <2>2
<1>3. QED  BY <1>1, <1>2 DEF Names

LEMMA PathsFinite == IsFiniteSet(Paths) /\ Cardinality(Paths) \in Nat
<1> DEFINE B == BOOLEAN \X BOOLEAN
           X == Documents \X B
           f == [x \in X |-> [doc |-> x[1], ckm |-> x[2][1], tmp |-> x[2][2]]]
<1>1. IsFiniteSet(BOOLEAN)
  <2>1. BOOLEAN = {TRUE} \cup {FALSE}
    OBVIOUS
  <2>2. IsFiniteSet({TRUE}) /\ IsFiniteSet({FALSE})
    BY FS_Singleton
  <2>3. QED  BY <2>1, <2>2, FS_Union
<1>2. IsFiniteSet(B)
  BY <1>1, FS_Product
<1>3. IsFiniteSet(X)
  BY <1>2, FS_Product, FileAssumption
<1>4. f \in Surjection(X, Paths)
  <2>1. f \in [X -> Paths]
    BY DEF Paths
  <2>2. ASSUME NEW p \in Paths PROVE \E x \in X : f[x] = p
    <3>1. p = [doc |-> p.doc, ckm |-> p.ckm, tmp |-> p.tmp]
      BY DEF Paths
    <3>2. <<p.doc, <<p.ckm, p.tmp>>>> \in X
      BY DEF Paths
    <3>3. f[<<p.doc, <<p.ckm, p.tmp>>>>] = p
      BY <3>1, <3>2
    <3>4. QED  BY <3>2, <3>3
  <2> HIDE DEF f, X
  <2>3. QED  BY <2>1, <2>2, Fun_IsSurj
<1> HIDE DEF f, X
<1>5. IsFiniteSet(Paths)
  BY <1>3, <1>4, FS_Surjection
<1>6. QED  BY <1>5, FS_CardinalityType

LEMMA InodesAre ==
    /\ NoInode \notin Inodes /\ Inodes \subseteq Nat \ {0} /\ IsFiniteSet(Inodes)
    /\ Cardinality(Inodes) = Cardinality(Paths) + 2 * Cardinality(Commands)
    /\ Cardinality(Commands) \in Nat
<1> DEFINE P == Cardinality(Paths)
           C == Cardinality(Commands)
<1>1. P \in Nat /\ C \in Nat
  BY PathsFinite, FS_CardinalityType, FileAssumption
<1> HIDE DEF P, C
<1>2. Inodes = 1 .. (P + 2 * C)
  BY DEF Inodes, P, C
<1>3. IsFiniteSet(1 .. (P + 2 * C)) /\ Cardinality(1 .. (P + 2 * C)) = P + 2 * C
  <2>1. P + 2 * C \in Nat
    BY <1>1
  <2>2. QED  BY <2>1, FS_Interval
<1>4. QED  BY <1>1, <1>2, <1>3 DEF NoInode, P, C

LEMMA ContentsAre ==
    /\ Empty \in Contents /\ Mixed \in Contents
    /\ \A d \in Documents \cup {NoDocument}, n \in 0 .. Size : Plain(d, n) \in Contents
    /\ \A d \in Documents \cup {NoDocument}, n, m \in 0 .. Size, h \in BOOLEAN :
          Cipher(d, n, m, h) \in Contents
<1>1. 0 \in 0 .. Size
  BY FileAssumption
<1>2. QED  BY <1>1 DEF Empty, Mixed, Plain, Cipher, Contents

\* The inode of a new file: there is one, and nobody has it.
LEMMA NewInodeIs ==
    ASSUME TypeOK, CallsOK, NEW c \in Commands, In(c, "open")
    PROVE  NewInode \in Inodes /\ Free(NewInode)
<1> DEFINE A == {dir[p] : p \in Paths}
           O == {cmd[d].out : d \in Commands}
           I == {cmd[d].in : d \in Commands}
           out == [d \in Commands |-> cmd[d].out]
           in == [d \in Commands |-> cmd[d].in]
<1>1. IsFiniteSet(A) /\ Cardinality(A) <= Cardinality(Paths) /\ Cardinality(A) \in Nat
  <2>1. dir \in Surjection(Paths, A)
    <3>1. dir \in [Paths -> A]
      BY DEF TypeOK
    <3>2. \A a \in A : \E p \in Paths : dir[p] = a
      OBVIOUS
    <3> HIDE DEF A
    <3>3. QED  BY <3>1, <3>2, Fun_IsSurj
  <2> HIDE DEF A
  <2>2. QED  BY <2>1, PathsFinite, FS_Surjection, FS_CardinalityType
<1>2. IsFiniteSet(O) /\ Cardinality(O) <= Cardinality(Commands) /\ Cardinality(O) \in Nat
  <2>1. out \in Surjection(Commands, O)
    <3>1. out \in [Commands -> O]
      OBVIOUS
    <3>2. \A a \in O : \E d \in Commands : out[d] = a
      OBVIOUS
    <3> HIDE DEF O, out
    <3>3. QED  BY <3>1, <3>2, Fun_IsSurj
  <2> HIDE DEF O, out
  <2>2. QED  BY <2>1, FileAssumption, FS_Surjection, FS_CardinalityType
<1>3. IsFiniteSet(I) /\ Cardinality(I) <= Cardinality(Commands) /\ Cardinality(I) \in Nat
  <2>1. in \in Surjection(Commands, I)
    <3>1. in \in [Commands -> I]
      OBVIOUS
    <3>2. \A a \in I : \E d \in Commands : in[d] = a
      OBVIOUS
    <3> HIDE DEF I, in
    <3>3. QED  BY <3>1, <3>2, Fun_IsSurj
  <2> HIDE DEF I, in
  <2>2. QED  BY <2>1, FileAssumption, FS_Surjection, FS_CardinalityType
<1> DEFINE U == A \cup (O \cup I)
<1>4. IsFiniteSet(U) /\ Cardinality(U) <= Cardinality(Paths) + 2 * Cardinality(Commands)
      /\ Cardinality(U) \in Nat
  <2> HIDE DEF A, O, I
  <2>1. /\ IsFiniteSet(O \cup I)
        /\ Cardinality(O \cup I) = Cardinality(O) + Cardinality(I) - Cardinality(O \cap I)
    BY <1>2, <1>3, FS_Union
  <2>2. IsFiniteSet(O \cap I)
    <3>1. O \cap I \in SUBSET O
      OBVIOUS
    <3>2. QED  BY <1>2, <3>1, FS_Subset
  <2>3. Cardinality(O \cap I) \in Nat
    BY <2>2, FS_CardinalityType
  <2>4. /\ IsFiniteSet(U)
        /\ Cardinality(U) = Cardinality(A) + Cardinality(O \cup I) - Cardinality(A \cap (O \cup I))
    BY <1>1, <2>1, FS_Union
  <2>5. IsFiniteSet(A \cap (O \cup I))
    <3>1. A \cap (O \cup I) \in SUBSET A
      OBVIOUS
    <3>2. QED  BY <1>1, <3>1, FS_Subset
  <2>6. Cardinality(A \cap (O \cup I)) \in Nat /\ Cardinality(U) \in Nat
    BY <2>4, <2>5, FS_CardinalityType
  <2>7. Cardinality(Paths) \in Nat /\ Cardinality(Commands) \in Nat
    BY PathsFinite, InodesAre
  <2> DEFINE oi == Cardinality(O \cup I)
             o == Cardinality(O)
             i == Cardinality(I)
             a == Cardinality(A)
             k == Cardinality(A \cap (O \cup I))
             m == Cardinality(O \cap I)
             u == Cardinality(U)
             P == Cardinality(Paths)
             C == Cardinality(Commands)
  <2>8. /\ o \in Nat /\ i \in Nat /\ a \in Nat /\ k \in Nat /\ m \in Nat /\ u \in Nat
        /\ P \in Nat /\ C \in Nat
        /\ oi = o + i - m /\ u = a + oi - k /\ o <= C /\ i <= C /\ a <= P
    BY <1>1, <1>2, <1>3, <2>1, <2>3, <2>4, <2>6, <2>7
  <2> HIDE DEF oi, o, i, a, k, m, u, P, C
  <2>9. u <= P + 2 * C
    BY <2>8
  <2>10. QED  BY <2>4, <2>6, <2>9 DEF u, P, C
<1>5. NoInode \in U
  BY DEF CallsOK, In
<1>6. \E i \in Inodes : i \notin U
  <2> SUFFICES ASSUME Inodes \subseteq U PROVE FALSE
    OBVIOUS
  <2> HIDE DEF U
  <2>1. IsFiniteSet(U \ {NoInode}) /\ Cardinality(U \ {NoInode}) = Cardinality(U) - 1
    BY <1>4, <1>5, FS_RemoveElement
  <2>2. Inodes \in SUBSET (U \ {NoInode})
    BY InodesAre
  <2>3. Cardinality(Inodes) <= Cardinality(U) - 1
    BY <2>1, <2>2, FS_Subset
  <2>4. Cardinality(Paths) \in Nat
    BY PathsFinite
  <2>5. QED  BY <1>4, <2>3, <2>4, InodesAre
<1>7. \A i \in Inodes : i \notin U => Free(i)
  BY DEF Free
<1>8. \E i \in Inodes : Free(i)
  BY <1>6, <1>7
<1>9. QED  BY <1>8 DEF NewInode

-----------------------------------------------------------------------------
(* The initial states *)

\* The inodes of the names there are at first: one for each.
LEMMA InodeOfIs ==
    ASSUME NEW names \in SUBSET Names
    PROVE  /\ InodeOf(names) \in [names -> 1 .. Cardinality(names)]
           /\ \A m, n \in names : InodeOf(names)[m] = InodeOf(names)[n] => m = n
           /\ \A i \in 1 .. Cardinality(names) : \E n \in names : InodeOf(names)[n] = i
           /\ 1 .. Cardinality(names) \subseteq Inodes
<1> DEFINE K == Cardinality(names)
           f == InodeOf(names)
<1>1. names \in SUBSET Paths
  BY TempIs
<1>2. IsFiniteSet(names) /\ K \in Nat /\ K <= Cardinality(Paths)
  BY <1>1, PathsFinite, FS_Subset, FS_CardinalityType
<1>3. 1 .. K \subseteq Inodes
  <2> HIDE DEF K
  <2>1. Cardinality(Paths) \in Nat /\ Cardinality(Commands) \in Nat
    BY PathsFinite, InodesAre
  <2> DEFINE P == Cardinality(Paths)
             C == Cardinality(Commands)
  <2>2. P \in Nat /\ C \in Nat /\ K \in Nat /\ K <= P
    BY <1>2, <2>1
  <2>3. Inodes = 1 .. (P + 2 * C)
    BY DEF Inodes
  <2> HIDE DEF P, C
  <2>4. QED  BY <2>2, <2>3
<1>4. \E g \in [names -> 1 .. K] : \A m, n \in names : g[m] = g[n] => m = n
  <2>1. ExistsBijection(1 .. K, names)
    BY <1>2, FS_CardinalityType
  <2>2. ExistsBijection(names, 1 .. K)
    BY <2>1, Fun_ExistsBijSymmetric
  <2>3. PICK g : g \in Bijection(names, 1 .. K)
    BY <2>2 DEF ExistsBijection
  <2>4. g \in [names -> 1 .. K] /\ \A m, n \in names : g[m] = g[n] => m = n
    BY <2>3 DEF Bijection, Injection, IsInjective
  <2>5. QED  BY <2>4
<1>5. f \in [names -> 1 .. K] /\ \A m, n \in names : f[m] = f[n] => m = n
  BY <1>4 DEF InodeOf
<1> HIDE DEF f
<1>6. \A i \in 1 .. K : \E n \in names : f[n] = i
  <2>1. f \in Injection(names, 1 .. K)
    BY <1>5, Fun_IsInj
  <2>2. IsFiniteSet(1 .. K) /\ Cardinality(1 .. K) = K
    <3> HIDE DEF K
    <3>1. 1 \in Int /\ K \in Int /\ K \in Nat
      BY <1>2
    <3>2. IsFiniteSet(1 .. K) /\ Cardinality(1 .. K) = IF 1 > K THEN 0 ELSE K - 1 + 1
      BY <3>1, FS_Interval
    <3>3. QED  BY <3>1, <3>2
  <2>3. f \in Surjection(names, 1 .. K)
    BY <2>1, <2>2, FS_Injection
  <2>4. QED  BY <2>3 DEF Surjection
<1>7. QED  BY <1>3, <1>5, <1>6 DEF f

LEMMA FirstIs ==
    ASSUME NEW n \in Names
    PROVE  /\ First(n) \in Contents /\ Whole(First(n))
           /\ First(n).form = "plain" => First(n).blocks = First(n).size
<1>1. n.doc \in Documents /\ n.doc # NoDocument /\ Size \in 0 .. Size
  BY FileAssumption DEF Names, Paths
<1>2. QED  BY <1>1, ContentsAre
            DEF First, Whole, HashMatches, HasHeader, Length, Plain, Cipher

LEMMA IdleIs ==
    /\ Idle \in Calls
    /\ Idle.pc = "idle" /\ Idle.in = NoInode /\ Idle.out = NoInode /\ Idle.from = Empty
<1>1. <<>> \in Seq(Names)
  BY EmptySeq
<1>2. 0 \in 0 .. Size
  BY FileAssumption
<1>3. QED  BY <1>1, <1>2, ContentsAre DEF Idle, Calls

\* The initial states have the invariant.
LEMMA InitIInv == Init => IInv
<1> SUFFICES ASSUME Init PROVE IInv
  OBVIOUS
<1>1. PICK encrypted \in SUBSET Before :
          LET names == FirstNames(encrypted)
              f == InodeOf(names)
          IN /\ dir = [p \in Paths |-> IF p \in names THEN f[p] ELSE NoInode]
             /\ store = [i \in Inodes |->
                            IF i \in 1 .. Cardinality(names)
                            THEN First(CHOOSE n \in names : f[n] = i) ELSE Empty]
  BY DEF Init
<1> DEFINE names == FirstNames(encrypted)
           f == InodeOf(names)
           K == Cardinality(names)
<1>2. names \in SUBSET Names
  BY DEF FirstNames
<1>3. /\ f \in [names -> 1 .. K]
      /\ \A m, n \in names : f[m] = f[n] => m = n
      /\ \A i \in 1 .. K : \E n \in names : f[n] = i
      /\ 1 .. K \subseteq Inodes
  BY <1>2, InodeOfIs
<1>4. /\ dir = [p \in Paths |-> IF p \in names THEN f[p] ELSE NoInode]
      /\ store = [i \in Inodes |-> IF i \in 1 .. K THEN First(CHOOSE n \in names : f[n] = i) ELSE Empty]
  BY <1>1
<1> HIDE DEF names, f, K
<1>5. ASSUME NEW i \in 1 .. K
      PROVE  \E n \in names : f[n] = i /\ store[i] = First(n)
  <2>1. PICK n \in names : n = CHOOSE m \in names : f[m] = i
    BY <1>3
  <2>2. f[n] = i
    BY <1>3, <2>1
  <2>3. i \in Inodes
    BY <1>3
  <2>4. QED  BY <1>4, <2>1, <2>2, <2>3
<1>6. ASSUME NEW i \in Inodes
      PROVE  store[i] \in Contents /\ (store[i].form = "plain" => store[i].blocks = store[i].size)
  <2>1. CASE i \in 1 .. K
    BY <2>1, <1>2, <1>5, FirstIs
  <2>2. CASE i \notin 1 .. K
    BY <2>2, <1>4, ContentsAre DEF Empty, Plain
  <2>3. QED  BY <2>1, <2>2
<1>7. /\ \A p \in Paths : dir[p] \in Inodes \cup {NoInode}
      /\ \A p \in Paths : dir[p] # NoInode => p \in names /\ dir[p] = f[p]
  <2>1. \A p \in names : f[p] \in Inodes
    BY <1>3
  <2>2. QED  BY <2>1, <1>4, InodesAre
<1>8. cmd = [c \in Commands |-> Idle] /\ starts = 0 /\ losses = 0 /\ spoiled = {}
  BY DEF Init
<1>9. TypeOK
  <2>1. dir \in [Paths -> Inodes \cup {NoInode}]
    BY <1>4, <1>7
  <2>2. store \in [Inodes -> Contents]
    <3>1. store = [i \in Inodes |-> store[i]]
      BY <1>4
    <3>2. QED  BY <3>1, <1>6
  <2>3. starts \in 0 .. MaxStarts /\ losses \in 0 .. MaxLosses
    BY <1>8, FileAssumption
  <2>4. QED  BY <2>1, <2>2, <2>3, <1>8, IdleIs DEF TypeOK
<1>10. \A n \in Names : dir[n] # NoInode => Whole(store[dir[n]])
  <2> SUFFICES ASSUME NEW n \in Names, dir[n] # NoInode PROVE Whole(store[dir[n]])
    OBVIOUS
  <2>1. n \in names /\ dir[n] = f[n] /\ f[n] \in 1 .. K
    BY <1>3, <1>7, TempIs
  <2>2. PICK m \in names : f[m] = f[n] /\ store[f[n]] = First(m)
    BY <1>5, <2>1
  <2>3. QED  BY <1>2, <2>1, <2>2, FirstIs
<1>11. CallsOK /\ MeetingsSpoil /\ AloneOK
  BY <1>8, IdleIs DEF CallsOK, MeetingsSpoil, AloneOK, Alone, Busy
<1>12. NamesOK
  <2>1. \A p, q \in Paths : dir[p] = dir[q] /\ dir[p] # NoInode => p = q
    BY <1>3, <1>7
  <2>2. QED  BY <2>1, <1>8, IdleIs DEF NamesOK
<1>13. BlocksOK
  BY <1>6, <1>8, IdleIs DEF BlocksOK, Empty, Plain
<1>14. QED  BY <1>9, <1>10, <1>11, <1>12, <1>13 DEF IInv, NeverHalf

-----------------------------------------------------------------------------
(* What a step of a call comes to *)

\* The directory: nothing, the temporary name or the output is deleted, the one is
\* renamed to the other, or a new temporary file is made.
DirStep(c) ==
    \/ UNCHANGED dir
    \/ dir' = [dir EXCEPT ![TempOf(c)] = NoInode]
    \/ dir' = [dir EXCEPT ![To(c)] = NoInode]
    \/ /\ dir' = [dir EXCEPT ![To(c)] = dir[TempOf(c)], ![TempOf(c)] = NoInode]
       /\ cmd[c].out = NoInode
       /\ To(c) \notin spoiled => dir'[To(c)] # NoInode /\ Whole(store'[dir'[To(c)]])
    \/ \E i \in Inodes : Free(i) /\ dir' = [dir EXCEPT ![TempOf(c)] = i]

\* The files: at most one is written, the temporary file or a new one.
StoreStep(c) ==
    \E i : /\ i \in {NoInode, cmd[c].out, dir[TempOf(c)]} \/ \A p \in Paths : dir[p] # i
           /\ \A p \in Paths : dir'[p] \notin {NoInode, i} => store'[dir'[p]] = store[dir'[p]]

\* The call itself, and the call to the next file.
CallStep(c) ==
    /\ cmd' \in [Commands -> Calls]
    /\ \A d \in Commands : d # c => cmd'[d] = cmd[d]
    /\ Busy(c)' => /\ cmd'[c].kind = cmd[c].kind /\ cmd'[c].inputs = cmd[c].inputs
                   /\ cmd'[c].output = cmd[c].output /\ cmd'[c].from = cmd[c].from
    /\ cmd'[c].from \in {cmd[c].from, Empty}
    /\ cmd'[c].pc \notin {"prepare", "work", "close"} =>
          cmd'[c].in = NoInode /\ cmd'[c].out = NoInode
    /\ cmd'[c].pc \in {"begin", "check", "open", "prepare"} => cmd'[c].done = 0
    /\ cmd'[c].out # NoInode => cmd'[c].out \in {cmd[c].out, dir'[TempOf(c)]}

StepOK(c) ==
    /\ CallStep(c) /\ DirStep(c) /\ StoreStep(c)
    /\ store' \in [Inodes -> Contents]
    /\ \A i \in Inodes : store'[i].form = "plain" => store'[i].blocks = store'[i].size
    /\ starts' = starts /\ losses' \in 0 .. MaxLosses
    /\ spoiled' \in {spoiled, spoiled \cup {To(c)}}
    /\ Alone(c)' => SourceOK(c)' /\ InputOK(c)' /\ OutputOK(c)'

\* The names of a call under way.
LEMMA BusyIs ==
    ASSUME TypeOK, CallsOK, NEW c \in Commands, Busy(c)
    PROVE  /\ To(c) \in Names /\ To(c) \in Paths /\ TempOf(c) \in Paths \ Names
           /\ Input(c) \in Names /\ Input(c) \in Paths
<1>1. To(c) \in Names /\ cmd[c].inputs # <<>> /\ cmd[c].inputs \in Seq(Names)
  BY DEF CallsOK, TypeOK, Calls
<1>2. Input(c) \in Names
  BY <1>1, HeadTailProperties DEF Input
<1>3. QED  BY <1>1, <1>2, TempIs DEF TempOf

\* A step of a call leaves every other path alone, and what it leads to.
LEMMA Untouched ==
    ASSUME TypeOK, CallsOK, NamesOK, NEW c \in Commands, Busy(c), DirStep(c), StoreStep(c),
           NEW p \in Paths, p # TempOf(c)
    PROVE  /\ p # To(c) => dir'[p] = dir[p]
           /\ dir'[p] = dir[p] /\ (p = To(c) => p \notin spoiled) => At(p)' = At(p)
<1>1. To(c) \in Paths /\ TempOf(c) \in Paths /\ To(c) # TempOf(c)
  BY BusyIs
<1>2. p # To(c) => dir'[p] = dir[p]
  BY <1>1 DEF DirStep, TypeOK
<1>3. ASSUME dir'[p] = dir[p], p = To(c) => p \notin spoiled
      PROVE  At(p)' = At(p)
  <2>1. PICK i : /\ i \in {NoInode, cmd[c].out, dir[TempOf(c)]} \/ \A q \in Paths : dir[q] # i
                 /\ \A q \in Paths : dir'[q] \notin {NoInode, i} => store'[dir'[q]] = store[dir'[q]]
    BY DEF StoreStep
  <2>2. dir[p] # NoInode => dir[p] # i
    BY <2>1, <1>1, <1>3 DEF NamesOK
  <2>3. dir[p] # NoInode => store'[dir[p]] = store[dir[p]]
    BY <2>1, <2>2, <1>3
  <2>4. QED  BY <2>3, <1>3 DEF At
<1>4. QED  BY <1>2, <1>3

\* It leaves the names in order.
LEMMA NamesKept ==
    ASSUME TypeOK, CallsOK, MeetingsSpoil, NamesOK, NEW c \in Commands, Busy(c),
           DirStep(c), CallStep(c), spoiled \subseteq spoiled'
    PROVE  NamesOK'
<1>1. To(c) \in Names /\ To(c) \in Paths /\ TempOf(c) \in Paths \ Names /\ To(c) # TempOf(c)
  BY BusyIs
<1>2. \A p, q \in Paths : dir'[p] = dir'[q] /\ dir'[p] # NoInode => p = q
  <2>1. \A p, q \in Paths : dir[p] = dir[q] /\ dir[p] # NoInode => p = q
    BY DEF NamesOK
  <2>2. CASE UNCHANGED dir \/ dir' = [dir EXCEPT ![TempOf(c)] = NoInode]
             \/ dir' = [dir EXCEPT ![To(c)] = NoInode]
    BY <1>1, <2>1, <2>2 DEF TypeOK
  <2>3. CASE dir' = [dir EXCEPT ![To(c)] = dir[TempOf(c)], ![TempOf(c)] = NoInode]
    BY <1>1, <2>1, <2>3 DEF TypeOK
  <2>4. CASE \E i \in Inodes : Free(i) /\ dir' = [dir EXCEPT ![TempOf(c)] = i]
    BY <1>1, <2>1, <2>4 DEF TypeOK, Free
  <2>5. QED  BY <2>2, <2>3, <2>4 DEF DirStep
<1>3. ASSUME NEW d \in Commands, NEW p \in Paths, dir'[p] = cmd'[d].out, dir'[p] # NoInode
      PROVE  p = TempOf(d)' \/ (p = To(d)' /\ To(d)' \in spoiled')
  <2>1. CASE d = c /\ cmd'[d].out = dir'[TempOf(c)]
    <3>1. p = TempOf(c)
      BY <1>1, <1>2, <1>3, <2>1
    <3>2. cmd'[c].pc \in {"prepare", "work", "close"}
      BY <1>3, <2>1 DEF CallStep
    <3>3. cmd'[c].output = cmd[c].output
      BY <3>2 DEF CallStep, Busy
    <3>4. QED  BY <3>1, <3>3, <2>1 DEF TempOf, To
  <2>2. CASE cmd'[d].out = cmd[d].out
    <3>1. To(d)' = To(d) /\ TempOf(d)' = TempOf(d)
      <4>1. CASE d # c
        BY <4>1 DEF CallStep, To, TempOf
      <4>2. CASE d = c
        <5>1. cmd'[c].pc \in {"prepare", "work", "close"}
          BY <1>3, <4>2 DEF CallStep
        <5>2. QED  BY <5>1, <4>2 DEF CallStep, Busy, To, TempOf
      <4>3. QED  BY <4>1, <4>2
    <3>2. CASE dir'[p] = dir[p]
      <4>1. p = TempOf(d) \/ (p = To(d) /\ To(d) \in spoiled)
        BY <3>2, <2>2, <1>3 DEF NamesOK
      <4>2. QED  BY <4>1, <3>1
    <3>3. CASE dir'[p] # dir[p]
      <4>0. Busy(d)
        <5>1. cmd[d].out # NoInode
          BY <1>3, <2>2
        <5>2. QED  BY <5>1 DEF CallsOK, Busy
      <4>1. /\ p = To(c) /\ dir'[p] = dir[TempOf(c)] /\ cmd[c].out = NoInode
        <5>1. CASE \E i \in Inodes : Free(i) /\ dir' = [dir EXCEPT ![TempOf(c)] = i]
          <6>1. PICK i \in Inodes : Free(i) /\ dir' = [dir EXCEPT ![TempOf(c)] = i]
            BY <5>1
          <6>2. dir'[p] = i
            BY <6>1, <3>3 DEF TypeOK
          <6>3. QED  BY <6>1, <6>2, <2>2, <1>3 DEF Free
        <5>2. CASE UNCHANGED dir \/ dir' = [dir EXCEPT ![TempOf(c)] = NoInode]
                   \/ dir' = [dir EXCEPT ![To(c)] = NoInode]
          BY <5>2, <1>1, <1>3, <3>3 DEF TypeOK
        <5>3. CASE /\ dir' = [dir EXCEPT ![To(c)] = dir[TempOf(c)], ![TempOf(c)] = NoInode]
                   /\ cmd[c].out = NoInode
          BY <5>3, <1>1, <1>3, <3>3 DEF TypeOK
        <5>4. QED  BY <5>1, <5>2, <5>3 DEF DirStep
      <4>2. c # d
        BY <4>1, <2>2, <1>3
      <4>3. TempOf(c) = TempOf(d) \/ TempOf(c) = To(d)
        BY <4>1, <1>1, <1>3, <2>2 DEF NamesOK
      <4>4. To(d) = To(c)
        BY <4>0, <4>3, <1>1, BusyIs, TempIs DEF TempOf
      <4>5. To(d) \in spoiled
        BY <4>0, <4>2, <4>4 DEF MeetingsSpoil
      <4>6. QED  BY <3>1, <4>1, <4>4, <4>5
    <3>4. QED  BY <3>2, <3>3
  <2>3. QED  BY <2>1, <2>2, <1>3 DEF CallStep
<1>4. QED  BY <1>2, <1>3 DEF NamesOK

\* It leaves the other calls what they have.
LEMMA OthersKept ==
    ASSUME TypeOK, CallsOK, MeetingsSpoil, NamesOK, AloneOK, NEW c \in Commands, Busy(c),
           DirStep(c), StoreStep(c), CallStep(c), spoiled \subseteq spoiled',
           NEW d \in Commands, d # c, Alone(d)'
    PROVE  SourceOK(d)' /\ InputOK(d)' /\ OutputOK(d)'
<1>1. cmd'[d] = cmd[d]
  BY DEF CallStep
<1>2. Alone(d) /\ Busy(d) /\ To(d) \notin spoiled
  BY <1>1 DEF Alone, Busy, To
<1>3. To(c) \notin {Input(d), To(d)}
  BY <1>2 DEF MeetingsSpoil
<1>4. To(d) \in Names /\ To(c) \in Names
      /\ {Input(d), To(d), TempOf(d)} \subseteq Paths /\ Input(d) \in Names
      /\ TempOf(c) \in Paths \ Names /\ TempOf(d) \in Paths \ Names
  BY <1>2, BusyIs
<1>5. TempOf(c) # TempOf(d)
  BY <1>3, <1>4, TempIs DEF TempOf
<1>6. \A p \in {Input(d), To(d), TempOf(d)} : dir'[p] = dir[p] /\ At(p)' = At(p)
  BY <1>3, <1>4, <1>5, Untouched
<1>7. SourceOK(d) /\ InputOK(d) /\ OutputOK(d)
  BY <1>2 DEF AloneOK
<1>8. /\ Input(d)' = Input(d) /\ To(d)' = To(d) /\ TempOf(d)' = TempOf(d)
      /\ Taken(d)' = Taken(d) /\ Made(d)' = Made(d) /\ Draft(d)' = Draft(d)
  BY <1>1 DEF Input, To, TempOf, Taken, Made, Draft
<1>9. SourceOK(d)'
  BY <1>1, <1>7 DEF SourceOK
<1>10. At(Input(d))' = At(Input(d)) /\ At(To(d))' = At(To(d)) /\ At(TempOf(d))' = At(TempOf(d))
       /\ dir'[Input(d)] = dir[Input(d)] /\ dir'[To(d)] = dir[To(d)]
       /\ dir'[TempOf(d)] = dir[TempOf(d)]
  BY <1>6, <1>8 DEF At
<1>11. InputOK(d)'
  BY <1>1, <1>7, <1>8, <1>10 DEF InputOK
<1>12. cmd[d].pc \in {"prepare", "work"} /\ cmd[d].out # NoInode =>
          store'[cmd[d].out] = store[cmd[d].out]
  <2>1. SUFFICES ASSUME cmd[d].pc \in {"prepare", "work"}, cmd[d].out # NoInode
                 PROVE  store'[cmd[d].out] = store[cmd[d].out]
    OBVIOUS
  <2>2. dir[TempOf(d)] = cmd[d].out
    BY <2>1, <1>7 DEF OutputOK
  <2>3. QED  BY <2>1, <2>2, <1>8, <1>10 DEF At
<1>13. OutputOK(d)'
  BY <1>1, <1>7, <1>8, <1>10, <1>12 DEF OutputOK
<1>14. QED  BY <1>9, <1>11, <1>13

\* It keeps the invariant.
LEMMA StepInv ==
    ASSUME IInv, NEW c \in Commands, Busy(c), StepOK(c)
    PROVE  IInv'
<1> USE DEF NeverHalf
<1>0. /\ TypeOK /\ CallsOK /\ MeetingsSpoil /\ NamesOK /\ BlocksOK /\ AloneOK
      /\ \A n \in Names \ spoiled : dir[n] # NoInode => Whole(store[dir[n]])
      /\ CallStep(c) /\ DirStep(c) /\ StoreStep(c)
  BY DEF IInv, StepOK
<1>1. To(c) \in Names /\ To(c) \in Paths /\ TempOf(c) \in Paths \ Names /\ To(c) # TempOf(c)
  BY <1>0, BusyIs
<1>2. spoiled \subseteq spoiled' /\ spoiled' \subseteq Names
  BY <1>0, <1>1 DEF StepOK, TypeOK
<1>3. TypeOK'
  <2>1. dir' \in [Paths -> Inodes \cup {NoInode}]
    BY <1>0, <1>1 DEF DirStep, TypeOK
  <2>2. QED  BY <1>0, <1>2, <2>1 DEF StepOK, CallStep, TypeOK
<1>4. \A d \in Commands : d # c => cmd'[d] = cmd[d]
  BY <1>0 DEF CallStep
<1>5. CallsOK'
  <2>1. ASSUME NEW d \in Commands, d # c
        PROVE  /\ Busy(d)' => cmd'[d].inputs # <<>> /\ To(d)' \in Names
               /\ cmd'[d].pc \notin {"prepare", "work", "close"} =>
                     cmd'[d].in = NoInode /\ cmd'[d].out = NoInode
               /\ cmd'[d].pc \in {"begin", "check", "open", "prepare"} => cmd'[d].done = 0
    BY <1>0, <1>4, <2>1 DEF CallsOK, Busy, To
  <2>2. /\ Busy(c)' => cmd'[c].inputs # <<>> /\ To(c)' \in Names
        /\ cmd'[c].pc \notin {"prepare", "work", "close"} =>
              cmd'[c].in = NoInode /\ cmd'[c].out = NoInode
        /\ cmd'[c].pc \in {"begin", "check", "open", "prepare"} => cmd'[c].done = 0
    BY <1>0 DEF CallsOK, CallStep, To
  <2>3. QED  BY <2>1, <2>2 DEF CallsOK
<1>6. MeetingsSpoil'
  <2>1. ASSUME NEW d \in Commands, Busy(d)'
        PROVE  Busy(d) /\ Input(d)' = Input(d) /\ To(d)' = To(d)
    <3>1. CASE d = c
      BY <3>1, <2>1, <1>0 DEF CallStep, Input, To
    <3>2. CASE d # c
      BY <3>2, <2>1, <1>4 DEF Busy, Input, To
    <3>3. QED  BY <3>1, <3>2
  <2>2. QED  BY <2>1, <1>0, <1>2 DEF MeetingsSpoil
<1>7. NamesOK'
  BY <1>0, <1>2, NamesKept
<1>8. BlocksOK'
  <2>1. \A d \in Commands : cmd'[d].from \in {cmd[d].from, Empty}
    BY <1>0, <1>4 DEF CallStep
  <2>2. Empty.blocks = Empty.size
    BY DEF Empty, Plain
  <2>3. QED  BY <1>0, <2>1, <2>2 DEF StepOK, BlocksOK
<1>9. AloneOK'
  <2>1. ASSUME NEW d \in Commands, Alone(d)'
        PROVE  SourceOK(d)' /\ InputOK(d)' /\ OutputOK(d)'
    <3>1. CASE d = c
      BY <3>1, <2>1 DEF StepOK
    <3>2. CASE d # c
      BY <3>2, <2>1, <1>0, <1>2, OthersKept
    <3>3. QED  BY <3>1, <3>2
  <2>2. QED  BY <2>1 DEF AloneOK
<1>10. ASSUME NEW n \in Names \ spoiled', dir'[n] # NoInode
       PROVE  Whole(store'[dir'[n]])
  <2>1. n \in Paths /\ n \notin spoiled /\ n # TempOf(c)
    BY <1>1, <1>2, <1>10, TempIs
  <2>2. CASE dir'[n] = dir[n]
    <3>1. At(n)' = At(n)
      BY <1>0, <2>1, <2>2, Untouched
    <3>2. store'[dir'[n]] = store[dir[n]]
      BY <3>1, <2>2, <1>10 DEF At
    <3>3. QED  BY <3>2, <2>1, <2>2, <1>0, <1>10
  <2>3. CASE dir'[n] # dir[n]
    <3>1. n = To(c)
      BY <1>0, <2>1, <2>3, Untouched
    <3>2. CASE \/ dir' = [dir EXCEPT ![TempOf(c)] = NoInode]
               \/ \E i \in Inodes : dir' = [dir EXCEPT ![TempOf(c)] = i]
      BY <3>2, <2>1, <2>3, <1>0 DEF TypeOK
    <3>3. CASE dir' = [dir EXCEPT ![To(c)] = NoInode]
      BY <3>1, <3>3, <1>0, <1>1, <1>10 DEF TypeOK
    <3>4. CASE To(c) \notin spoiled => dir'[To(c)] # NoInode /\ Whole(store'[dir'[To(c)]])
      BY <3>1, <3>4, <2>1
    <3>5. QED  BY <3>2, <3>3, <3>4, <2>3, <1>0 DEF DirStep
  <2>4. QED  BY <2>2, <2>3
<1>11. QED  BY <1>3, <1>5, <1>6, <1>7, <1>8, <1>9, <1>10 DEF IInv

\* The calls as a step of one leaves them.
LEMMA GotoIs ==
    ASSUME TypeOK, NEW c \in Commands, NEW pc, Goto(c, pc),
           pc \in {"check", "open", "prepare", "work", "close", "remove", "rename", "wipe",
                   "unlink", "clean"}
    PROVE  /\ cmd' \in [Commands -> Calls]
           /\ \A d \in Commands : d # c => cmd'[d] = cmd[d]
           /\ cmd'[c].pc = pc
           /\ cmd'[c].kind = cmd[c].kind /\ cmd'[c].inputs = cmd[c].inputs
           /\ cmd'[c].output = cmd[c].output /\ cmd'[c].in = cmd[c].in /\ cmd'[c].out = cmd[c].out
           /\ cmd'[c].opened = cmd[c].opened /\ cmd'[c].done = cmd[c].done
           /\ cmd'[c].from = cmd[c].from
<1> DEFINE r == [cmd[c] EXCEPT !.pc = pc]
<1>1. cmd[c] \in Calls
  BY DEF TypeOK
<1>2. /\ r \in Calls /\ r.pc = pc
      /\ r.kind = cmd[c].kind /\ r.inputs = cmd[c].inputs
      /\ r.output = cmd[c].output /\ r.in = cmd[c].in /\ r.out = cmd[c].out
      /\ r.opened = cmd[c].opened /\ r.done = cmd[c].done /\ r.from = cmd[c].from
  BY <1>1 DEF Calls
<1>3. cmd' = [cmd EXCEPT ![c] = r]
  BY DEF Goto
<1> HIDE DEF r
<1>4. QED  BY <1>2, <1>3 DEF TypeOK

LEMMA EndsIs ==
    ASSUME TypeOK, NEW c \in Commands, Ends(c)
    PROVE  /\ CallStep(c) /\ ~Busy(c)' /\ cmd'[c].pc = "idle"
<1>1. /\ cmd' \in [Commands -> Calls]
      /\ \A d \in Commands : d # c => cmd'[d] = cmd[d]
      /\ cmd'[c] = Idle
  BY IdleIs DEF Ends, TypeOK
<1>2. QED  BY <1>1, IdleIs DEF CallStep, Busy

\* What is left of the files when those that nobody can reach are gone.
LEMMA SweptIs ==
    ASSUME NEW s \in [Inodes -> Contents], store' = Swept(s)
    PROVE  /\ store' \in [Inodes -> Contents]
           /\ \A i \in Inodes : store'[i] \in {s[i], Empty}
           /\ \A p \in Paths : dir'[p] \in Inodes => store'[dir'[p]] = s[dir'[p]]
           /\ \A d \in Commands : cmd'[d].out \in Inodes => store'[cmd'[d].out] = s[cmd'[d].out]
BY ContentsAre DEF Swept

LEMMA EvenIs ==
    /\ Empty.form = "plain" => Empty.blocks = Empty.size
    /\ Mixed.form = "plain" => Mixed.blocks = Mixed.size
    /\ \A d, n : Plain(d, n).form = "plain" => Plain(d, n).blocks = Plain(d, n).size
    /\ \A d, n, m, h : Cipher(d, n, m, h).form # "plain"
BY DEF Empty, Mixed, Plain, Cipher

\* A sweep alone writes nothing.
LEMMA SweepStep ==
    ASSUME TypeOK, BlocksOK, NEW c \in Commands, store' = Swept(store),
           dir' \in [Paths -> Inodes \cup {NoInode}]
    PROVE  /\ StoreStep(c) /\ store' \in [Inodes -> Contents]
           /\ \A i \in Inodes : store'[i].form = "plain" => store'[i].blocks = store'[i].size
           /\ \A p \in Paths : dir'[p] = dir[p] => At(p)' = At(p)
           /\ \A p, q \in Paths : dir'[p] = dir[q] => At(p)' = At(q)
           /\ \A d \in Commands : cmd'[d].out \in Inodes => store'[cmd'[d].out] = store[cmd'[d].out]
<1>1. store \in [Inodes -> Contents]
  BY DEF TypeOK
<1>2. /\ store' \in [Inodes -> Contents]
      /\ \A i \in Inodes : store'[i] \in {store[i], Empty}
      /\ \A p \in Paths : dir'[p] \in Inodes => store'[dir'[p]] = store[dir'[p]]
      /\ \A d \in Commands : cmd'[d].out \in Inodes => store'[cmd'[d].out] = store[cmd'[d].out]
  BY <1>1, SweptIs
<1>3. \A p \in Paths : dir'[p] # NoInode => store'[dir'[p]] = store[dir'[p]]
  BY <1>2
<1>4. StoreStep(c)
  BY <1>3 DEF StoreStep
<1>5. \A i \in Inodes : store'[i].form = "plain" => store'[i].blocks = store'[i].size
  BY <1>2, EvenIs DEF BlocksOK
<1>6. \A p, q \in Paths : dir'[p] = dir[q] => At(p)' = At(q)
  BY <1>3 DEF At
<1>7. QED  BY <1>2, <1>4, <1>5, <1>6

-----------------------------------------------------------------------------
(* The steps of a call *)

LEMMA NothingWritten ==
    ASSUME TypeOK, BlocksOK, NEW c \in Commands, UNCHANGED <<dir, store>>
    PROVE  /\ DirStep(c) /\ StoreStep(c) /\ store' \in [Inodes -> Contents]
           /\ \A i \in Inodes : store'[i].form = "plain" => store'[i].blocks = store'[i].size
           /\ \A p \in Paths : At(p)' = At(p)
BY DEF DirStep, StoreStep, TypeOK, BlocksOK, At

\* What a step that changes neither of them leaves of a call.
LEMMA SameCall ==
    ASSUME NEW c \in Commands, cmd'[c].kind = cmd[c].kind, cmd'[c].inputs = cmd[c].inputs,
           cmd'[c].output = cmd[c].output, cmd'[c].from = cmd[c].from
    PROVE  /\ Input(c)' = Input(c) /\ To(c)' = To(c) /\ TempOf(c)' = TempOf(c)
           /\ cmd'[c].opened = cmd[c].opened => Taken(c)' = Taken(c) /\ Made(c)' = Made(c)
BY DEF Input, To, TempOf, Taken, Made

\* Three forms of a step: one that ends the call, ...
LEMMA EndStep ==
    ASSUME TypeOK, NEW c \in Commands, Ends(c), DirStep(c), StoreStep(c),
           store' \in [Inodes -> Contents],
           \A i \in Inodes : store'[i].form = "plain" => store'[i].blocks = store'[i].size,
           UNCHANGED <<starts, losses, spoiled>>
    PROVE  StepOK(c)
BY EndsIs DEF StepOK, TypeOK, Alone

\* ... one that goes on, ...
LEMMA GoStep ==
    ASSUME TypeOK, CallsOK, AloneOK, NEW c \in Commands, Busy(c), NEW pc, Goto(c, pc),
           pc \in {"check", "open", "prepare", "work", "close", "remove", "rename", "wipe",
                   "unlink", "clean"},
           pc \notin {"prepare", "work", "close"} => cmd[c].in = NoInode /\ cmd[c].out = NoInode,
           pc \in {"check", "open", "prepare"} => cmd[c].done = 0,
           DirStep(c), StoreStep(c), store' \in [Inodes -> Contents],
           \A i \in Inodes : store'[i].form = "plain" => store'[i].blocks = store'[i].size,
           UNCHANGED <<starts, losses, spoiled>>,
           Alone(c) => SourceOK(c)' /\ InputOK(c)' /\ OutputOK(c)'
    PROVE  StepOK(c)
<1>1. /\ cmd' \in [Commands -> Calls]
      /\ \A d \in Commands : d # c => cmd'[d] = cmd[d]
      /\ cmd'[c].pc = pc
      /\ cmd'[c].kind = cmd[c].kind /\ cmd'[c].inputs = cmd[c].inputs
      /\ cmd'[c].output = cmd[c].output /\ cmd'[c].in = cmd[c].in /\ cmd'[c].out = cmd[c].out
      /\ cmd'[c].opened = cmd[c].opened /\ cmd'[c].done = cmd[c].done
      /\ cmd'[c].from = cmd[c].from
  BY GotoIs
<1>2. CallStep(c)
  BY <1>1 DEF CallStep
<1>3. Alone(c)' => Alone(c)
  BY <1>1 DEF Alone, To
<1>4. QED  BY <1>2, <1>3 DEF StepOK, TypeOK

LEMMA BeginStep ==
    ASSUME IInv, NEW c \in Commands, Begin(c)
    PROVE  StepOK(c) /\ Busy(c)
<1>0. TypeOK /\ CallsOK /\ NamesOK /\ BlocksOK /\ AloneOK
  BY DEF IInv, NeverHalf
<1>1. Busy(c) /\ cmd[c].pc = "begin" /\ cmd[c].in = NoInode /\ cmd[c].out = NoInode /\ cmd[c].done = 0
  BY <1>0 DEF Begin, In, Busy, CallsOK
<1>2. /\ To(c) \in Names /\ TempOf(c) \in Paths \ Names /\ Input(c) \in Names /\ Input(c) \in Paths
  BY <1>0, <1>1, BusyIs
<1>3. PICK pc \in {"check", "open"} : Goto(c, pc) /\ (pc = "open" => cmd[c].kind = "encrypt")
  <2>1. cmd[c].kind \in {"encrypt", "decrypt"}
    BY <1>0 DEF TypeOK, Calls
  <2>2. QED  BY <2>1 DEF Begin
<1>4. /\ dir' = [dir EXCEPT ![TempOf(c)] = NoInode] /\ store' = Swept(store)
      /\ UNCHANGED <<starts, losses, spoiled>>
  BY DEF Begin, Deleted
<1>5. DirStep(c) /\ dir' \in [Paths -> Inodes \cup {NoInode}]
  BY <1>0, <1>4 DEF DirStep, TypeOK
<1>6. /\ StoreStep(c) /\ store' \in [Inodes -> Contents]
      /\ \A i \in Inodes : store'[i].form = "plain" => store'[i].blocks = store'[i].size
      /\ \A p \in Paths : dir'[p] = dir[p] => At(p)' = At(p)
  BY <1>0, <1>4, <1>5, SweepStep
<1>7. /\ cmd'[c].pc = pc /\ cmd'[c].kind = cmd[c].kind /\ cmd'[c].inputs = cmd[c].inputs
      /\ cmd'[c].output = cmd[c].output /\ cmd'[c].from = cmd[c].from
  BY <1>0, <1>3, GotoIs
<1>8. Input(c)' = Input(c) /\ TempOf(c)' = TempOf(c)
  BY <1>7, SameCall
<1>9. ASSUME Alone(c) PROVE SourceOK(c)' /\ InputOK(c)' /\ OutputOK(c)'
  <2>1. SourceOK(c) /\ InputOK(c)
    BY <1>0, <1>9 DEF AloneOK
  <2>2. SourceOK(c)'
    BY <1>3, <1>7, <2>1 DEF SourceOK
  <2>3. InputOK(c)'
    <3>1. dir'[Input(c)] = dir[Input(c)]
      BY <1>0, <1>2, <1>4 DEF TypeOK
    <3>2. At(Input(c))' = At(Input(c))
      <4>1. PICK p \in Paths : p = Input(c)
        BY <1>2
      <4>2. At(p)' = At(p)
        BY <1>6, <3>1, <4>1
      <4>3. QED  BY <1>8, <4>1, <4>2 DEF At
    <3>3. QED  BY <1>1, <1>3, <1>7, <1>8, <2>1, <3>1, <3>2 DEF InputOK
  <2>4. OutputOK(c)'
    <3>1. dir'[TempOf(c)] = NoInode
      BY <1>0, <1>2, <1>4 DEF TypeOK
    <3>2. QED  BY <1>3, <1>7, <1>8, <3>1 DEF OutputOK
  <2>5. QED  BY <2>2, <2>3, <2>4
<1>10. QED  BY <1>0, <1>1, <1>3, <1>4, <1>5, <1>6, <1>9, GoStep

LEMMA CheckStep ==
    ASSUME IInv, NEW c \in Commands, Check(c)
    PROVE  StepOK(c) /\ Busy(c)
<1>0. TypeOK /\ CallsOK /\ NamesOK /\ BlocksOK /\ AloneOK
  BY DEF IInv, NeverHalf
<1>1. Busy(c) /\ cmd[c].pc = "check" /\ cmd[c].in = NoInode /\ cmd[c].out = NoInode /\ cmd[c].done = 0
  BY <1>0 DEF Check, In, Busy, CallsOK
<1>2. UNCHANGED <<dir, store, starts, losses, spoiled>>
  BY DEF Check
<1>3. /\ DirStep(c) /\ StoreStep(c) /\ store' \in [Inodes -> Contents]
      /\ \A i \in Inodes : store'[i].form = "plain" => store'[i].blocks = store'[i].size
  BY <1>0, <1>2, NothingWritten
<1>4. CASE Ends(c)
  BY <1>0, <1>1, <1>2, <1>3, <1>4, EndStep
<1>5. CASE HasHeader(At(Input(c))) /\ Goto(c, "open")
  <2>1. /\ cmd'[c].pc = "open" /\ cmd'[c].kind = cmd[c].kind /\ cmd'[c].inputs = cmd[c].inputs
        /\ cmd'[c].output = cmd[c].output /\ cmd'[c].from = cmd[c].from
    BY <1>0, <1>5, GotoIs
  <2>2. Input(c)' = Input(c) /\ TempOf(c)' = TempOf(c)
    BY <2>1, SameCall
  <2>3. ASSUME Alone(c) PROVE SourceOK(c)' /\ InputOK(c)' /\ OutputOK(c)'
    <3>1. SourceOK(c) /\ InputOK(c) /\ OutputOK(c)
      BY <1>0, <2>3 DEF AloneOK
    <3>2. HasHeader(cmd[c].from)
      BY <1>1, <1>5, <3>1 DEF InputOK
    <3>3. SourceOK(c)'
      BY <2>1, <3>1, <3>2 DEF SourceOK
    <3>4. InputOK(c)'
      BY <1>1, <1>2, <2>1, <2>2, <3>1 DEF InputOK, At
    <3>5. OutputOK(c)'
      BY <1>1, <1>2, <2>1, <2>2, <3>1 DEF OutputOK
    <3>6. QED  BY <3>3, <3>4, <3>5
  <2>4. QED  BY <1>0, <1>1, <1>2, <1>3, <1>5, <2>3, GoStep
<1>6. QED  BY <1>1, <1>4, <1>5 DEF Check

LEMMA OpenStep ==
    ASSUME IInv, NEW c \in Commands, Open(c)
    PROVE  StepOK(c) /\ Busy(c)
<1>0. TypeOK /\ CallsOK /\ NamesOK /\ BlocksOK /\ AloneOK
  BY DEF IInv, NeverHalf
<1>1. Busy(c) /\ cmd[c].pc = "open" /\ cmd[c].done = 0 /\ In(c, "open")
  BY <1>0 DEF Open, OpenAt, In, Busy, CallsOK
<1>2. /\ To(c) \in Names /\ TempOf(c) \in Paths \ Names /\ Input(c) \in Names /\ Input(c) \in Paths
  BY <1>0, <1>1, BusyIs
<1>3. PICK in \in {dir[Input(c)], NoInode} : \E written \in BOOLEAN :
          LET old == dir[TempOf(c)]
              out == CASE ~written -> NoInode
                       [] written /\ old # NoInode -> old
                       [] OTHER -> NewInode
          IN /\ cmd' = [cmd EXCEPT ![c].pc = "prepare", ![c].in = in, ![c].out = out,
                                   ![c].opened = (in # NoInode)]
             /\ IF written
                THEN /\ dir' = [dir EXCEPT ![TempOf(c)] = out]
                     /\ store' = [store EXCEPT ![out] = Empty]
                ELSE UNCHANGED <<dir, store>>
  BY DEF Open, OpenAt
<1>4. PICK written \in BOOLEAN :
          LET old == dir[TempOf(c)]
              out == CASE ~written -> NoInode
                       [] written /\ old # NoInode -> old
                       [] OTHER -> NewInode
          IN /\ cmd' = [cmd EXCEPT ![c].pc = "prepare", ![c].in = in, ![c].out = out,
                                   ![c].opened = (in # NoInode)]
             /\ IF written
                THEN /\ dir' = [dir EXCEPT ![TempOf(c)] = out]
                     /\ store' = [store EXCEPT ![out] = Empty]
                ELSE UNCHANGED <<dir, store>>
  BY <1>3
<1> DEFINE out == IF ~written THEN NoInode
                  ELSE IF dir[TempOf(c)] # NoInode THEN dir[TempOf(c)] ELSE NewInode
           r == [cmd[c] EXCEPT !.pc = "prepare", !.in = in, !.out = out, !.opened = (in # NoInode)]
<1>5. /\ cmd' = [cmd EXCEPT ![c] = r]
      /\ written => dir' = [dir EXCEPT ![TempOf(c)] = out] /\ store' = [store EXCEPT ![out] = Empty]
      /\ ~written => UNCHANGED <<dir, store>>
  BY <1>4
<1>6. NewInode \in Inodes /\ Free(NewInode)
  BY <1>0, <1>1, NewInodeIs
<1>7. /\ out \in Inodes \cup {NoInode} /\ in \in Inodes \cup {NoInode}
      /\ written => out \in Inodes
      /\ ~written => out = NoInode
      /\ out \in {NoInode, dir[TempOf(c)]} \/ (out = NewInode /\ dir[TempOf(c)] = NoInode /\ written)
  BY <1>0, <1>2, <1>6, InodesAre DEF TypeOK
<1> HIDE DEF out
<1>8. /\ r \in Calls /\ r.pc = "prepare" /\ r.in = in /\ r.out = out /\ (r.opened <=> in # NoInode)
      /\ r.kind = cmd[c].kind /\ r.inputs = cmd[c].inputs /\ r.output = cmd[c].output
      /\ r.done = cmd[c].done /\ r.from = cmd[c].from
  <2>1. cmd[c] \in Calls
    BY <1>0 DEF TypeOK
  <2> PICK b \in BOOLEAN : b = (in # NoInode)
    OBVIOUS
  <2>2. r = [cmd[c] EXCEPT !.pc = "prepare", !.in = in, !.out = out, !.opened = b]
    OBVIOUS
  <2> HIDE DEF r
  <2>3. r \in Calls
    BY <1>7, <2>1, <2>2 DEF Calls
  <2>4. r.pc = "prepare" /\ r.in = in /\ r.out = out /\ r.opened = b
    BY <2>1, <2>2 DEF Calls
  <2>5. /\ r.kind = cmd[c].kind /\ r.inputs = cmd[c].inputs /\ r.output = cmd[c].output
        /\ r.done = cmd[c].done /\ r.from = cmd[c].from
    BY <2>1, <2>2 DEF Calls
  <2>6. QED  BY <2>3, <2>4, <2>5
<1> HIDE DEF r
<1>9. /\ cmd' \in [Commands -> Calls] /\ cmd'[c] = r
      /\ \A d \in Commands : d # c => cmd'[d] = cmd[d]
  BY <1>0, <1>5, <1>8 DEF TypeOK
<1>10. dir'[TempOf(c)] = out \/ (~written /\ UNCHANGED dir)
  BY <1>0, <1>2, <1>5 DEF TypeOK
<1>11. CallStep(c)
  <2>1. out # NoInode => out = dir'[TempOf(c)]
    BY <1>7, <1>10
  <2>2. QED  BY <1>1, <1>8, <1>9, <2>1 DEF CallStep
<1>12. DirStep(c)
  <2>1. CASE ~written
    BY <2>1, <1>5 DEF DirStep
  <2>2. CASE written /\ out = dir[TempOf(c)]
    <3>1. dir' = dir
      BY <2>2, <1>0, <1>2, <1>5 DEF TypeOK
    <3>2. QED  BY <3>1 DEF DirStep
  <2>3. CASE written /\ out = NewInode
    BY <2>3, <1>5, <1>6 DEF DirStep
  <2>4. QED  BY <1>7, <2>1, <2>2, <2>3, InodesAre
<1>13. store' \in [Inodes -> Contents]
       /\ (\A i \in Inodes : i # out => store'[i] = store[i])
       /\ (out \in Inodes => store'[out] = Empty)
  BY <1>0, <1>5, <1>7, ContentsAre, InodesAre DEF TypeOK
<1>14. StoreStep(c)
  <2>1. out \in {NoInode, cmd[c].out, dir[TempOf(c)]} \/ \A p \in Paths : dir[p] # out
    BY <1>6, <1>7 DEF Free
  <2>2. \A p \in Paths : dir'[p] \in Inodes \cup {NoInode}
    BY <1>0, <1>5, <1>7 DEF TypeOK
  <2>3. \A p \in Paths : dir'[p] \notin {NoInode, out} => store'[dir'[p]] = store[dir'[p]]
    BY <1>13, <2>2
  <2>4. QED  BY <2>1, <2>3 DEF StoreStep
<1>15. \A i \in Inodes : store'[i].form = "plain" => store'[i].blocks = store'[i].size
  BY <1>0, <1>13, EvenIs DEF BlocksOK
<1>16. /\ Input(c)' = Input(c) /\ To(c)' = To(c) /\ TempOf(c)' = TempOf(c)
  BY <1>8, <1>9, SameCall
<1>17. ASSUME Alone(c)' PROVE SourceOK(c)' /\ InputOK(c)' /\ OutputOK(c)'
  <2>1. Alone(c) /\ To(c) \notin spoiled
    BY <1>1, <1>16, <1>17 DEF Alone, Open, OpenAt
  <2>2. SourceOK(c) /\ InputOK(c) /\ OutputOK(c)
    BY <1>0, <2>1 DEF AloneOK
  <2>3. SourceOK(c)'
    BY <1>1, <1>8, <1>9, <2>2 DEF SourceOK
  <2>4. dir'[Input(c)] = dir[Input(c)]
    BY <1>0, <1>2, <1>5 DEF TypeOK
  <2>5. At(Input(c))' = At(Input(c))
    <3>1. PICK p \in Paths : p = Input(c)
      BY <1>2
    <3>2. At(p)' = At(p)
      BY <1>0, <1>1, <1>2, <1>12, <1>14, <2>1, <2>4, <3>1, Untouched
    <3>3. QED  BY <1>16, <3>1, <3>2 DEF At
  <2>6. InputOK(c)'
    <3>1. dir[Input(c)] # NoInode /\ At(Input(c)) = cmd[c].from
      BY <1>1, <2>2 DEF InputOK
    <3>2. dir'[Input(c)'] # NoInode /\ At(Input(c))' = cmd'[c].from
      BY <1>8, <1>9, <1>16, <2>4, <2>5, <3>1
    <3>3. in = IF in # NoInode THEN dir[Input(c)] ELSE NoInode
      BY <1>3
    <3>4. cmd'[c].in = IF cmd'[c].opened THEN dir'[Input(c)'] ELSE NoInode
      BY <1>8, <1>9, <1>16, <2>4, <3>3
    <3>5. QED  BY <3>2, <3>4 DEF InputOK
  <2>7. dir'[TempOf(c)] = out
    BY <1>1, <1>7, <1>10, <2>2 DEF OutputOK
  <2>8. Draft(c)' = Empty
    BY <1>1, <1>8, <1>9 DEF Draft
  <2>9. OutputOK(c)'
    BY <1>7, <1>8, <1>9, <1>13, <1>16, <2>7, <2>8 DEF OutputOK
  <2>10. QED  BY <2>3, <2>6, <2>9
<1>18. UNCHANGED <<starts, losses, spoiled>> /\ losses \in 0 .. MaxLosses
  BY <1>0 DEF Open, OpenAt, TypeOK
<1>19. QED  BY <1>1, <1>11, <1>12, <1>13, <1>14, <1>15, <1>17, <1>18 DEF StepOK

\* A call that ends, with the temporary file or without.
LEMMA EndSwept ==
    ASSUME TypeOK, CallsOK, BlocksOK, NEW c \in Commands, Busy(c), Ends(c),
           Deleted(TempOf(c)) \/ UNCHANGED dir,
           store' = Swept(store), UNCHANGED <<starts, losses, spoiled>>
    PROVE  StepOK(c)
<1>1. TempOf(c) \in Paths
  BY BusyIs
<1>2. DirStep(c) /\ dir' \in [Paths -> Inodes \cup {NoInode}]
  BY <1>1 DEF Deleted, DirStep, TypeOK
<1>3. /\ StoreStep(c) /\ store' \in [Inodes -> Contents]
      /\ \A i \in Inodes : store'[i].form = "plain" => store'[i].blocks = store'[i].size
  BY <1>2, SweepStep
<1>4. QED  BY <1>2, <1>3, EndStep

LEMMA FailStep ==
    ASSUME IInv, NEW c \in Commands, PrepareFails(c) \/ WorkFails(c) \/ Unlink(c)
    PROVE  StepOK(c) /\ Busy(c)
<1>0. TypeOK /\ CallsOK /\ NamesOK /\ BlocksOK /\ AloneOK
  BY DEF IInv, NeverHalf
<1>1. /\ Busy(c) /\ Ends(c) /\ (Deleted(TempOf(c)) \/ UNCHANGED dir)
      /\ store' = Swept(store) /\ UNCHANGED <<starts, losses, spoiled>>
  BY DEF PrepareFails, WorkFails, Unlink, Busy, In
<1>2. QED  BY <1>0, <1>1, EndSwept

\* What a call takes in and makes, if nobody has met it there.
LEMMA MadeIs ==
    ASSUME TypeOK, BlocksOK, NEW c \in Commands, SourceOK(c), cmd[c].pc \notin {"begin", "check"}
    PROVE  /\ Taken(c) \in Contents /\ Whole(Taken(c)) /\ Taken(c).blocks = Taken(c).size
           /\ Taken(c).blocks = 0 => Taken(c).doc = NoDocument
           /\ cmd[c].kind = "encrypt" => Taken(c).form = "plain"
           /\ Whole(Made(c)) /\ Made(c).doc = Taken(c).doc
<1>1. cmd[c].kind \in {"encrypt", "decrypt"} /\ cmd[c].from \in Contents
  BY DEF TypeOK, Calls
<1>2. Taken(c) \in Contents
  BY <1>1, ContentsAre DEF Taken
<1>3. Whole(Taken(c)) /\ Taken(c).blocks = Taken(c).size
  <2>1. CASE cmd[c].opened
    <3>1. Whole(cmd[c].from)
      BY DEF SourceOK
    <3>2. cmd[c].from.blocks = cmd[c].from.size
      BY <3>1 DEF Whole, HashMatches, BlocksOK
    <3>3. QED  BY <2>1, <3>1, <3>2 DEF Taken
  <2>2. CASE ~cmd[c].opened
    BY <2>2 DEF Taken, Empty, Plain, Whole, Length
  <2>3. QED  BY <2>1, <2>2
<1>4. Taken(c).blocks = 0 => Taken(c).doc = NoDocument
  BY <1>3, FileAssumption DEF Whole, Length
<1>5. cmd[c].kind = "encrypt" => Taken(c).form = "plain"
  BY DEF SourceOK, Taken, Empty, Plain
<1>6. Taken(c).size = Length(Taken(c).doc)
  BY <1>3 DEF Whole
<1> DEFINE x == Taken(c)
<1> HIDE DEF x
<1>7. /\ Cipher(x.doc, x.blocks, x.blocks, TRUE).doc = x.doc
      /\ x.blocks = Length(x.doc) => Whole(Cipher(x.doc, x.blocks, x.blocks, TRUE))
      /\ Plain(x.doc, x.size).doc = x.doc
      /\ x.size = Length(x.doc) => Whole(Plain(x.doc, x.size))
  BY DEF Cipher, Plain, Whole, HashMatches, HasHeader
<1>8. Whole(Made(c)) /\ Made(c).doc = Taken(c).doc
  BY <1>3, <1>6, <1>7 DEF Made, Result, x
<1>9. QED  BY <1>2, <1>3, <1>4, <1>5, <1>8

LEMMA SourceIs ==
    ASSUME TypeOK, NEW c \in Commands, SourceOK(c), InputOK(c), cmd[c].pc \in {"prepare", "work"}
    PROVE  Read(cmd[c].in) = Taken(c) /\ Source(c) = Taken(c)
<1>1. Read(cmd[c].in) = Taken(c)
  BY DEF InputOK, Taken, Read, At
<1>2. cmd[c].kind = "encrypt" => Data(Taken(c)) = Taken(c)
  BY DEF SourceOK, Data, Taken, Empty, Plain
<1>3. QED  BY <1>1, <1>2 DEF Source

LEMMA PrepareStep ==
    ASSUME IInv, NEW c \in Commands, Prepare(c)
    PROVE  StepOK(c) /\ Busy(c)
<1>0. TypeOK /\ CallsOK /\ NamesOK /\ BlocksOK /\ AloneOK
  BY DEF IInv, NeverHalf
<1>1. Busy(c) /\ cmd[c].pc = "prepare" /\ cmd[c].done = 0
  BY <1>0 DEF Prepare, In, Busy, CallsOK
<1>2. UNCHANGED <<dir, store, starts, losses, spoiled>>
  BY DEF Prepare
<1>3. /\ DirStep(c) /\ StoreStep(c) /\ store' \in [Inodes -> Contents]
      /\ \A i \in Inodes : store'[i].form = "plain" => store'[i].blocks = store'[i].size
  BY <1>0, <1>2, NothingWritten
<1>4. PICK pc \in {"close", "work"} :
         /\ Goto(c, pc)
         /\ pc = "close" => cmd[c].kind = "decrypt" /\ ~HasHeader(Read(cmd[c].in))
         /\ pc = "work" => (cmd[c].kind = "decrypt" => HasHeader(Read(cmd[c].in)))
  BY DEF Prepare
<1>5. /\ cmd'[c].pc = pc /\ cmd'[c].kind = cmd[c].kind /\ cmd'[c].inputs = cmd[c].inputs
      /\ cmd'[c].output = cmd[c].output /\ cmd'[c].from = cmd[c].from
      /\ cmd'[c].in = cmd[c].in /\ cmd'[c].out = cmd[c].out
      /\ cmd'[c].opened = cmd[c].opened /\ cmd'[c].done = cmd[c].done
  BY <1>0, <1>4, GotoIs
<1>6. /\ Input(c)' = Input(c) /\ TempOf(c)' = TempOf(c)
      /\ Taken(c)' = Taken(c) /\ Made(c)' = Made(c)
  BY <1>5, SameCall
<1>7. ASSUME Alone(c) PROVE SourceOK(c)' /\ InputOK(c)' /\ OutputOK(c)'
  <2>1. SourceOK(c) /\ InputOK(c) /\ OutputOK(c)
    BY <1>0, <1>7 DEF AloneOK
  <2>2. SourceOK(c)'
    BY <1>1, <1>4, <1>5, <2>1 DEF SourceOK
  <2>3. InputOK(c)'
    BY <1>1, <1>2, <1>5, <1>6, <2>1 DEF InputOK, At
  <2>4. Read(cmd[c].in) = Taken(c)
    BY <1>0, <1>1, <2>1, SourceIs
  <2>5. cmd[c].kind = "decrypt" => (HasHeader(Taken(c)) <=> cmd[c].opened)
    BY <1>1, <2>1 DEF SourceOK, Taken, Empty, Plain, HasHeader
  <2>6. /\ dir[TempOf(c)] = cmd[c].out
        /\ cmd[c].out # NoInode => store[cmd[c].out] = Empty
    BY <1>1, <2>1 DEF OutputOK, Draft
  <2>7. CASE pc = "close"
    <3>1. ~cmd[c].opened /\ cmd[c].kind = "decrypt"
      BY <1>4, <2>4, <2>5, <2>7
    <3>2. Taken(c) = Empty /\ Made(c) = Empty /\ Empty.doc = NoDocument
      BY <3>1 DEF Taken, Made, Result, Empty, Plain
    <3>3. At(TempOf(c)) = Empty
      BY <2>6 DEF At
    <3>4. At(TempOf(c))' = At(TempOf(c))
      BY <1>2, <1>6 DEF At
    <3>5. OutputOK(c)'
      BY <1>2, <1>5, <1>6, <2>6, <2>7, <3>2, <3>3, <3>4 DEF OutputOK
    <3>6. QED  BY <2>2, <2>3, <3>5
  <2>8. CASE pc = "work"
    <3>1. cmd[c].kind = "decrypt" => cmd[c].opened
      BY <1>4, <2>4, <2>5, <2>8
    <3>2. Taken(c).blocks \in Nat
      BY <1>0, <1>1, <2>1, MadeIs DEF Contents
    <3>3. Draft(c)' = Empty
      BY <1>1, <1>5 DEF Draft
    <3>4. OutputOK(c)'
      BY <1>1, <1>2, <1>5, <1>6, <2>6, <2>8, <3>1, <3>2, <3>3 DEF OutputOK
    <3>5. QED  BY <2>2, <2>3, <3>4
  <2>9. QED  BY <2>7, <2>8
<1>8. QED  BY <1>0, <1>1, <1>2, <1>3, <1>4, <1>7, GoStep

\* A write of a call that is alone hits its own temporary file only.
LEMMA WrittenIs ==
    ASSUME TypeOK, CallsOK, MeetingsSpoil, NamesOK, BlocksOK, AloneOK, NEW c \in Commands,
           cmd[c].pc = "work", cmd[c].out # NoInode, NEW x \in Contents,
           x.form = "plain" => x.blocks = x.size, Written(c, x), UNCHANGED dir
    PROVE  /\ DirStep(c) /\ StoreStep(c) /\ store' \in [Inodes -> Contents]
           /\ \A i \in Inodes : store'[i].form = "plain" => store'[i].blocks = store'[i].size
           /\ Alone(c) => store'[cmd[c].out] = x
           /\ \A p \in Paths : p # TempOf(c) /\ (p = To(c) => p \notin spoiled) => At(p)' = At(p)
<1>1. cmd[c].out \in Inodes /\ Busy(c)
  BY DEF TypeOK, Calls, Busy
<1>2. PICK y \in {Mixed, x} : store' = [store EXCEPT ![cmd[c].out] = y]
  BY DEF Written
<1>3. y \in Contents /\ (y.form = "plain" => y.blocks = y.size)
  BY ContentsAre, EvenIs
<1>4. /\ store' \in [Inodes -> Contents] /\ store'[cmd[c].out] = y
      /\ \A i \in Inodes : i # cmd[c].out => store'[i] = store[i]
  BY <1>1, <1>2, <1>3 DEF TypeOK
<1>5. \A i \in Inodes : store'[i].form = "plain" => store'[i].blocks = store'[i].size
  BY <1>3, <1>4 DEF BlocksOK
<1>6. DirStep(c)
  BY DEF DirStep
<1>7. StoreStep(c)
  <2>1. \A p \in Paths : dir'[p] \notin {NoInode, cmd[c].out} => store'[dir'[p]] = store[dir'[p]]
    BY <1>4 DEF TypeOK
  <2>2. QED  BY <2>1 DEF StoreStep
<1>8. \A p \in Paths : p # TempOf(c) /\ (p = To(c) => p \notin spoiled) => At(p)' = At(p)
  BY <1>1, <1>6, <1>7, Untouched
<1>9. ASSUME Alone(c) PROVE store'[cmd[c].out] = x
  <2>1. ASSUME NEW d \in Commands, d # c, cmd[d].out = cmd[c].out PROVE FALSE
    <3>1. dir[TempOf(c)] = cmd[d].out /\ TempOf(c) \in Paths \ Names
      BY <1>1, <1>9, <2>1, BusyIs DEF AloneOK, OutputOK
    <3>2. Busy(d)
      BY <2>1 DEF CallsOK, Busy
    <3>3. TempOf(c) = TempOf(d) \/ TempOf(c) = To(d)
      BY <2>1, <3>1 DEF NamesOK
    <3>4. To(c) = To(d)
      BY <1>1, <3>1, <3>2, <3>3, BusyIs, TempIs DEF TempOf
    <3>5. QED  BY <1>1, <1>9, <2>1, <3>2, <3>4 DEF MeetingsSpoil, Alone
  <2>2. store' = [store EXCEPT ![cmd[c].out] = x]
    BY <2>1 DEF Written
  <2>3. QED  BY <1>1, <2>2 DEF TypeOK
<1>10. QED  BY <1>4, <1>5, <1>6, <1>7, <1>8, <1>9

LEMMA SourceType ==
    ASSUME TypeOK, NEW c \in Commands
    PROVE  Source(c).blocks \in 0 .. Size /\ Source(c).doc \in Documents \cup {NoDocument}
<1>1. cmd[c].in \in Inodes \cup {NoInode}
  BY DEF TypeOK, Calls
<1>2. Read(cmd[c].in) \in Contents
  BY <1>1, ContentsAre DEF Read, TypeOK
<1>3. 0 \in 0 .. Size
  BY FileAssumption
<1>4. QED  BY <1>2, <1>3 DEF Source, Data, Contents, Plain

LEMMA WriteBlockStep ==
    ASSUME IInv, NEW c \in Commands, WriteBlock(c)
    PROVE  StepOK(c) /\ Busy(c)
<1>0. TypeOK /\ CallsOK /\ NamesOK /\ BlocksOK /\ AloneOK /\ MeetingsSpoil
  BY DEF IInv, NeverHalf
<1>1. Busy(c) /\ cmd[c].pc = "work" /\ cmd[c].out # NoInode
  BY DEF WriteBlock, In, Busy
<1> DEFINE n == cmd[c].done + 1
           x == IF cmd[c].kind = "encrypt" THEN Cipher(Source(c).doc, n, n, FALSE)
                                           ELSE Plain(Source(c).doc, n)
           r == [cmd[c] EXCEPT !.done = n]
<1>2. n \in 0 .. Size /\ n \in Nat \ {0} /\ n <= Source(c).blocks
  <2>1. cmd[c].done \in 0 .. Size /\ Size \in Nat
    BY <1>0, FileAssumption DEF TypeOK, Calls
  <2>2. Source(c).blocks \in 0 .. Size /\ cmd[c].done < Source(c).blocks
    BY <1>0, SourceType DEF WriteBlock
  <2>3. QED  BY <2>1, <2>2
<1>3. /\ Written(c, x) /\ cmd' = [cmd EXCEPT ![c] = r]
      /\ UNCHANGED <<dir, starts, losses, spoiled>>
  BY DEF WriteBlock
<1> HIDE DEF n
<1>4. x \in Contents /\ (x.form = "plain" => x.blocks = x.size)
  <2>1. FALSE \in BOOLEAN
    OBVIOUS
  <2>2. QED  BY <1>0, <1>2, <2>1, SourceType, ContentsAre, EvenIs
<1> HIDE DEF x
<1>5. /\ DirStep(c) /\ StoreStep(c) /\ store' \in [Inodes -> Contents]
      /\ \A i \in Inodes : store'[i].form = "plain" => store'[i].blocks = store'[i].size
      /\ Alone(c) => store'[cmd[c].out] = x
      /\ \A p \in Paths : p # TempOf(c) /\ (p = To(c) => p \notin spoiled) => At(p)' = At(p)
  BY <1>0, <1>1, <1>3, <1>4, WrittenIs
<1>6. /\ r \in Calls /\ r.pc = "work" /\ r.done = n
      /\ r.kind = cmd[c].kind /\ r.inputs = cmd[c].inputs /\ r.output = cmd[c].output
      /\ r.in = cmd[c].in /\ r.out = cmd[c].out /\ r.opened = cmd[c].opened
      /\ r.from = cmd[c].from
  BY <1>0, <1>1, <1>2 DEF TypeOK, Calls
<1> HIDE DEF r
<1>7. /\ cmd' \in [Commands -> Calls] /\ cmd'[c] = r
      /\ \A d \in Commands : d # c => cmd'[d] = cmd[d]
  BY <1>0, <1>3, <1>6 DEF TypeOK
<1>8. CallStep(c)
  BY <1>6, <1>7 DEF CallStep
<1>9. /\ Input(c)' = Input(c) /\ To(c)' = To(c) /\ TempOf(c)' = TempOf(c)
      /\ Taken(c)' = Taken(c) /\ Made(c)' = Made(c)
  BY <1>6, <1>7, SameCall
<1>10. ASSUME Alone(c)' PROVE SourceOK(c)' /\ InputOK(c)' /\ OutputOK(c)'
  <2>1. Alone(c) /\ To(c) \notin spoiled
    BY <1>1, <1>3, <1>9, <1>10 DEF Alone
  <2>2. SourceOK(c) /\ InputOK(c) /\ OutputOK(c)
    BY <1>0, <2>1 DEF AloneOK
  <2>3. SourceOK(c)'
    BY <1>1, <1>6, <1>7, <2>2 DEF SourceOK
  <2>4. Input(c) \in Paths /\ Input(c) # TempOf(c)
    BY <1>0, <1>1, BusyIs
  <2>5. At(Input(c))' = At(Input(c))
    <3>1. PICK p \in Paths : p = Input(c)
      BY <2>4
    <3>2. At(p)' = At(p)
      BY <1>5, <2>1, <2>4, <3>1
    <3>3. QED  BY <1>9, <3>1, <3>2 DEF At
  <2>6. InputOK(c)'
    BY <1>1, <1>3, <1>6, <1>7, <1>9, <2>2, <2>5 DEF InputOK
  <2>7. Source(c) = Taken(c)
    BY <1>0, <1>1, <2>2, SourceIs
  <2>8. Taken(c).doc = cmd[c].from.doc
    <3>1. Taken(c) # Empty
      BY <1>2, <2>7 DEF Empty, Plain
    <3>2. QED  BY <3>1 DEF Taken
  <2>9. x = Draft(c)'
    <3>1. n # 0
      BY <1>2
    <3>2. QED  BY <1>6, <1>7, <2>7, <2>8, <3>1 DEF x, Draft
  <2>10. OutputOK(c)'
    BY <1>1, <1>2, <1>3, <1>5, <1>6, <1>7, <1>9, <2>1, <2>2, <2>7, <2>9 DEF OutputOK
  <2>11. QED  BY <2>3, <2>6, <2>10
<1>11. QED  BY <1>0, <1>1, <1>3, <1>5, <1>8, <1>10 DEF StepOK, TypeOK

LEMMA FinishDataStep ==
    ASSUME IInv, NEW c \in Commands, FinishData(c)
    PROVE  StepOK(c) /\ Busy(c)
<1>0. TypeOK /\ CallsOK /\ NamesOK /\ BlocksOK /\ AloneOK /\ MeetingsSpoil
  BY DEF IInv, NeverHalf
<1>1. Busy(c) /\ cmd[c].pc = "work" /\ Goto(c, "close") /\ UNCHANGED <<dir, starts, losses, spoiled>>
  BY DEF FinishData, In, Busy
<1>2. /\ cmd'[c].pc = "close" /\ cmd'[c].kind = cmd[c].kind /\ cmd'[c].inputs = cmd[c].inputs
      /\ cmd'[c].output = cmd[c].output /\ cmd'[c].from = cmd[c].from
      /\ cmd'[c].in = cmd[c].in /\ cmd'[c].out = cmd[c].out
      /\ cmd'[c].opened = cmd[c].opened /\ cmd'[c].done = cmd[c].done
  BY <1>0, <1>1, GotoIs
<1>3. /\ Input(c)' = Input(c) /\ To(c)' = To(c) /\ TempOf(c)' = TempOf(c)
      /\ Taken(c)' = Taken(c) /\ Made(c)' = Made(c)
  BY <1>2, SameCall
<1>4. Input(c) \in Paths /\ Input(c) # TempOf(c)
  BY <1>0, <1>1, BusyIs
\* What is left to show: the output is made.
<1>5. ASSUME Alone(c), At(Input(c))' = At(Input(c)),
             SourceOK(c), InputOK(c), OutputOK(c),
             cmd[c].out = NoInode => Taken(c).doc = NoDocument,
             cmd[c].out # NoInode => store'[cmd[c].out] = Made(c)
      PROVE  SourceOK(c)' /\ InputOK(c)' /\ OutputOK(c)'
  <2>1. SourceOK(c)'
    BY <1>1, <1>2, <1>5 DEF SourceOK
  <2>2. InputOK(c)'
    BY <1>1, <1>2, <1>3, <1>5 DEF InputOK
  <2>3. dir'[TempOf(c)] = cmd[c].out
    BY <1>1, <1>5 DEF OutputOK
  <2>4. cmd[c].out # NoInode => At(TempOf(c))' = Made(c)
    BY <1>3, <1>5, <2>3 DEF At
  <2>5. OutputOK(c)'
    BY <1>2, <1>3, <1>5, <2>3, <2>4 DEF OutputOK
  <2>6. QED  BY <2>1, <2>2, <2>5
<1>6. ASSUME Alone(c)
      PROVE  /\ SourceOK(c) /\ InputOK(c) /\ OutputOK(c)
             /\ Source(c) = Taken(c)
             /\ cmd[c].done = Taken(c).blocks
             /\ Taken(c).blocks = Taken(c).size
             /\ Taken(c).blocks = 0 => Taken(c).doc = NoDocument
  <2>1. SourceOK(c) /\ InputOK(c) /\ OutputOK(c)
    BY <1>0, <1>6 DEF AloneOK
  <2>2. Source(c) = Taken(c)
    BY <1>0, <1>1, <2>1, SourceIs
  <2>3. cmd[c].done >= Taken(c).blocks /\ cmd[c].done <= Taken(c).blocks
    BY <1>1, <2>1, <2>2 DEF FinishData, OutputOK
  <2>4. /\ Taken(c).blocks \in 0 .. Size /\ Taken(c).blocks = Taken(c).size
        /\ Taken(c).blocks = 0 => Taken(c).doc = NoDocument
    BY <1>0, <1>1, <2>1, MadeIs DEF Contents
  <2>5. cmd[c].done \in 0 .. Size
    BY <1>0 DEF TypeOK, Calls
  <2>6. QED  BY <2>1, <2>2, <2>3, <2>4, <2>5
<1>7. CASE cmd[c].kind = "encrypt"
  <2> DEFINE x == Cipher(IF cmd[c].done = 0 THEN NoDocument ELSE Source(c).doc,
                         cmd[c].done, cmd[c].done, TRUE)
  <2>1. Written(c, x) /\ cmd[c].out # NoInode
    BY <1>7 DEF FinishData
  <2>2. x \in Contents /\ x.form # "plain"
    <3>1. cmd[c].done \in 0 .. Size /\ TRUE \in BOOLEAN
      BY <1>0 DEF TypeOK, Calls
    <3>2. (IF cmd[c].done = 0 THEN NoDocument ELSE Source(c).doc) \in Documents \cup {NoDocument}
      BY <1>0, SourceType
    <3>3. QED  BY <3>1, <3>2, ContentsAre, EvenIs
  <2> HIDE DEF x
  <2>3. /\ DirStep(c) /\ StoreStep(c) /\ store' \in [Inodes -> Contents]
        /\ \A i \in Inodes : store'[i].form = "plain" => store'[i].blocks = store'[i].size
        /\ Alone(c) => store'[cmd[c].out] = x
        /\ \A p \in Paths : p # TempOf(c) /\ (p = To(c) => p \notin spoiled) => At(p)' = At(p)
    BY <1>0, <1>1, <2>1, <2>2, WrittenIs
  <2>4. ASSUME Alone(c) PROVE SourceOK(c)' /\ InputOK(c)' /\ OutputOK(c)'
    <3>1. x = Made(c)
      BY <1>6, <1>7, <2>4 DEF x, Made, Result
    <3>2. At(Input(c))' = At(Input(c))
      <4>1. PICK p \in Paths : p = Input(c)
        BY <1>4
      <4>2. At(p)' = At(p)
        BY <1>4, <2>3, <2>4, <4>1 DEF Alone
      <4>3. QED  BY <1>3, <4>1, <4>2 DEF At
    <3>3. QED  BY <1>5, <1>6, <2>1, <2>3, <2>4, <3>1, <3>2
  <2>5. QED  BY <1>0, <1>1, <2>3, <2>4, GoStep
<1>8. CASE cmd[c].kind # "encrypt"
  <2>1. UNCHANGED store /\ HashMatches(Source(c)) /\ cmd[c].kind = "decrypt"
    BY <1>0, <1>8 DEF FinishData, TypeOK, Calls
  <2>2. /\ DirStep(c) /\ StoreStep(c) /\ store' \in [Inodes -> Contents]
        /\ \A i \in Inodes : store'[i].form = "plain" => store'[i].blocks = store'[i].size
    BY <1>0, <1>1, <2>1, NothingWritten
  <2>3. ASSUME Alone(c) PROVE SourceOK(c)' /\ InputOK(c)' /\ OutputOK(c)'
    <3>1. At(Input(c))' = At(Input(c))
      BY <1>1, <1>3, <2>1 DEF At
    <3>2. cmd[c].opened /\ Taken(c) = cmd[c].from
      BY <1>1, <1>6, <2>1, <2>3 DEF OutputOK, Taken
    <3>3. cmd[c].out # NoInode => store[cmd[c].out] = Draft(c)
      BY <1>1, <1>6, <2>3 DEF OutputOK
    <3>4. Draft(c) = Made(c)
      BY <1>6, <2>1, <2>3, <3>2 DEF Draft, Made, Result, Empty
    <3>5. cmd[c].out = NoInode => Taken(c).doc = NoDocument
      <4>1. cmd[c].out = NoInode => ~(cmd[c].done > 0)
        BY <1>1, <1>6, <2>3 DEF OutputOK
      <4>2. cmd[c].done \in Nat
        BY <1>0 DEF TypeOK, Calls
      <4>3. QED  BY <1>6, <2>3, <4>1, <4>2
    <3>6. QED  BY <1>5, <1>6, <2>1, <2>3, <3>1, <3>3, <3>4, <3>5
  <2>4. QED  BY <1>0, <1>1, <2>2, <2>3, GoStep
<1>9. QED  BY <1>7, <1>8

\* The call after its handles are closed.
LEMMA ClosedIs ==
    ASSUME TypeOK, NEW c \in Commands, Closed(c)
    PROVE  /\ CallStep(c)
           /\ cmd'[c].pc = "remove" /\ cmd'[c].kind = cmd[c].kind
           /\ cmd'[c].inputs = cmd[c].inputs /\ cmd'[c].output = cmd[c].output
           /\ cmd'[c].from = cmd[c].from /\ cmd'[c].opened = cmd[c].opened
           /\ cmd'[c].out = NoInode
<1> DEFINE r == [cmd[c] EXCEPT !.pc = "remove", !.in = NoInode, !.out = NoInode]
<1>1. /\ r \in Calls /\ r.pc = "remove" /\ r.in = NoInode /\ r.out = NoInode
      /\ r.kind = cmd[c].kind /\ r.inputs = cmd[c].inputs /\ r.output = cmd[c].output
      /\ r.opened = cmd[c].opened /\ r.from = cmd[c].from
  <2>1. cmd[c] \in Calls
    BY DEF TypeOK
  <2>2. r \in Calls
    BY <2>1 DEF Calls
  <2>3. r.pc = "remove" /\ r.in = NoInode /\ r.out = NoInode
    BY <2>1 DEF Calls
  <2>4. /\ r.kind = cmd[c].kind /\ r.inputs = cmd[c].inputs /\ r.output = cmd[c].output
        /\ r.opened = cmd[c].opened /\ r.from = cmd[c].from
    BY <2>1 DEF Calls
  <2>5. QED  BY <2>2, <2>3, <2>4
<1>2. cmd' = [cmd EXCEPT ![c] = r]
  BY DEF Closed
<1> HIDE DEF r
<1>3. /\ cmd' \in [Commands -> Calls] /\ cmd'[c] = r
      /\ \A d \in Commands : d # c => cmd'[d] = cmd[d]
  BY <1>1, <1>2 DEF TypeOK
<1>4. QED  BY <1>1, <1>3 DEF CallStep

LEMMA CloseStep ==
    ASSUME IInv, NEW c \in Commands, Close(c)
    PROVE  StepOK(c) /\ Busy(c)
<1>0. TypeOK /\ CallsOK /\ NamesOK /\ BlocksOK /\ AloneOK
  BY DEF IInv, NeverHalf
<1>1. /\ Busy(c) /\ cmd[c].pc = "close" /\ Closed(c) /\ store' = Swept(store)
      /\ UNCHANGED <<dir, starts, losses, spoiled>>
  BY DEF Close, In, Busy
<1>2. /\ CallStep(c)
      /\ cmd'[c].pc = "remove" /\ cmd'[c].kind = cmd[c].kind
      /\ cmd'[c].inputs = cmd[c].inputs /\ cmd'[c].output = cmd[c].output
      /\ cmd'[c].from = cmd[c].from /\ cmd'[c].opened = cmd[c].opened
  BY <1>0, <1>1, ClosedIs
<1>3. DirStep(c) /\ dir' \in [Paths -> Inodes \cup {NoInode}] /\ TempOf(c) \in Paths
  BY <1>0, <1>1, BusyIs DEF DirStep, TypeOK
<1>4. /\ StoreStep(c) /\ store' \in [Inodes -> Contents]
      /\ \A i \in Inodes : store'[i].form = "plain" => store'[i].blocks = store'[i].size
      /\ \A p \in Paths : dir'[p] = dir[p] => At(p)' = At(p)
  BY <1>0, <1>1, <1>3, SweepStep
<1>5. /\ Input(c)' = Input(c) /\ To(c)' = To(c) /\ TempOf(c)' = TempOf(c)
      /\ Taken(c)' = Taken(c) /\ Made(c)' = Made(c)
  BY <1>2, SameCall
<1>6. ASSUME Alone(c)' PROVE SourceOK(c)' /\ InputOK(c)' /\ OutputOK(c)'
  <2>1. Alone(c)
    BY <1>1, <1>5, <1>6 DEF Alone
  <2>2. SourceOK(c) /\ InputOK(c) /\ OutputOK(c)
    BY <1>0, <2>1 DEF AloneOK
  <2>3. SourceOK(c)'
    BY <1>1, <1>2, <2>2 DEF SourceOK
  <2>4. InputOK(c)'
    BY <1>2 DEF InputOK
  <2>5. At(TempOf(c))' = At(TempOf(c))
    <3>1. PICK p \in Paths : p = TempOf(c)
      BY <1>3
    <3>2. At(p)' = At(p)
      BY <1>1, <1>4
    <3>3. QED  BY <1>5, <3>1, <3>2 DEF At
  <2>6. OutputOK(c)'
    BY <1>1, <1>2, <1>5, <2>2, <2>5 DEF OutputOK
  <2>7. QED  BY <2>3, <2>4, <2>6
<1>7. QED  BY <1>0, <1>1, <1>2, <1>3, <1>4, <1>6 DEF StepOK, TypeOK

LEMMA CloseLosesStep ==
    ASSUME IInv, NEW c \in Commands, CloseLoses(c)
    PROVE  StepOK(c) /\ Busy(c)
<1>0. TypeOK /\ CallsOK /\ NamesOK /\ BlocksOK /\ AloneOK
  BY DEF IInv, NeverHalf
<1>1. /\ Busy(c) /\ cmd[c].pc = "close" /\ Closed(c) /\ cmd[c].out # NoInode
      /\ UNCHANGED <<dir, starts>> /\ spoiled' = spoiled \cup {To(c)}
      /\ losses < MaxLosses /\ losses' = losses + 1
  BY DEF CloseLoses, In, Busy
<1>2. CallStep(c) /\ cmd'[c].output = cmd[c].output
  BY <1>0, <1>1, ClosedIs
<1>3. PICK x \in Torn(store[cmd[c].out]) : store' = Swept([store EXCEPT ![cmd[c].out] = x])
  BY DEF CloseLoses
<1>4. cmd[c].out \in Inodes
  BY <1>0, <1>1 DEF TypeOK, Calls
<1>5. x \in Contents /\ (x.form = "plain" => x.blocks = x.size)
  <2>1. store[cmd[c].out] \in Contents
    BY <1>0, <1>4 DEF TypeOK
  <2>2. PICK n \in 0 .. store[cmd[c].out].blocks :
           x = [store[cmd[c].out] EXCEPT !.blocks = n,
                   !.size = IF store[cmd[c].out].form = "plain" THEN n ELSE store[cmd[c].out].size]
    BY DEF Torn
  <2>3. n \in 0 .. Size
    BY <2>1, FileAssumption DEF Contents
  <2>4. QED  BY <2>1, <2>2, <2>3 DEF Contents
<1> DEFINE s == [store EXCEPT ![cmd[c].out] = x]
<1>6. s \in [Inodes -> Contents] /\ \A i \in Inodes : s[i] = IF i = cmd[c].out THEN x ELSE store[i]
  BY <1>0, <1>4, <1>5 DEF TypeOK
<1> HIDE DEF s
<1>7. /\ store' \in [Inodes -> Contents]
      /\ \A i \in Inodes : store'[i] \in {s[i], Empty}
      /\ \A p \in Paths : dir'[p] \in Inodes => store'[dir'[p]] = s[dir'[p]]
  BY <1>3, <1>6, SweptIs DEF s
<1>8. \A i \in Inodes : store'[i].form = "plain" => store'[i].blocks = store'[i].size
  BY <1>0, <1>5, <1>6, <1>7, EvenIs DEF BlocksOK
<1>9. DirStep(c)
  BY <1>1 DEF DirStep
<1>10. StoreStep(c)
  <2>1. \A p \in Paths : dir'[p] \notin {NoInode, cmd[c].out} => store'[dir'[p]] = store[dir'[p]]
    BY <1>0, <1>1, <1>6, <1>7 DEF TypeOK
  <2>2. QED  BY <2>1 DEF StoreStep
<1>11. ~Alone(c)'
  BY <1>1, <1>2 DEF Alone, To
<1>12. losses' \in 0 .. MaxLosses
  BY <1>0, <1>1, FileAssumption DEF TypeOK
<1>13. QED  BY <1>1, <1>2, <1>7, <1>8, <1>9, <1>10, <1>11, <1>12 DEF StepOK

LEMMA RemoveStep ==
    ASSUME IInv, NEW c \in Commands, Remove(c)
    PROVE  StepOK(c) /\ Busy(c)
<1>0. TypeOK /\ CallsOK /\ NamesOK /\ BlocksOK /\ AloneOK
  BY DEF IInv, NeverHalf
<1>1. /\ Busy(c) /\ cmd[c].pc = "remove" /\ cmd[c].in = NoInode /\ cmd[c].out = NoInode
      /\ Goto(c, "rename") /\ store' = Swept(store)
      /\ UNCHANGED <<starts, losses, spoiled>>
      /\ dir' \in {dir, [dir EXCEPT ![To(c)] = NoInode]}
  BY <1>0 DEF Remove, In, Busy, Deleted, CallsOK
<1>2. /\ cmd'[c].pc = "rename" /\ cmd'[c].kind = cmd[c].kind
      /\ cmd'[c].inputs = cmd[c].inputs /\ cmd'[c].output = cmd[c].output
      /\ cmd'[c].from = cmd[c].from /\ cmd'[c].opened = cmd[c].opened
  BY <1>0, <1>1, GotoIs
<1>3. To(c) \in Paths /\ TempOf(c) \in Paths /\ To(c) # TempOf(c)
  BY <1>0, <1>1, BusyIs
<1>4. DirStep(c) /\ dir' \in [Paths -> Inodes \cup {NoInode}] /\ dir'[TempOf(c)] = dir[TempOf(c)]
  BY <1>0, <1>1, <1>3 DEF DirStep, TypeOK
<1>5. /\ StoreStep(c) /\ store' \in [Inodes -> Contents]
      /\ \A i \in Inodes : store'[i].form = "plain" => store'[i].blocks = store'[i].size
      /\ \A p \in Paths : dir'[p] = dir[p] => At(p)' = At(p)
  BY <1>0, <1>1, <1>4, SweepStep
<1>6. /\ Input(c)' = Input(c) /\ To(c)' = To(c) /\ TempOf(c)' = TempOf(c)
      /\ Taken(c)' = Taken(c) /\ Made(c)' = Made(c)
  BY <1>2, SameCall
<1>7. ASSUME Alone(c) PROVE SourceOK(c)' /\ InputOK(c)' /\ OutputOK(c)'
  <2>1. SourceOK(c) /\ InputOK(c) /\ OutputOK(c)
    BY <1>0, <1>7 DEF AloneOK
  <2>2. SourceOK(c)'
    BY <1>1, <1>2, <2>1 DEF SourceOK
  <2>3. InputOK(c)'
    BY <1>2 DEF InputOK
  <2>4. At(TempOf(c))' = At(TempOf(c))
    <3>1. PICK p \in Paths : p = TempOf(c)
      BY <1>3
    <3>2. At(p)' = At(p)
      BY <1>4, <1>5, <3>1
    <3>3. QED  BY <1>6, <3>1, <3>2 DEF At
  <2>5. OutputOK(c)'
    BY <1>1, <1>2, <1>4, <1>6, <2>1, <2>4 DEF OutputOK
  <2>6. QED  BY <2>2, <2>3, <2>5
<1>8. QED  BY <1>0, <1>1, <1>4, <1>5, <1>7, GoStep

LEMMA RenameStep ==
    ASSUME IInv, NEW c \in Commands, Rename(c)
    PROVE  StepOK(c) /\ Busy(c)
<1>0. TypeOK /\ CallsOK /\ NamesOK /\ BlocksOK /\ AloneOK
  BY DEF IInv, NeverHalf
<1>1. /\ Busy(c) /\ cmd[c].pc = "rename" /\ cmd[c].in = NoInode /\ cmd[c].out = NoInode
      /\ Goto(c, "clean") /\ store' = Swept(store)
      /\ UNCHANGED <<starts, losses, spoiled>> /\ dir[TempOf(c)] # NoInode
      /\ dir' = [dir EXCEPT ![To(c)] = dir[TempOf(c)], ![TempOf(c)] = NoInode]
  BY <1>0 DEF Rename, In, Busy, CallsOK
<1>2. /\ cmd'[c].pc = "clean" /\ cmd'[c].kind = cmd[c].kind
      /\ cmd'[c].inputs = cmd[c].inputs /\ cmd'[c].output = cmd[c].output
      /\ cmd'[c].from = cmd[c].from /\ cmd'[c].opened = cmd[c].opened
  BY <1>0, <1>1, GotoIs
<1>3. To(c) \in Paths /\ TempOf(c) \in Paths /\ To(c) # TempOf(c)
  BY <1>0, <1>1, BusyIs
<1>4. /\ dir' \in [Paths -> Inodes \cup {NoInode}]
      /\ dir'[To(c)] = dir[TempOf(c)] /\ dir'[TempOf(c)] = NoInode
  BY <1>0, <1>1, <1>3 DEF TypeOK
<1>5. /\ StoreStep(c) /\ store' \in [Inodes -> Contents]
      /\ \A i \in Inodes : store'[i].form = "plain" => store'[i].blocks = store'[i].size
      /\ \A p, q \in Paths : dir'[p] = dir[q] => At(p)' = At(q)
  BY <1>0, <1>1, <1>4, SweepStep
<1>6. /\ Input(c)' = Input(c) /\ To(c)' = To(c) /\ TempOf(c)' = TempOf(c)
      /\ Taken(c)' = Taken(c) /\ Made(c)' = Made(c)
  BY <1>2, SameCall
<1>7. At(To(c))' = At(TempOf(c)) /\ store'[dir'[To(c)]] = At(TempOf(c))
  <2>1. PICK p \in Paths : p = To(c)
    BY <1>3
  <2>2. PICK q \in Paths : q = TempOf(c)
    BY <1>3
  <2>3. At(p)' = At(q)
    BY <1>4, <1>5, <2>1, <2>2
  <2>4. QED  BY <1>1, <1>4, <1>6, <2>1, <2>2, <2>3 DEF At
<1>8. ASSUME Alone(c)
      PROVE  SourceOK(c) /\ OutputOK(c) /\ At(TempOf(c)) = Made(c) /\ Whole(Made(c))
  <2>1. SourceOK(c) /\ OutputOK(c)
    BY <1>0, <1>8 DEF AloneOK
  <2>2. QED  BY <1>0, <1>1, <2>1, MadeIs DEF OutputOK
<1>9. DirStep(c)
  BY <1>1, <1>4, <1>7, <1>8 DEF DirStep, Alone
<1>10. ASSUME Alone(c) PROVE SourceOK(c)' /\ InputOK(c)' /\ OutputOK(c)'
  <2>1. SourceOK(c)'
    BY <1>1, <1>2, <1>8, <1>10 DEF SourceOK
  <2>2. InputOK(c)'
    BY <1>2 DEF InputOK
  <2>3. OutputOK(c)'
    BY <1>1, <1>2, <1>4, <1>6, <1>7, <1>8, <1>10 DEF OutputOK
  <2>4. QED  BY <2>1, <2>2, <2>3
<1>11. QED  BY <1>0, <1>1, <1>5, <1>9, <1>10, GoStep

LEMMA RenameFailsStep ==
    ASSUME IInv, NEW c \in Commands, RenameFails(c)
    PROVE  StepOK(c) /\ Busy(c)
<1>0. TypeOK /\ CallsOK /\ NamesOK /\ BlocksOK /\ AloneOK
  BY DEF IInv, NeverHalf
<1>1. /\ Busy(c) /\ cmd[c].pc = "rename" /\ cmd[c].in = NoInode /\ cmd[c].out = NoInode
      /\ Goto(c, "wipe") /\ UNCHANGED <<dir, store, starts, losses, spoiled>>
  BY <1>0 DEF RenameFails, In, Busy, CallsOK
<1>2. /\ cmd'[c].pc = "wipe" /\ cmd'[c].kind = cmd[c].kind /\ cmd'[c].from = cmd[c].from
  BY <1>0, <1>1, GotoIs
<1>3. /\ DirStep(c) /\ StoreStep(c) /\ store' \in [Inodes -> Contents]
      /\ \A i \in Inodes : store'[i].form = "plain" => store'[i].blocks = store'[i].size
  BY <1>0, <1>1, NothingWritten
<1>4. ASSUME Alone(c) PROVE SourceOK(c)' /\ InputOK(c)' /\ OutputOK(c)'
  BY <1>0, <1>1, <1>2, <1>4 DEF AloneOK, SourceOK, InputOK, OutputOK
<1>5. QED  BY <1>0, <1>1, <1>3, <1>4, GoStep

LEMMA WipeStep ==
    ASSUME IInv, NEW c \in Commands, Wipe(c)
    PROVE  StepOK(c) /\ Busy(c)
<1>0. TypeOK /\ CallsOK /\ NamesOK /\ BlocksOK /\ AloneOK
  BY DEF IInv, NeverHalf
<1>1. /\ Busy(c) /\ cmd[c].pc = "wipe" /\ cmd[c].in = NoInode /\ cmd[c].out = NoInode
      /\ UNCHANGED <<dir, starts, losses, spoiled>>
  BY <1>0 DEF Wipe, In, Busy, CallsOK
<1>2. CASE Ends(c) /\ UNCHANGED store
  <2>1. /\ DirStep(c) /\ StoreStep(c) /\ store' \in [Inodes -> Contents]
        /\ \A i \in Inodes : store'[i].form = "plain" => store'[i].blocks = store'[i].size
    BY <1>0, <1>1, <1>2, NothingWritten
  <2>2. QED  BY <1>0, <1>1, <1>2, <2>1, EndStep
<1>3. CASE /\ Goto(c, "unlink") /\ dir[TempOf(c)] # NoInode
           /\ store' = [store EXCEPT ![dir[TempOf(c)]] = Mixed]
  <2>1. TempOf(c) \in Paths /\ dir[TempOf(c)] \in Inodes
    BY <1>0, <1>1, <1>3, BusyIs DEF TypeOK
  <2>2. /\ cmd'[c].pc = "unlink" /\ cmd'[c].kind = cmd[c].kind
        /\ cmd'[c].inputs = cmd[c].inputs /\ cmd'[c].output = cmd[c].output
        /\ cmd'[c].from = cmd[c].from
    BY <1>0, <1>3, GotoIs
  <2>3. TempOf(c)' = TempOf(c)
    BY <2>2, SameCall
  <2>4. /\ store' \in [Inodes -> Contents] /\ store'[dir[TempOf(c)]] = Mixed
        /\ \A i \in Inodes : i # dir[TempOf(c)] => store'[i] = store[i]
    BY <1>0, <1>3, <2>1, ContentsAre DEF TypeOK
  <2>5. \A i \in Inodes : store'[i].form = "plain" => store'[i].blocks = store'[i].size
    BY <1>0, <2>4, EvenIs DEF BlocksOK
  <2>6. StoreStep(c)
    <3>1. \A p \in Paths : dir'[p] \notin {NoInode, dir[TempOf(c)]} => store'[dir'[p]] = store[dir'[p]]
      BY <1>0, <1>1, <2>4 DEF TypeOK
    <3>2. QED  BY <3>1 DEF StoreStep
  <2>7. DirStep(c)
    BY <1>1 DEF DirStep
  <2>8. ASSUME Alone(c) PROVE SourceOK(c)' /\ InputOK(c)' /\ OutputOK(c)'
    <3>1. SourceOK(c)'
      BY <1>0, <1>1, <2>2, <2>8 DEF AloneOK, SourceOK
    <3>2. InputOK(c)'
      BY <2>2 DEF InputOK
    <3>3. At(TempOf(c))' = Mixed
      BY <1>1, <1>3, <2>3, <2>4 DEF At
    <3>4. OutputOK(c)'
      BY <2>2, <3>3 DEF OutputOK
    <3>5. QED  BY <3>1, <3>2, <3>4
  <2>9. QED  BY <1>0, <1>1, <1>3, <2>4, <2>5, <2>6, <2>7, <2>8, GoStep
<1>4. QED  BY <1>2, <1>3 DEF Wipe

LEMMA CrashStep ==
    ASSUME IInv, NEW c \in Commands, Crash(c), Busy(c)
    PROVE  StepOK(c)
BY EndSwept DEF IInv, NeverHalf, Crash

LEMMA CleanStep ==
    ASSUME IInv, NEW c \in Commands, Clean(c)
    PROVE  StepOK(c) /\ Busy(c)
<1>0. TypeOK /\ CallsOK /\ NamesOK /\ BlocksOK /\ AloneOK
  BY DEF IInv, NeverHalf
<1> DEFINE r == [Idle EXCEPT !.pc = "next", !.kind = cmd[c].kind,
                             !.inputs = Tail(cmd[c].inputs), !.output = To(c)]
<1>1. /\ Busy(c) /\ Deleted(TempOf(c)) /\ store' = Swept(store)
      /\ UNCHANGED <<starts, losses, spoiled>> /\ cmd' = [cmd EXCEPT ![c] = r]
  BY DEF Clean, In, Busy
<1>2. To(c) \in Names /\ TempOf(c) \in Paths
  BY <1>0, <1>1, BusyIs
<1>3. Tail(cmd[c].inputs) \in Seq(Names) /\ cmd[c].kind \in {"encrypt", "decrypt"}
  <2>1. cmd[c].inputs \in Seq(Names) /\ cmd[c].inputs # <<>>
    BY <1>0, <1>1 DEF TypeOK, CallsOK, Calls
  <2>2. QED  BY <1>0, <2>1, HeadTailProperties DEF TypeOK, Calls
<1>4. r \in Calls /\ r.pc = "next" /\ r.in = NoInode /\ r.out = NoInode /\ r.from = Empty
  BY <1>2, <1>3, IdleIs DEF Calls
<1> HIDE DEF r
<1>5. /\ cmd' \in [Commands -> Calls] /\ cmd'[c] = r
      /\ \A d \in Commands : d # c => cmd'[d] = cmd[d]
  BY <1>0, <1>1, <1>4 DEF TypeOK
<1>6. CallStep(c) /\ ~Busy(c)'
  BY <1>4, <1>5 DEF CallStep, Busy
<1>7. DirStep(c) /\ dir' \in [Paths -> Inodes \cup {NoInode}]
  BY <1>0, <1>1, <1>2 DEF DirStep, TypeOK, Deleted
<1>8. /\ StoreStep(c) /\ store' \in [Inodes -> Contents]
      /\ \A i \in Inodes : store'[i].form = "plain" => store'[i].blocks = store'[i].size
  BY <1>0, <1>1, <1>7, SweepStep
<1>9. QED  BY <1>0, <1>1, <1>6, <1>7, <1>8 DEF StepOK, TypeOK, Alone

-----------------------------------------------------------------------------
(* The steps between two files *)

\* A command between its files changes nothing that is named.
LEMMA BetweenStep ==
    ASSUME IInv, NEW c \in Commands, ~Busy(c), ~Busy(c)', cmd' \in [Commands -> Calls],
           \A d \in Commands : d # c => cmd'[d] = cmd[d],
           cmd'[c].in = NoInode, cmd'[c].out = NoInode, cmd'[c].from = Empty,
           UNCHANGED dir, store' \in {store, Swept(store)},
           starts' \in 0 .. MaxStarts, UNCHANGED <<losses, spoiled>>
    PROVE  IInv'
<1> USE DEF NeverHalf
<1>0. /\ TypeOK /\ CallsOK /\ MeetingsSpoil /\ NamesOK /\ BlocksOK /\ AloneOK
      /\ \A n \in Names \ spoiled : dir[n] # NoInode => Whole(store[dir[n]])
  BY DEF IInv
<1>1. /\ store' \in [Inodes -> Contents]
      /\ \A i \in Inodes : store'[i] \in {store[i], Empty}
      /\ \A p \in Paths : dir[p] # NoInode => store'[dir[p]] = store[dir[p]]
  <2>1. CASE store' = store
    BY <2>1, <1>0 DEF TypeOK
  <2>2. CASE store' = Swept(store)
    <3>1. store \in [Inodes -> Contents]
      BY <1>0 DEF TypeOK
    <3>2. /\ store' \in [Inodes -> Contents]
          /\ \A i \in Inodes : store'[i] \in {store[i], Empty}
          /\ \A p \in Paths : dir'[p] \in Inodes => store'[dir'[p]] = store[dir'[p]]
      BY <2>2, <3>1, SweptIs
    <3>3. QED  BY <3>2, <1>0 DEF TypeOK
  <2>3. QED  BY <2>1, <2>2
<1>2. TypeOK'
  BY <1>0, <1>1 DEF TypeOK
<1>3. CallsOK'
  BY <1>0 DEF CallsOK, Busy, To
<1>4. MeetingsSpoil'
  <2>1. ASSUME NEW d \in Commands, Busy(d)'
        PROVE  Busy(d) /\ Input(d)' = Input(d) /\ To(d)' = To(d)
    <3>1. d # c
      BY <2>1
    <3>2. QED  BY <2>1, <3>1 DEF Busy, Input, To
  <2>2. QED  BY <2>1, <1>0 DEF MeetingsSpoil
<1>5. NamesOK'
  BY <1>0 DEF NamesOK, To, TempOf
<1>6. BlocksOK'
  BY <1>0, <1>1, EvenIs DEF BlocksOK
<1>7. AloneOK'
  <2>1. SUFFICES ASSUME NEW d \in Commands, Alone(d)'
                 PROVE  SourceOK(d)' /\ InputOK(d)' /\ OutputOK(d)'
    BY DEF AloneOK
  <2>2. d # c /\ cmd'[d] = cmd[d]
    BY <2>1 DEF Alone
  <2>3. Alone(d)
    BY <2>1, <2>2 DEF Alone, Busy, To
  <2>4. SourceOK(d) /\ InputOK(d) /\ OutputOK(d)
    BY <1>0, <2>3 DEF AloneOK
  <2>5. {Input(d), To(d), TempOf(d)} \subseteq Paths
    BY <1>0, <2>3, BusyIs DEF Alone
  <2>6. /\ Input(d)' = Input(d) /\ To(d)' = To(d) /\ TempOf(d)' = TempOf(d)
        /\ Taken(d)' = Taken(d) /\ Made(d)' = Made(d) /\ Draft(d)' = Draft(d)
    BY <2>2 DEF Input, To, TempOf, Taken, Made, Draft
  <2>7. At(Input(d))' = At(Input(d)) /\ At(To(d))' = At(To(d)) /\ At(TempOf(d))' = At(TempOf(d))
    BY <1>1, <2>5, <2>6 DEF At
  <2>8. cmd[d].pc \in {"prepare", "work"} /\ cmd[d].out # NoInode =>
            store'[cmd[d].out] = store[cmd[d].out]
    BY <1>1, <2>4, <2>5 DEF OutputOK
  <2>9. QED  BY <2>2, <2>4, <2>6, <2>7, <2>8 DEF SourceOK, InputOK, OutputOK
<1>8. \A n \in Names \ spoiled : dir[n] # NoInode => Whole(store'[dir[n]])
  BY <1>0, <1>1, TempIs
<1>9. QED  BY <1>2, <1>3, <1>4, <1>5, <1>6, <1>7, <1>8 DEF IInv

LEMMA StartStep ==
    ASSUME IInv, NEW c \in Commands, Start(c)
    PROVE  IInv'
<1>0. TypeOK
  BY DEF IInv, NeverHalf
<1>1. PICK line \in CommandLines :
         cmd' = [cmd EXCEPT ![c] = [Idle EXCEPT !.pc = "next", !.kind = line.kind,
                                    !.inputs = line.inputs, !.output = line.output]]
  BY DEF Start
<1> DEFINE r == [Idle EXCEPT !.pc = "next", !.kind = line.kind,
                             !.inputs = line.inputs, !.output = line.output]
<1>2. /\ line.kind \in {"encrypt", "decrypt"} /\ line.inputs \in Seq(Names)
      /\ line.output \in Names \cup {NoPath}
  BY FileAssumption
<1>3. r \in Calls /\ r.pc = "next" /\ r.in = NoInode /\ r.out = NoInode /\ r.from = Empty
  BY <1>2, IdleIs DEF Calls
<1>4. cmd' = [cmd EXCEPT ![c] = r]
  BY <1>1
<1> HIDE DEF r
<1>5. /\ cmd' \in [Commands -> Calls] /\ cmd'[c] = r
      /\ \A d \in Commands : d # c => cmd'[d] = cmd[d]
  BY <1>0, <1>3, <1>4 DEF TypeOK
<1>6. starts' \in 0 .. MaxStarts
  BY <1>0, FileAssumption DEF Start, TypeOK
<1>7. ~Busy(c) /\ ~Busy(c)' /\ UNCHANGED <<dir, store, losses, spoiled>>
  BY <1>3, <1>5 DEF Start, Running, Busy
<1>8. QED  BY <1>3, <1>5, <1>6, <1>7, BetweenStep

\* A command that ends between two files.
LEMMA LeaveStep ==
    ASSUME IInv, NEW c \in Commands, ~Busy(c), Ends(c), UNCHANGED <<dir, starts, losses, spoiled>>,
           store' \in {store, Swept(store)}
    PROVE  IInv'
<1>0. TypeOK
  BY DEF IInv, NeverHalf
<1>1. /\ cmd' \in [Commands -> Calls] /\ cmd'[c] = Idle
      /\ \A d \in Commands : d # c => cmd'[d] = cmd[d]
  BY <1>0, IdleIs DEF Ends, TypeOK
<1>2. ~Busy(c)' /\ starts' \in 0 .. MaxStarts
  BY <1>0, <1>1, IdleIs DEF Busy, TypeOK
<1>3. QED  BY <1>1, <1>2, IdleIs, BetweenStep

LEMMA OutputIs ==
    ASSUME TypeOK, NEW c \in Commands, In(c, "next"), cmd[c].inputs # <<>>
    PROVE  Output(c) \in Names /\ Input(c) \in Names /\ Input(c) \in Paths
<1>1. /\ cmd[c].inputs \in Seq(Names) /\ cmd[c].output \in Names \cup {NoPath}
      /\ cmd[c].kind \in {"encrypt", "decrypt"}
  BY DEF TypeOK, Calls
<1>2. Input(c) \in Names
  BY <1>1, HeadTailProperties DEF Input
<1>3. [Input(c) EXCEPT !.ckm = (cmd[c].kind = "encrypt")] \in Names
  BY <1>2 DEF Names, Paths
<1>4. QED  BY <1>1, <1>2, <1>3, TempIs DEF Output

LEMMA OtherCall ==
    ASSUME TypeOK, NEW c \in Commands, NEW r \in Calls, cmd' = [cmd EXCEPT ![c] = r]
    PROVE  /\ cmd' \in [Commands -> Calls] /\ cmd'[c] = r
           /\ \A d \in Commands : d # c => cmd'[d] = cmd[d]
BY DEF TypeOK

\* A command comes to a file: what it spoils is what it could meet another one on.
LEMMA ComesStep ==
    ASSUME IInv, NEW c \in Commands, In(c, "next"), cmd[c].inputs # <<>>,
           dir[Input(c)] # NoInode,
           cmd' = [cmd EXCEPT ![c].pc = "begin", ![c].output = Output(c),
                              ![c].done = 0, ![c].from = At(Input(c))],
           spoiled' = spoiled \cup Spoils(c), UNCHANGED <<dir, store, starts, losses>>
    PROVE  IInv'
<1> USE DEF NeverHalf
<1>0. /\ TypeOK /\ CallsOK /\ MeetingsSpoil /\ NamesOK /\ BlocksOK /\ AloneOK
      /\ \A n \in Names \ spoiled : dir[n] # NoInode => Whole(store[dir[n]])
  BY DEF IInv
<1>1. Output(c) \in Names /\ Input(c) \in Names /\ Input(c) \in Paths
  BY <1>0, OutputIs
<1>2. /\ dir[Input(c)] \in Inodes /\ At(Input(c)) = store[dir[Input(c)]]
      /\ At(Input(c)) \in Contents
  BY <1>0, <1>1 DEF TypeOK, At
<1> DEFINE r == [cmd[c] EXCEPT !.pc = "begin", !.output = Output(c),
                               !.done = 0, !.from = At(Input(c))]
<1>3. /\ r \in Calls /\ r.pc = "begin" /\ r.output = Output(c) /\ r.done = 0
      /\ r.from = At(Input(c)) /\ r.kind = cmd[c].kind /\ r.inputs = cmd[c].inputs
      /\ r.in = NoInode /\ r.out = NoInode
  <2>1. cmd[c] \in Calls /\ cmd[c].in = NoInode /\ cmd[c].out = NoInode
    BY <1>0 DEF TypeOK, CallsOK, In
  <2>2. 0 \in 0 .. Size
    BY FileAssumption
  <2>3. QED  BY <1>1, <1>2, <2>1, <2>2 DEF Calls
<1>4. cmd' = [cmd EXCEPT ![c] = r]
  OBVIOUS
<1> HIDE DEF r
<1>5. /\ cmd' \in [Commands -> Calls] /\ cmd'[c] = r
      /\ \A d \in Commands : d # c => cmd'[d] = cmd[d]
  BY <1>0, <1>3, <1>4, OtherCall
<1>6. /\ Input(c)' = Input(c) /\ To(c)' = Output(c) /\ Busy(c)' /\ ~Busy(c)
  BY <1>3, <1>5 DEF Input, To, Busy, In
<1>7. \A d \in Commands : d # c =>
         /\ Busy(d)' <=> Busy(d)
         /\ Input(d)' = Input(d) /\ To(d)' = To(d) /\ TempOf(d)' = TempOf(d)
         /\ Taken(d)' = Taken(d) /\ Made(d)' = Made(d) /\ Draft(d)' = Draft(d)
  BY <1>5 DEF Busy, Input, To, TempOf, Taken, Made, Draft
<1>8. \A d \in Commands : d # c /\ Busy(d) /\ Clash(c, d) =>
         To(d) \in spoiled' /\ Output(c) \in spoiled'
  BY DEF Spoils, Busy
<1>9. Input(c) \in spoiled \/ Again(c) => Output(c) \in spoiled'
  BY DEF Spoils
<1>10. spoiled \subseteq spoiled' /\ spoiled' \subseteq Names
  <2>1. \A d \in Commands : Busy(d) => To(d) \in Names
    BY <1>0, BusyIs
  <2>2. QED  BY <1>0, <1>1, <2>1 DEF Spoils, Busy, TypeOK
<1>11. TypeOK'
  BY <1>0, <1>5, <1>10 DEF TypeOK
<1>12. CallsOK'
  <2>1. ASSUME NEW d \in Commands
        PROVE  /\ Busy(d)' => cmd'[d].inputs # <<>> /\ To(d)' \in Names
               /\ cmd'[d].pc \notin {"prepare", "work", "close"} =>
                     cmd'[d].in = NoInode /\ cmd'[d].out = NoInode
               /\ cmd'[d].pc \in {"begin", "check", "open", "prepare"} => cmd'[d].done = 0
    <3>1. CASE d = c
      BY <3>1, <1>1, <1>3, <1>5, <1>6
    <3>2. CASE d # c
      BY <3>2, <1>0, <1>5, <1>7 DEF CallsOK
    <3>3. QED  BY <3>1, <3>2
  <2>2. QED  BY <2>1 DEF CallsOK
<1>13. MeetingsSpoil'
  <2>1. SUFFICES ASSUME NEW d \in Commands, NEW e \in Commands, d # e, Busy(d)', Busy(e)',
                        To(e)' \in {Input(d)', To(d)'}
                 PROVE  To(d)' \in spoiled'
    BY DEF MeetingsSpoil
  <2>2. CASE d = c
    <3>1. Busy(e) /\ To(e) \in {Input(c), Output(c)}
      BY <2>1, <2>2, <1>6, <1>7
    <3>2. QED  BY <2>1, <2>2, <3>1, <1>6, <1>8 DEF Clash
  <2>3. CASE e = c
    <3>1. Busy(d) /\ Output(c) \in {Input(d), To(d)} /\ To(d)' = To(d)
      BY <2>1, <2>3, <1>6, <1>7
    <3>2. QED  BY <2>1, <2>3, <3>1, <1>8 DEF Clash
  <2>4. CASE d # c /\ e # c
    BY <2>1, <2>4, <1>0, <1>7, <1>10 DEF MeetingsSpoil
  <2>5. QED  BY <2>2, <2>3, <2>4
<1>14. NamesOK'
  <2>1. ASSUME NEW d \in Commands, NEW p \in Paths, dir[p] = cmd'[d].out, dir[p] # NoInode
        PROVE  p = TempOf(d)' \/ (p = To(d)' /\ To(d)' \in spoiled')
    <3>1. d # c
      BY <2>1, <1>3, <1>5
    <3>2. cmd'[d] = cmd[d] /\ To(d)' = To(d) /\ TempOf(d)' = TempOf(d)
      BY <3>1, <1>5, <1>7
    <3>3. p = TempOf(d) \/ (p = To(d) /\ To(d) \in spoiled)
      BY <2>1, <3>2, <1>0 DEF NamesOK
    <3>4. QED  BY <3>2, <3>3, <1>10
  <2>2. QED  BY <2>1, <1>0 DEF NamesOK
<1>15. BlocksOK'
  BY <1>0, <1>2, <1>3, <1>5 DEF BlocksOK
<1>16. AloneOK'
  <2>1. SUFFICES ASSUME NEW d \in Commands, Alone(d)'
                 PROVE  SourceOK(d)' /\ InputOK(d)' /\ OutputOK(d)'
    BY DEF AloneOK
  <2>2. CASE d # c
    <3>1. Alone(d)
      BY <2>1, <2>2, <1>7, <1>10 DEF Alone
    <3>2. SourceOK(d) /\ InputOK(d) /\ OutputOK(d)
      BY <1>0, <3>1 DEF AloneOK
    <3>3. At(Input(d))' = At(Input(d)) /\ At(To(d))' = At(To(d)) /\ At(TempOf(d))' = At(TempOf(d))
      BY <2>2, <1>7 DEF At
    <3>a. /\ cmd'[d] = cmd[d]
          /\ Input(d)' = Input(d) /\ To(d)' = To(d) /\ TempOf(d)' = TempOf(d)
          /\ Taken(d)' = Taken(d) /\ Made(d)' = Made(d) /\ Draft(d)' = Draft(d)
          /\ UNCHANGED <<dir, store>>
      BY <2>2, <1>5, <1>7
    <3>4. SourceOK(d)'
      BY <3>2, <3>a DEF SourceOK
    <3>5. InputOK(d)'
      BY <3>2, <3>3, <3>a DEF InputOK
    <3>6. OutputOK(d)'
      BY <3>2, <3>3, <3>a DEF OutputOK
    <3>7. QED  BY <3>4, <3>5, <3>6
  <2>3. CASE d = c
    <3>1. Input(c) \notin spoiled /\ ~Again(c)
      BY <2>1, <2>3, <1>6, <1>9 DEF Alone
    <3>2. Whole(At(Input(c)))
      BY <3>1, <1>0, <1>1, <1>2
    <3>3. SourceOK(c)'
      BY <3>1, <3>2, <1>3, <1>5 DEF SourceOK, Again
    <3>4. At(Input(c))' = At(Input(c))
      BY <1>6 DEF At
    <3>5. InputOK(c)'
      BY <3>4, <1>3, <1>5, <1>6 DEF InputOK
    <3>6. OutputOK(c)'
      BY <1>3, <1>5 DEF OutputOK
    <3>7. QED  BY <2>3, <3>3, <3>5, <3>6
  <2>4. QED  BY <2>2, <2>3
<1>17. \A n \in Names \ spoiled' : dir'[n] # NoInode => Whole(store'[dir'[n]])
  BY <1>0, <1>10
<1>18. QED  BY <1>11, <1>12, <1>13, <1>14, <1>15, <1>16, <1>17 DEF IInv

LEMMA NextFileStep ==
    ASSUME IInv, NEW c \in Commands, NextFile(c)
    PROVE  IInv'
<1>1. ~Busy(c)
  BY DEF NextFile, In, Busy
<1>2. CASE dir[Input(c)] = NoInode
  BY <1>1, <1>2, LeaveStep DEF NextFile
<1>3. CASE dir[Input(c)] # NoInode
  BY <1>3, ComesStep DEF NextFile
<1>4. QED  BY <1>2, <1>3

-----------------------------------------------------------------------------
(* The theorems *)

\* The steps of a call.
StepOfCall(c) ==
    \/ Begin(c) \/ Check(c) \/ Open(c) \/ PrepareFails(c) \/ Prepare(c)
    \/ WriteBlock(c) \/ FinishData(c) \/ WorkFails(c) \/ Close(c) \/ CloseLoses(c)
    \/ Remove(c) \/ Rename(c) \/ RenameFails(c) \/ Wipe(c) \/ Unlink(c) \/ Clean(c)

LEMMA StepOfCallOK ==
    ASSUME IInv, NEW c \in Commands, StepOfCall(c)
    PROVE  StepOK(c) /\ Busy(c)
<1>1. CASE \/ Begin(c) \/ Check(c) \/ Open(c) \/ PrepareFails(c) \/ Prepare(c)
           \/ WriteBlock(c) \/ FinishData(c) \/ WorkFails(c)
  BY <1>1, BeginStep, CheckStep, OpenStep, FailStep, PrepareStep, WriteBlockStep, FinishDataStep
<1>2. CASE \/ Close(c) \/ CloseLoses(c) \/ Remove(c) \/ Rename(c) \/ RenameFails(c)
           \/ Wipe(c) \/ Unlink(c) \/ Clean(c)
  BY <1>2, CloseStep, CloseLosesStep, RemoveStep, RenameStep, RenameFailsStep, WipeStep,
     FailStep, CleanStep
<1>3. QED  BY <1>1, <1>2 DEF StepOfCall

\* Every step of the specification keeps the invariant.
LEMMA NextIInv == IInv /\ [Next]_vars => IInv'
<1> SUFFICES ASSUME IInv, [Next]_vars PROVE IInv'
  OBVIOUS
<1>1. CASE UNCHANGED vars
  <2>1. NeverHalf'
    BY <1>1 DEF vars, IInv, NeverHalf, TypeOK
  <2>2. \A c \in Commands :
           /\ Busy(c)' <=> Busy(c)
           /\ Alone(c)' <=> Alone(c)
           /\ Input(c)' = Input(c) /\ To(c)' = To(c) /\ TempOf(c)' = TempOf(c)
           /\ Taken(c)' = Taken(c) /\ Made(c)' = Made(c) /\ Draft(c)' = Draft(c)
           /\ At(Input(c))' = At(Input(c)) /\ At(To(c))' = At(To(c))
           /\ At(TempOf(c))' = At(TempOf(c))
    BY <1>1 DEF vars, Alone, Busy, To, TempOf, Input, At, Taken, Made, Draft
  <2>3. CallsOK' /\ MeetingsSpoil'
    BY <1>1, <2>2 DEF vars, IInv, CallsOK, MeetingsSpoil
  <2>4. NamesOK' /\ BlocksOK'
    BY <1>1, <2>2 DEF vars, IInv, NamesOK, BlocksOK
  <2>5. ASSUME NEW c \in Commands, Alone(c)'
        PROVE  SourceOK(c)' /\ InputOK(c)' /\ OutputOK(c)'
    <3>1. SourceOK(c) /\ InputOK(c) /\ OutputOK(c)
      BY <2>2, <2>5 DEF IInv, AloneOK
    <3>2. QED  BY <1>1, <2>2, <3>1 DEF vars, SourceOK, InputOK, OutputOK
  <2>6. QED  BY <2>1, <2>3, <2>4, <2>5 DEF IInv, AloneOK
<1>2. ASSUME NEW c \in Commands, Start(c) \/ NextFile(c) PROVE IInv'
  BY <1>2, StartStep, NextFileStep
<1>3. ASSUME NEW c \in Commands, NoFileLeft(c) PROVE IInv'
  <2>1. ~Busy(c)
    BY <1>3 DEF NoFileLeft, In, Busy
  <2>2. QED  BY <1>3, <2>1, LeaveStep DEF NoFileLeft
<1>4. ASSUME NEW c \in Commands, Crash(c) PROVE IInv'
  <2>1. CASE Busy(c)
    BY <1>4, <2>1, CrashStep, StepInv
  <2>2. CASE ~Busy(c)
    BY <1>4, <2>2, LeaveStep DEF Crash
  <2>3. QED  BY <2>1, <2>2
<1>5. ASSUME NEW c \in Commands, StepOfCall(c) PROVE IInv'
  BY <1>5, StepOfCallOK, StepInv
<1>6. QED  BY <1>1, <1>2, <1>3, <1>4, <1>5 DEF Next, StepOfCall

\* The inductive invariant: for any commands, documents, sizes and command lines, a
\* command that has met no other one owns its temporary name, in which a draft becomes
\* what the call makes of its input.
THEOREM Invariant == Spec => []IInv
<1>1. QED  BY InitIInv, NextIInv, PTL DEF Spec

\* Whatever fails and wherever a command is killed, a name leads to a whole file or to
\* none, unless two commands met there or a close has lost data (EncryptSignFile,
\* DecryptVerify).
THEOREM FilesAreNeverHalf == Spec => []NeverHalf
<1>1. IInv => NeverHalf
  BY DEF IInv
<1>2. QED  BY Invariant, <1>1, PTL

\* When a call is about to return success, its output is made of what the input held
\* when the command came to it, or of nothing if the input could not be opened
\* (EncryptFileAndStreams, DecryptFileAndStreams).
THEOREM SuccessMeansWhole == Spec => []SuccessIsWhole
<1>1. ASSUME IInv PROVE SuccessIsWhole
  <2>1. SUFFICES ASSUME NEW c \in Commands, In(c, "clean"), To(c) \notin spoiled
                 PROVE  dir[To(c)] # NoInode /\ At(To(c)) = Made(c)
    BY DEF SuccessIsWhole, Made, Taken
  <2>2. Alone(c)
    BY <2>1 DEF Alone, Busy, In
  <2>3. OutputOK(c)
    BY <1>1, <2>2 DEF IInv, AloneOK
  <2>4. QED  BY <2>1, <2>3 DEF OutputOK, In
<1>2. QED  BY Invariant, <1>1, PTL

-----------------------------------------------------------------------------
(* The last whole copy of a document *)

LEMMA HoldsIs ==
    \A p, d : Holds(p, d) <=> dir[p] # NoInode /\ At(p).doc = d /\ Whole(At(p))
BY DEF Holds, At

LEMMA HeldBy ==
    ASSUME NEW p \in Paths, NEW q \in Paths, NEW d, Holds(p, d),
           dir'[q] # NoInode, At(q)' = At(p)
    PROVE  Held(d)'
<1>1. At(p).doc = d /\ Whole(At(p))
  BY HoldsIs
<1>2. At(q)'.doc = d /\ Whole(At(q)')
  BY <1>1
<1>3. Holds(q, d)'
  BY <1>2 DEF Holds, At
<1>4. QED  BY <1>3 DEF Held

\* The copies of a document that a call has not to do with.
LEMMA ElsewhereHeld ==
    ASSUME IInv, NEW c \in Commands, Busy(c), StepOK(c), To(c) \notin spoiled,
           NEW p \in Paths, NEW d, Holds(p, d), p # TempOf(c), p = To(c) => dir'[p] = dir[p]
    PROVE  Held(d)'
<1>1. TypeOK /\ CallsOK /\ NamesOK /\ DirStep(c) /\ StoreStep(c)
  BY DEF IInv, NeverHalf, StepOK
<1>2. dir'[p] = dir[p] /\ At(p)' = At(p)
  BY <1>1, Untouched
<1>3. dir[p] # NoInode
  BY DEF Holds
<1>4. QED  BY <1>2, <1>3, HeldBy

\* What a call that has closed its files has in the temporary one, and its input before.
LEMMA MadeHolds ==
    ASSUME IInv, NEW c \in Commands, Alone(c), cmd[c].pc \in {"close", "remove", "rename"},
           NEW d \in Documents
    PROVE  /\ Holds(TempOf(c), d) => cmd[c].opened /\ cmd[c].from.doc = d
           /\ cmd[c].opened /\ cmd[c].from.doc = d => Holds(TempOf(c), d)
           /\ cmd[c].pc = "close" /\ cmd[c].opened /\ cmd[c].from.doc = d => Holds(Input(c), d)
<1>1. TypeOK /\ BlocksOK /\ SourceOK(c) /\ InputOK(c) /\ OutputOK(c)
  BY DEF IInv, NeverHalf, AloneOK
<1>2. Whole(Made(c)) /\ Made(c).doc = Taken(c).doc
  BY <1>1, MadeIs
<1>3. d # NoDocument
  BY FileAssumption
<1>4. Taken(c).doc = d <=> cmd[c].opened /\ cmd[c].from.doc = d
  BY <1>3 DEF Taken, Empty, Plain
<1>5. IF dir[TempOf(c)] = NoInode THEN Taken(c).doc = NoDocument ELSE At(TempOf(c)) = Made(c)
  BY <1>1 DEF OutputOK
<1>6. Holds(TempOf(c), d) <=> Taken(c).doc = d
  BY <1>2, <1>3, <1>5, HoldsIs
<1>7. cmd[c].pc = "close" /\ cmd[c].from.doc = d => Holds(Input(c), d)
  <2>1. cmd[c].pc = "close" => dir[Input(c)] # NoInode /\ At(Input(c)) = cmd[c].from
    BY <1>1 DEF InputOK
  <2>2. Whole(cmd[c].from)
    BY <1>1 DEF SourceOK
  <2>3. QED  BY <2>1, <2>2, HoldsIs
<1>8. QED  BY <1>4, <1>6, <1>7

\* The output of a call is replaced only by another copy.
LEMMA OutputHeld ==
    ASSUME IInv, NEW c \in Commands, StepOfCall(c), NEW d \in Documents, ~Loses(c, d),
           Holds(To(c), d), dir'[To(c)] # dir[To(c)]
    PROVE  Held(d)'
<1>1. TypeOK /\ CallsOK /\ NamesOK /\ BlocksOK /\ Busy(c) /\ StepOK(c)
  BY StepOfCallOK DEF IInv, NeverHalf
<1>2. To(c) \in Names /\ To(c) \in Paths /\ TempOf(c) \in Paths \ Names /\ To(c) # TempOf(c)
  BY <1>1, BusyIs
<1>3. Alone(c)
  BY <1>1 DEF Loses, Alone
<1>4. Remove(c) \/ Rename(c)
  BY <1>1, <1>2 DEF StepOfCall, Begin, Check, Open, OpenAt, PrepareFails, Prepare, WriteBlock,
                    FinishData, WorkFails, Close, CloseLoses, RenameFails, Wipe, Unlink, Clean,
                    Deleted, TypeOK
<1>5. cmd[c].pc \in {"remove", "rename"} /\ cmd[c].opened /\ cmd[c].from.doc = d
  BY <1>4 DEF Remove, Rename, In, Loses
<1>6. Holds(TempOf(c), d) /\ dir[TempOf(c)] # NoInode
  BY <1>3, <1>5, MadeHolds DEF Holds
<1>7. store' = Swept(store) /\ dir' \in [Paths -> Inodes \cup {NoInode}]
  BY <1>1, <1>2, <1>4 DEF Remove, Rename, Deleted, TypeOK
<1>8. \A p, q \in Paths : dir'[p] = dir[q] => At(p)' = At(q)
  BY <1>1, <1>7, SweepStep
<1>9. CASE Remove(c)
  <2>1. dir'[TempOf(c)] = dir[TempOf(c)]
    BY <1>1, <1>2, <1>9 DEF Remove, Deleted, TypeOK
  <2>2. PICK p \in Paths : p = TempOf(c)
    BY <1>2
  <2>3. QED  BY <2>1, <2>2, <1>6, <1>8, HeldBy
<1>10. CASE Rename(c)
  <2>1. dir'[To(c)] = dir[TempOf(c)]
    BY <1>1, <1>2, <1>10 DEF Rename, TypeOK
  <2>2. PICK p \in Paths : p = TempOf(c)
    BY <1>2
  <2>3. PICK q \in Paths : q = To(c)
    BY <1>2
  <2>4. QED  BY <2>1, <2>2, <2>3, <1>6, <1>8, HeldBy
<1>11. QED  BY <1>4, <1>9, <1>10

\* Nor is a whole temporary file written or deleted while it holds the last copy.
LEMMA TempHeld ==
    ASSUME IInv, NEW c \in Commands, StepOfCall(c), NEW d \in Documents, ~Loses(c, d),
           Holds(TempOf(c), d)
    PROVE  Held(d)'
<1>1. TypeOK /\ CallsOK /\ NamesOK /\ BlocksOK /\ Busy(c) /\ StepOK(c)
  BY StepOfCallOK DEF IInv, NeverHalf
<1>2. To(c) \in Names /\ To(c) \in Paths /\ TempOf(c) \in Paths \ Names /\ To(c) # TempOf(c)
      /\ Input(c) \in Paths /\ Input(c) \in Names
  BY <1>1, BusyIs
<1>3. Alone(c) /\ To(c) \notin spoiled /\ cmd[c].pc # "wipe"
  BY <1>1 DEF Loses, Alone, In
<1>4. SourceOK(c) /\ InputOK(c) /\ OutputOK(c)
  BY <1>3 DEF IInv, AloneOK
<1>5. dir[TempOf(c)] # NoInode /\ At(TempOf(c)).doc = d /\ Whole(At(TempOf(c))) /\ d # NoDocument
  BY HoldsIs, FileAssumption
<1>6. PICK p \in Paths : p = TempOf(c)
  BY <1>2
<1>7. ASSUME dir'[p] = dir[p], store' = Swept(store) \/ store' = store
      PROVE  Held(d)'
  <2>1. dir' \in [Paths -> Inodes \cup {NoInode}]
    <3>1. IInv'
      BY <1>1, StepInv
    <3>2. QED  BY <3>1 DEF IInv, NeverHalf, TypeOK
  <2>2. CASE store' = Swept(store)
    <3>1. At(p)' = At(p)
      BY <2>1, <2>2, <1>1, <1>7, SweepStep
    <3>2. QED  BY <3>1, <1>5, <1>6, <1>7, HeldBy
  <2>3. CASE store' = store
    <3>1. At(p)' = At(p)
      BY <2>3, <1>7 DEF At
    <3>2. QED  BY <3>1, <1>5, <1>6, <1>7, HeldBy
  <2>4. QED  BY <1>7, <2>2, <2>3
<1>8. ~In(c, "begin") /\ cmd[c].pc \notin {"check", "open", "clean", "unlink"}
  <2>1. ~In(c, "begin")
    BY DEF Loses
  <2>2. cmd[c].pc # "unlink"
    BY <1>4, <1>5 DEF OutputOK, Empty, Plain, Mixed
  <2>3. QED  BY <2>1, <2>2, <1>4, <1>5 DEF OutputOK
<1>9. cmd[c].pc \in {"prepare", "work"} =>
         cmd[c].pc = "work" /\ cmd[c].kind = "decrypt" /\ cmd[c].done = Taken(c).blocks
  <2>1. SUFFICES ASSUME cmd[c].pc \in {"prepare", "work"}
                 PROVE  cmd[c].pc = "work" /\ cmd[c].kind = "decrypt"
                        /\ cmd[c].done = Taken(c).blocks
    OBVIOUS
  <2>2. At(TempOf(c)) = Draft(c)
    BY <2>1, <1>4, <1>5 DEF OutputOK, At
  <2>3. cmd[c].done # 0 /\ cmd[c].kind = "decrypt" /\ Draft(c) = Plain(cmd[c].from.doc, cmd[c].done)
    <3>1. \A n, m : ~Whole(Cipher(cmd[c].from.doc, n, m, FALSE))
      BY DEF Whole, HashMatches, HasHeader, Cipher
    <3>2. cmd[c].done # 0
      <4>1. cmd[c].done = 0 => At(TempOf(c)) = Empty
        BY <2>2 DEF Draft
      <4>2. Empty.doc = NoDocument
        BY DEF Empty, Plain
      <4>3. QED  BY <4>1, <4>2, <1>5
    <3>3. cmd[c].kind # "encrypt"
      BY <2>2, <3>1, <3>2, <1>5 DEF Draft
    <3>4. cmd[c].kind \in {"encrypt", "decrypt"}
      BY <1>1 DEF TypeOK, Calls
    <3>5. QED  BY <3>2, <3>3, <3>4 DEF Draft
  <2>4. cmd[c].pc = "work"
    BY <2>1, <2>3, <1>1 DEF CallsOK
  <2>5. cmd[c].opened /\ Taken(c) = cmd[c].from
    BY <2>3, <2>4, <1>4 DEF OutputOK, Taken
  <2>6. cmd[c].from.doc = d /\ cmd[c].done = Length(d)
    BY <2>2, <2>3, <1>5 DEF Plain, Whole
  <2>7. cmd[c].from.size = Length(d) /\ cmd[c].from.blocks = cmd[c].from.size
    <3>1. Whole(cmd[c].from) /\ HasHeader(cmd[c].from)
      BY <2>3, <2>4, <1>4 DEF SourceOK
    <3>2. QED  BY <3>1, <2>6 DEF Whole, HashMatches, HasHeader
  <2>8. QED  BY <2>3, <2>4, <2>5, <2>6, <2>7
<1>10. ASSUME WriteBlock(c) \/ FinishData(c) PROVE Held(d)'
  <2>1. cmd[c].pc = "work" /\ UNCHANGED dir
    BY <1>10 DEF WriteBlock, FinishData, In
  <2>2. Source(c) = Taken(c)
    BY <2>1, <1>1, <1>4, SourceIs
  <2>3. ~WriteBlock(c)
    <3>1. cmd[c].done \in Nat
      BY <1>1 DEF TypeOK, Calls
    <3>2. WriteBlock(c) => cmd[c].done < Source(c).blocks
      BY DEF WriteBlock
    <3>3. cmd[c].done = Source(c).blocks
      BY <2>1, <2>2, <1>9
    <3>4. ~(cmd[c].done < Source(c).blocks)
      BY <3>1, <3>3
    <3>5. QED  BY <3>2, <3>4
  <2>4. store' = store
    BY <2>1, <2>3, <1>9, <1>10 DEF FinishData
  <2>5. QED  BY <2>1, <2>4, <1>7
<1>11. ASSUME CloseLoses(c) PROVE Held(d)'
  <2>1. cmd[c].pc = "close" /\ UNCHANGED dir
    BY <1>11 DEF CloseLoses, In
  <2>2. Holds(Input(c), d)
    BY <2>1, <1>3, MadeHolds
  <2>3. PICK q \in Paths : q = Input(c)
    BY <1>2
  <2>4. q # TempOf(c)
    BY <2>3, <1>2
  <2>5. QED  BY <2>1, <2>2, <2>3, <2>4, <1>1, <1>3, ElsewhereHeld
<1>12. ASSUME Remove(c) PROVE Held(d)'
  <2>1. dir'[p] = dir[p]
    BY <1>1, <1>2, <1>6, <1>12 DEF Remove, Deleted, TypeOK
  <2>2. QED  BY <2>1, <1>7, <1>12 DEF Remove
<1>13. ASSUME Rename(c) PROVE Held(d)'
  <2>1. dir'[To(c)] = dir[TempOf(c)] /\ store' = Swept(store)
        /\ dir' \in [Paths -> Inodes \cup {NoInode}]
    BY <1>1, <1>2, <1>13 DEF Rename, TypeOK
  <2>2. PICK q \in Paths : q = To(c)
    BY <1>2
  <2>3. dir'[q] = dir[p]
    BY <2>1, <2>2, <1>6
  <2>4. At(q)' = At(p)
    BY <2>1, <2>3, <1>1, SweepStep
  <2>5. dir'[q] # NoInode /\ Holds(p, d)
    BY <2>3, <1>5, <1>6
  <2>6. QED  BY <2>4, <2>5, HeldBy
<1>14. ASSUME PrepareFails(c) \/ Prepare(c) PROVE FALSE
  BY <1>9, <1>14 DEF PrepareFails, Prepare, In
<1>15. ASSUME WorkFails(c) PROVE Held(d)'
  <2>1. cmd[c].kind = "decrypt"
    BY <1>9, <1>15 DEF WorkFails, In
  <2>2. QED  BY <2>1, <1>7, <1>15 DEF WorkFails
<1>16. ASSUME Close(c) \/ RenameFails(c) PROVE Held(d)'
  BY <1>7, <1>16 DEF Close, RenameFails
<1>17. ASSUME Begin(c) \/ Check(c) \/ Open(c) \/ Wipe(c) \/ Unlink(c) \/ Clean(c) PROVE FALSE
  BY <1>3, <1>8, <1>17 DEF Begin, Check, Open, OpenAt, Wipe, Unlink, Clean, In
<1>18. QED
  BY <1>10, <1>11, <1>12, <1>13, <1>14, <1>15, <1>16, <1>17 DEF StepOfCall

\* A step that leaves the directory alone and writes nothing that is named.
LEMMA BetweenHeld ==
    ASSUME TypeOK, BlocksOK, NEW c \in Commands, UNCHANGED dir, store' \in {store, Swept(store)},
           NEW d, NEW p \in Paths, Holds(p, d)
    PROVE  Held(d)'
<1>1. At(p)' = At(p)
  <2>1. dir' \in [Paths -> Inodes \cup {NoInode}]
    BY DEF TypeOK
  <2>2. CASE store' = store
    BY <2>2 DEF At
  <2>3. CASE store' = Swept(store)
    BY <2>1, <2>3, SweepStep
  <2>4. QED  BY <2>2, <2>3
<1>2. dir'[p] # NoInode
  BY DEF Holds
<1>3. QED  BY <1>1, <1>2, HeldBy

\* The last whole copy of a document, in the clear or encrypted, under a name or in a
\* temporary file, disappears only when a command replaces it by something else,
\* deletes a killed command's temporary file, wipes what it could not rename, or has
\* met another one (EncryptSignFile, DecryptVerify).
THEOREM LastCopiesStay == Spec => OnlyTheseLoseADocument
<1> DEFINE P == \A d \in Documents :
                   Held(d) /\ ~Held(d)' => \E c \in Commands : Loses(c, d)
<1>1. ASSUME IInv, [Next]_vars PROVE [P]_vars
  <2>1. SUFFICES ASSUME Next, NEW d \in Documents, Held(d), \A c \in Commands : ~Loses(c, d)
                 PROVE  Held(d)'
    BY <1>1
  <2>2. PICK p \in Paths : Holds(p, d)
    BY <2>1 DEF Held
  <2>3. TypeOK /\ BlocksOK
    BY <1>1 DEF IInv, NeverHalf
  <2>4. ASSUME NEW c \in Commands, StepOfCall(c) PROVE Held(d)'
    <3>1. ~Loses(c, d) /\ Busy(c) /\ StepOK(c)
      BY <1>1, <2>1, <2>4, StepOfCallOK
    <3>2. To(c) \notin spoiled
      BY <3>1 DEF Loses
    <3>3. CASE p = TempOf(c)
      BY <3>1, <3>3, <1>1, <2>2, <2>4, TempHeld
    <3>4. CASE p = To(c) /\ dir'[p] # dir[p]
      BY <3>1, <3>4, <1>1, <2>2, <2>4, OutputHeld
    <3>5. CASE p # TempOf(c) /\ (p = To(c) => dir'[p] = dir[p])
      BY <3>1, <3>2, <3>5, <1>1, <2>2, ElsewhereHeld
    <3>6. QED  BY <3>3, <3>4, <3>5
  <2>5. ASSUME NEW c \in Commands, Start(c) \/ NextFile(c) \/ NoFileLeft(c) \/ Crash(c)
        PROVE  Held(d)'
    <3>1. UNCHANGED dir /\ store' \in {store, Swept(store)}
      BY <2>5 DEF Start, NextFile, NoFileLeft, Crash
    <3>2. QED  BY <3>1, <2>2, <2>3, BetweenHeld
  <2>6. QED  BY <2>1, <2>4, <2>5 DEF Next, StepOfCall
<1>2. QED  BY Invariant, <1>1, PTL DEF Spec, OnlyTheseLoseADocument
=============================================================================
