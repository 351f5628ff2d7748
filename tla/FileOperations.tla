--------------------------- MODULE FileOperations ---------------------------
(***************************************************************************)
(* veiltool's encrypt and decrypt commands over FileVEILOperationsImpl, on *)
(* a system without named streams.  A command takes its input files one    *)
(* after the other; each is worked on in a temporary file beside the       *)
(* output, which is then deleted and replaced.                             *)
(*                                                                         *)
(* Names lead to inodes, so that a file deleted, truncated or renamed      *)
(* under a command that has it open is what it is on a file system.        *)
(***************************************************************************)
EXTENDS Naturals, Sequences, FiniteSets

CONSTANTS
    Commands,     \* processes that run one command line after another
    Documents,    \* what there is to encrypt, a file of Size blocks each
    NoDocument,
    Size,
    Before,       \* those of them that may have been encrypted already
    CommandLines, \* [kind, inputs, output] of the commands that are given
    NoPath,
    MaxStarts,    \* how many are given in all
    MaxLosses     \* how often a close loses what was buffered

Paths == [doc : Documents, ckm : BOOLEAN, tmp : BOOLEAN]
Names == {p \in Paths : ~p.tmp}
Temp(p) == [p EXCEPT !.tmp = TRUE]
\* One for each path and each handle, so that there is always a free one.
Inodes == 1 .. Cardinality(Paths) + 2 * Cardinality(Commands)
NoInode == 0

ASSUME FileAssumption ==
    /\ IsFiniteSet(Documents) /\ IsFiniteSet(Commands)
    /\ Before \subseteq Documents /\ NoDocument \notin Documents /\ NoPath \notin Paths
    /\ Size \in Nat \ {0} /\ MaxStarts \in Nat /\ MaxLosses \in Nat
    /\ CommandLines \subseteq [kind : {"encrypt", "decrypt"}, inputs : Seq(Names),
                               output : Names \cup {NoPath}]

VARIABLES
    dir,      \* which inode a path leads to
    store,    \* what an inode holds
    cmd,      \* per command: the call it is in and its local variables
    starts, losses,
    spoiled   \* history: names written while another command used them, from a
              \* spoiled name or a second time, or whose data was lost in a close

vars == <<dir, store, cmd, starts, losses, spoiled>>

(***************************************************************************)
(* What a file holds: blocks of a document, or the encryption of "size"    *)
(* blocks of one, of which "blocks" and the header have been written.      *)
(***************************************************************************)
Plain(d, n) == [form |-> "plain", doc |-> d, blocks |-> n, size |-> n, header |-> FALSE]
Cipher(d, n, size, h) ==
    [form |-> "cipher", doc |-> d, blocks |-> n, size |-> size, header |-> h]
Mixed == [form |-> "mixed", doc |-> NoDocument, blocks |-> 0, size |-> 0, header |-> FALSE]
Contents ==
    [form : {"plain", "cipher", "mixed"}, doc : Documents \cup {NoDocument},
     blocks : 0 .. Size, size : 0 .. Size, header : BOOLEAN]

Length(d) == IF d = NoDocument THEN 0 ELSE Size
HasHeader(x) == x.form = "cipher" /\ x.header
HashMatches(x) == HasHeader(x) /\ x.blocks = x.size
Whole(x) ==
    /\ x.size = Length(x.doc)
    /\ x.form = "plain" \/ HashMatches(x)

\* What the encryption of a file reads from it.  What is no document has no blocks
\* of one.
Data(x) == IF x.form = "plain" THEN x ELSE Plain(NoDocument, 0)
Empty == Plain(NoDocument, 0)

At(p) == IF dir[p] = NoInode THEN Empty ELSE store[dir[p]]
Read(i) == IF i = NoInode THEN Empty ELSE store[i]

Idle == [pc |-> "idle", kind |-> "encrypt", inputs |-> <<>>, output |-> NoPath,
         in |-> NoInode, out |-> NoInode, opened |-> FALSE, done |-> 0, from |-> Empty]

Running(c) == cmd[c].pc # "idle"
Input(c) == Head(cmd[c].inputs)
To(c) == cmd[c].output
TempOf(c) == Temp(To(c))
In(c, pc) == cmd[c].pc = pc
Goto(c, pc) == cmd' = [cmd EXCEPT ![c].pc = pc]

\* The command ends; what it has open is closed with it.
Ends(c) == cmd' = [cmd EXCEPT ![c] = Idle]
Deleted(p) == dir' = [dir EXCEPT ![p] = NoInode]

\* A file that no name leads to and nobody has open is gone.
Swept(s) ==
    [i \in Inodes |->
        IF \/ \E p \in Paths : dir'[p] = i
           \/ \E c \in Commands : i \in {cmd'[c].in, cmd'[c].out}
        THEN s[i] ELSE Empty]
Free(i) == /\ \A p \in Paths : dir[p] # i
           /\ \A c \in Commands : i \notin {cmd[c].in, cmd[c].out}
NewInode == CHOOSE i \in Inodes : Free(i)

\* The files there are at first: every document, and some of them encrypted before.
FirstNames(encrypted) == {n \in Names : n.ckm => n.doc \in encrypted}
InodeOf(names) == CHOOSE f \in [names -> 1 .. Cardinality(names)] :
                      \A m, n \in names : f[m] = f[n] => m = n
First(n) == IF n.ckm THEN Cipher(n.doc, Size, Size, TRUE) ELSE Plain(n.doc, Size)

Init ==
    /\ \E encrypted \in SUBSET Before :
          LET names == FirstNames(encrypted)
              f == InodeOf(names)
          IN /\ dir = [p \in Paths |-> IF p \in names THEN f[p] ELSE NoInode]
             /\ store = [i \in Inodes |->
                            IF i \in 1 .. Cardinality(names)
                            THEN First(CHOOSE n \in names : f[n] = i) ELSE Empty]
    /\ cmd = [c \in Commands |-> Idle]
    /\ starts = 0 /\ losses = 0
    /\ spoiled = {}

-----------------------------------------------------------------------------
(* The command: RunCommand's loop over the files. *)

\* Nobody encrypts what is encrypted, or decrypts what is not.
Sensible(line) ==
    \A n \in 1 .. Len(line.inputs) :
        line.kind = "encrypt" <=> At(line.inputs[n]).form = "plain"

Start(c) ==
    /\ ~Running(c) /\ starts < MaxStarts
    /\ \E line \in CommandLines :
          /\ Sensible(line)
          /\ cmd' = [cmd EXCEPT ![c] = [Idle EXCEPT !.pc = "next", !.kind = line.kind,
                                        !.inputs = line.inputs, !.output = line.output]]
    /\ starts' = starts + 1
    /\ UNCHANGED <<dir, store, losses, spoiled>>

\* The name of the output, when none was given; it is kept for the files to come.
Output(c) ==
    IF cmd[c].output # NoPath THEN cmd[c].output
    ELSE [Input(c) EXCEPT !.ckm = (cmd[c].kind = "encrypt")]

\* Two commands, one of which writes what the other reads or writes.
Clash(c, d) ==
    \/ To(d) \in {Input(c), Output(c)}
    \/ Output(c) = Input(d)
\* A second encryption of one file, whose layers the model does not tell apart.
Again(c) == cmd[c].kind = "encrypt" /\ At(Input(c)).form # "plain"
Spoils(c) ==
    LET others == {d \in Commands \ {c} : cmd[d].pc \notin {"idle", "next"} /\ Clash(c, d)}
    IN {To(d) : d \in others}
       \cup (IF others # {} \/ Input(c) \in spoiled \/ Again(c) THEN {Output(c)} ELSE {})

NextFile(c) ==
    /\ In(c, "next") /\ cmd[c].inputs # <<>>
    /\ IF dir[Input(c)] = NoInode
       THEN Ends(c) /\ UNCHANGED spoiled
       ELSE /\ cmd' = [cmd EXCEPT ![c].pc = "begin", ![c].output = Output(c),
                                  ![c].done = 0, ![c].from = At(Input(c))]
            /\ spoiled' = spoiled \cup Spoils(c)
    /\ UNCHANGED <<dir, store, starts, losses>>

NoFileLeft(c) ==
    /\ In(c, "next") /\ cmd[c].inputs = <<>>
    /\ Ends(c)
    /\ UNCHANGED <<dir, store, starts, losses, spoiled>>

-----------------------------------------------------------------------------
(* EncryptFileAndStreams and DecryptFileAndStreams. *)

\* Slip: the output is deleted here already.
BeginWithOutput(c) ==
    /\ In(c, "begin")
    /\ dir' = [dir EXCEPT ![TempOf(c)] = NoInode, ![To(c)] = NoInode]
    /\ Goto(c, IF cmd[c].kind = "encrypt" THEN "open" ELSE "check")
    /\ store' = Swept(store)
    /\ UNCHANGED <<starts, losses, spoiled>>

\* A temporary file of an earlier call is deleted.
Begin(c) ==
    /\ In(c, "begin")
    /\ Deleted(TempOf(c))
    /\ Goto(c, IF cmd[c].kind = "encrypt" THEN "open" ELSE "check")
    /\ store' = Swept(store)
    /\ UNCHANGED <<starts, losses, spoiled>>

\* DecryptVerify looks for the header, with a handle of its own.
Check(c) ==
    /\ In(c, "check")
    /\ IF HasHeader(At(Input(c))) THEN Goto(c, "open") ELSE Ends(c)
    /\ UNCHANGED <<dir, store, starts, losses, spoiled>>

\* The reader and the writer are made.  Neither factory returns null: an object whose
\* file could not be opened has no data, and fails to write.
OpenAt(c, p) ==
    /\ In(c, "open")
    /\ \E in \in {dir[Input(c)], NoInode}, written \in BOOLEAN :
          LET old == dir[p]
              out == CASE ~written -> NoInode
                       [] written /\ old # NoInode -> old
                       [] OTHER -> NewInode
          IN /\ cmd' = [cmd EXCEPT ![c].pc = "prepare", ![c].in = in, ![c].out = out,
                                   ![c].opened = (in # NoInode)]
             /\ IF written
                THEN /\ dir' = [dir EXCEPT ![p] = out]
                     /\ store' = [store EXCEPT ![out] = Empty]
                ELSE UNCHANGED <<dir, store>>
    /\ UNCHANGED <<starts, losses, spoiled>>

\* Slip: the output itself is written.
OpenOutput(c) == OpenAt(c, To(c))
Open(c) == OpenAt(c, TempOf(c))

\* Sessions, keys and, for a decryption, what DecryptStream validates before it
\* writes.  A reader without a header makes DecryptStream succeed at once; when it
\* fails, the temporary file is left where it is.
PrepareFails(c) ==
    /\ In(c, "prepare")
    /\ Ends(c)
    /\ \/ Deleted(TempOf(c))
       \/ cmd[c].kind = "decrypt" /\ HasHeader(Read(cmd[c].in)) /\ UNCHANGED dir
    /\ store' = Swept(store)
    /\ UNCHANGED <<starts, losses, spoiled>>

Prepare(c) ==
    /\ In(c, "prepare")
    /\ IF cmd[c].kind = "decrypt" /\ ~HasHeader(Read(cmd[c].in))
       THEN Goto(c, "close")
       ELSE /\ cmd[c].kind = "decrypt" => HashMatches(Read(cmd[c].in))
            /\ Goto(c, "work")
    /\ UNCHANGED <<dir, store, starts, losses, spoiled>>

\* Two commands that have one file open write over each other.
Written(c, x) ==
    IF \E d \in Commands \ {c} : cmd[d].out = cmd[c].out
    THEN store' = [store EXCEPT ![cmd[c].out] = Mixed]
    ELSE store' = [store EXCEPT ![cmd[c].out] = x]

Source(c) == IF cmd[c].kind = "encrypt" THEN Data(Read(cmd[c].in)) ELSE Read(cmd[c].in)

\* A block is read and its encryption, or what it decrypts to, is written.
WriteBlock(c) ==
    LET n == cmd[c].done + 1 IN
    /\ In(c, "work") /\ cmd[c].out # NoInode
    /\ cmd[c].done < Source(c).blocks
    /\ Written(c, IF cmd[c].kind = "encrypt" THEN Cipher(Source(c).doc, n, n, FALSE)
                                             ELSE Plain(Source(c).doc, n))
    /\ cmd' = [cmd EXCEPT ![c].done = n]
    /\ UNCHANGED <<dir, starts, losses, spoiled>>

\* At the end of the input the encryption goes back and writes the header over the
\* space it had reserved; the decryption compares the hash once more.
FinishData(c) ==
    /\ In(c, "work")
    /\ cmd[c].done >= Source(c).blocks
    /\ IF cmd[c].kind = "encrypt"
       THEN /\ cmd[c].out # NoInode
            /\ Written(c, Cipher(IF cmd[c].done = 0 THEN NoDocument ELSE Source(c).doc,
                                 cmd[c].done, cmd[c].done, TRUE))
       ELSE /\ HashMatches(Source(c)) /\ cmd[c].done = Source(c).blocks
            /\ UNCHANGED store
    /\ Goto(c, "close")
    /\ UNCHANGED <<dir, starts, losses, spoiled>>

\* A write fails, the data is found damaged, or the user cancels.  Only the encryption
\* deletes its temporary file then.
WorkFails(c) ==
    /\ In(c, "work")
    /\ Ends(c)
    /\ IF cmd[c].kind = "encrypt" THEN Deleted(TempOf(c)) ELSE UNCHANGED dir
    /\ store' = Swept(store)
    /\ UNCHANGED <<starts, losses, spoiled>>

\* Close does not look at what tsCloseFile says: buffered data may be lost in it.
Torn(x) == {[x EXCEPT !.blocks = n, !.size = IF x.form = "plain" THEN n ELSE x.size] :
                n \in 0 .. x.blocks} \ {x}
Closed(c) == cmd' = [cmd EXCEPT ![c].pc = "remove", ![c].in = NoInode, ![c].out = NoInode]

Close(c) ==
    /\ In(c, "close")
    /\ Closed(c)
    /\ UNCHANGED <<dir, starts, losses, spoiled>>
    /\ store' = Swept(store)

CloseLoses(c) ==
    /\ In(c, "close") /\ cmd[c].out # NoInode
    /\ losses < MaxLosses /\ losses' = losses + 1
    /\ Closed(c)
    /\ UNCHANGED <<dir, starts>>
    /\ \E x \in Torn(store[cmd[c].out]) :
          store' = Swept([store EXCEPT ![cmd[c].out] = x])
    /\ spoiled' = spoiled \cup {To(c)}

-----------------------------------------------------------------------------
(* The temporary file takes the place of the output. *)

\* The output is deleted, if it can be: nobody looks.
Remove(c) ==
    /\ In(c, "remove")
    /\ Deleted(To(c)) \/ UNCHANGED dir
    /\ Goto(c, "rename")
    /\ store' = Swept(store)
    /\ UNCHANGED <<starts, losses, spoiled>>

Rename(c) ==
    /\ In(c, "rename") /\ dir[TempOf(c)] # NoInode
    /\ dir' = [dir EXCEPT ![To(c)] = dir[TempOf(c)], ![TempOf(c)] = NoInode]
    /\ Goto(c, "clean")
    /\ store' = Swept(store)
    /\ UNCHANGED <<starts, losses, spoiled>>

\* Slip: nobody looks at what the rename returns.
RenameFailsUnseen(c) ==
    /\ In(c, "rename")
    /\ Goto(c, "clean")
    /\ UNCHANGED <<dir, store, starts, losses, spoiled>>
RenameFails(c) ==
    /\ In(c, "rename")
    /\ Goto(c, "wipe")
    /\ UNCHANGED <<dir, store, starts, losses, spoiled>>

\* secureDeleteEntireFile: the file is truncated and overwritten, then deleted.
Wipe(c) ==
    /\ In(c, "wipe")
    /\ IF dir[TempOf(c)] = NoInode
       THEN Ends(c) /\ UNCHANGED store
       ELSE \/ /\ Goto(c, "unlink")
               /\ store' = [store EXCEPT ![dir[TempOf(c)]] = Mixed]
            \/ Ends(c) /\ UNCHANGED store
    /\ UNCHANGED <<dir, starts, losses, spoiled>>

Unlink(c) ==
    /\ In(c, "unlink")
    /\ Deleted(TempOf(c)) \/ UNCHANGED dir
    /\ Ends(c)
    /\ store' = Swept(store)
    /\ UNCHANGED <<starts, losses, spoiled>>

\* The temporary name is deleted once more, and the command goes on with the next
\* file.  Its output keeps the name it has now.
Clean(c) ==
    /\ In(c, "clean")
    /\ Deleted(TempOf(c))
    /\ cmd' = [cmd EXCEPT ![c] = [Idle EXCEPT !.pc = "next", !.kind = cmd[c].kind,
                                  !.inputs = Tail(cmd[c].inputs), !.output = To(c)]]
    /\ store' = Swept(store)
    /\ UNCHANGED <<starts, losses, spoiled>>

\* The process is killed.
Crash(c) ==
    /\ Running(c)
    /\ Ends(c)
    /\ UNCHANGED <<dir, starts, losses, spoiled>>
    /\ store' = Swept(store)

Next ==
    \E c \in Commands :
        \/ Start(c) \/ NextFile(c) \/ NoFileLeft(c)
        \/ Begin(c) \/ Check(c) \/ Open(c) \/ PrepareFails(c) \/ Prepare(c)
        \/ WriteBlock(c) \/ FinishData(c) \/ WorkFails(c) \/ Close(c) \/ CloseLoses(c)
        \/ Remove(c) \/ Rename(c) \/ RenameFails(c) \/ Wipe(c) \/ Unlink(c) \/ Clean(c)
        \/ Crash(c)

Spec == Init /\ [][Next]_vars

-----------------------------------------------------------------------------
Calls ==
    [pc : {"idle", "next", "begin", "check", "open", "prepare", "work", "close",
           "remove", "rename", "wipe", "unlink", "clean"},
     kind : {"encrypt", "decrypt"}, inputs : Seq(Names), output : Names \cup {NoPath},
     in : Inodes \cup {NoInode}, out : Inodes \cup {NoInode}, opened : BOOLEAN,
     done : 0 .. Size, from : Contents]

\* Types.
TypeOK ==
    /\ dir \in [Paths -> Inodes \cup {NoInode}]
    /\ store \in [Inodes -> Contents]
    /\ cmd \in [Commands -> Calls]
    /\ starts \in 0 .. MaxStarts /\ losses \in 0 .. MaxLosses
    /\ spoiled \subseteq Names

\* EncryptSignFile, DecryptVerify: whatever fails and wherever a command is killed, a
\* name leads to a whole file or to none, unless two commands met there or a close has
\* lost data.
NeverHalf ==
    /\ TypeOK
    /\ \A n \in Names \ spoiled : dir[n] # NoInode => Whole(store[dir[n]])

Result(kind, x) ==
    IF kind = "encrypt" THEN Cipher(x.doc, x.blocks, x.blocks, TRUE)
                        ELSE Plain(x.doc, x.size)

\* EncryptFileAndStreams, DecryptFileAndStreams: when a call is about to return
\* success, its output is made of what the input held when the command came to it; of
\* nothing, if the input could not be opened (opened), for such a call succeeds as well.
\* Excepted is an output at which two commands met, that was made twice or of such an
\* input, or whose close has lost data (spoiled).
SuccessIsWhole ==
    \A c \in Commands :
        In(c, "clean") /\ To(c) \notin spoiled =>
            /\ dir[To(c)] # NoInode
            /\ At(To(c)) = Result(cmd[c].kind, IF cmd[c].opened THEN cmd[c].from ELSE Empty)

Holds(p, d) == dir[p] # NoInode /\ store[dir[p]].doc = d /\ Whole(store[dir[p]])
Held(d) == \E p \in Paths : Holds(p, d)

\* A command replaces what its output held by another document, or by nothing because
\* it could not open its input; deletes the only copy that a killed command left in
\* the temporary file; or wipes the copy that could not be renamed.
Loses(c, d) ==
    \/ cmd[c].pc \in {"remove", "rename"} /\ (cmd[c].from.doc # d \/ ~cmd[c].opened)
    \/ In(c, "begin") /\ Holds(TempOf(c), d)
    \/ In(c, "wipe")
    \/ To(c) \in spoiled

\* EncryptSignFile, DecryptVerify: no other step makes the last whole copy of a
\* document disappear, in the clear or encrypted, under a name or in a temporary file.
OnlyTheseLoseADocument ==
    [][\A d \in Documents :
          Held(d) /\ ~Held(d)' => \E c \in Commands : Loses(c, d)]_vars

\* EncryptSignFile's message "Error occurred trying to open input file": an encryption
\* that could not open its input does not succeed.
OpenFailureIsReported ==
    \A c \in Commands : In(c, "clean") /\ cmd[c].kind = "encrypt" => cmd[c].opened
=============================================================================
