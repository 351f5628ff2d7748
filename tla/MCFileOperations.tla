-------------------------- MODULE MCFileOperations --------------------------
EXTENDS FileOperations, TLC

CONSTANTS c1, c2, a, b

TwoCommands == {c1, c2}
OneCommand == {c1}
TwoDocuments == {a, b}
JustA == {a}
File(d) == [doc |-> d, ckm |-> FALSE, tmp |-> FALSE]
Encrypted(d) == [doc |-> d, ckm |-> TRUE, tmp |-> FALSE]
Line(k, in, out) == [kind |-> k, inputs |-> in, output |-> out]

\* One file, two files, onto another file and in place.
Lines ==
    {Line("encrypt", <<File(a)>>, NoPath), Line("encrypt", <<File(a), File(b)>>, NoPath),
     Line("encrypt", <<File(a)>>, File(b)), Line("encrypt", <<File(a)>>, File(a)),
     Line("decrypt", <<Encrypted(a)>>, NoPath), Line("decrypt", <<File(a)>>, File(a)),
     Line("decrypt", <<Encrypted(a)>>, File(b))}
Symmetry == Permutations(Commands)
=============================================================================
