------------------------- MODULE MCKeyVEILConnector -------------------------
(* Instances of KeyVEILConnector for TLC. *)
EXTENDS KeyVEILConnector, TLC

\* Lists that grow, shrink, and change owners.
OneThenNone == <<[size |-> 1, mine |-> 1], [size |-> 0, mine |-> 0]>>
OneThenOthers == <<[size |-> 1, mine |-> 1], [size |-> 2, mine |-> 0]>>

AllMethods == Methods

Symmetry == Permutations(Threads) \union Permutations(Channels)
=============================================================================
