-------------------------- MODULE MCPluginManager --------------------------
(* An instance of PluginManager for TLC. *)
EXTENDS PluginManager, TLC

CONSTANTS t1, t2, p1, p2

TwoThreads == {t1, t2}
TwoPaths == {p1, p2}
OneNested == {p2}

\* With a cleanup, as veiltool loads its extensions and a service its own; and without.
ThreeWays == {<<"own", TRUE>>, <<"own", FALSE>>, <<"service", TRUE>>}

Symmetry == Permutations(TwoThreads)
=============================================================================
