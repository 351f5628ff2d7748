------------------------------ MODULE MCRWLock ------------------------------
(* A model-checking instance of RWLock. *)
EXTENDS RWLock

CONSTANTS t1, t2, t3, none

ThreeThreads == {t1, t2, t3}

\* Every nesting: a guard inside a writer guard, as a locator takes it when a
\* class is added by its path, and CopyClassDef's writer inside a reader.
AnyNesting == {"R", "W"} \X {"R", "W"}
=============================================================================
