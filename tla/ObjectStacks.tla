---------------------------- MODULE ObjectStacks ----------------------------
(***************************************************************************)
(* What the names of a service locator promise about singleton objects: a  *)
(* name carries a stack.  An object is pushed, onto an empty stack or onto *)
(* the object it takes in; deleting the name pops the newest one; nothing  *)
(* else touches it.  ServiceLocator is the implementation, with pointers.  *)
(***************************************************************************)
EXTENDS Sequences

CONSTANTS Locators, Names, Objects, Aggregatable

VARIABLE stack       \* stack[l][n]: newest object first

Init == stack = [l \in Locators |-> [n \in Names |-> <<>>]]

\* No object is in two places.
Placed == UNION {{stack[l][n][i] : i \in DOMAIN stack[l][n]} :
                    l \in Locators, n \in Names}

Push(l, n, o) ==
    /\ o \notin Placed
    /\ stack[l][n] # <<>> => o \in Aggregatable
    /\ stack' = [stack EXCEPT ![l][n] = <<o>> \o @]

Pop(l, n) ==
    /\ stack[l][n] # <<>>
    /\ stack' = [stack EXCEPT ![l][n] = Tail(@)]

Next ==
    \E l \in Locators, n \in Names :
        Pop(l, n) \/ \E o \in Objects : Push(l, n, o)

Spec == Init /\ [][Next]_stack
=============================================================================
