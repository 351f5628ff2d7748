-------------------------- MODULE MCServiceLocator --------------------------
(* Model-checking instances of ServiceLocator. *)
EXTENDS ServiceLocator, TLC

CONSTANTS t1, t2, l1, l2, aes, aesCbc, sha, o1, o2, o3

OneObject == {o1}
OneThread == {t1}
TwoThreads == {t1, t2}
OneLocator == {l1}
TwoLocators == {l1, l2}
OneName == {aes}
ThreeNames == {aes, aesCbc, sha}
ThreeObjects == {o1, o2, o3}

\* AES-CBC is tried as AES when it is not known.
ShorterOne == [n \in OneName |-> NoName]
ShorterThree == [n \in ThreeNames |-> IF n = aesCbc THEN aes ELSE NoName]
OtherNames == {sha}
LongNames == {aesCbc}
AllButOne == {o2, o3}
None == {}

\* What is registered in a locator, and the most there is in both at a time.
Entries(l) == Cardinality(classes[l]) + Cardinality(singletonClasses[l])
                 + Cardinality({n \in Names : singletonObjects[l][n] # NoObject})
MaxEntries == 3
Few == Entries(l1) + Entries(l2) <= MaxEntries

\* The aggregatable objects are alike, and so are the threads.
ObjectSymmetry == Permutations({o2, o3}) \cup Permutations(TwoThreads)
=============================================================================
