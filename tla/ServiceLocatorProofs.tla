------------------------ MODULE ServiceLocatorProofs ------------------------
(***************************************************************************)
(* Theorems about ServiceLocator for any sets of threads, locators and     *)
(* names, and any finite set of objects.                                   *)
(***************************************************************************)
EXTENDS ServiceLocator, FiniteSetTheorems, SequenceTheorems,
        WellFoundedInduction, TLAPS

\* What a call has in hand between its two sections: the class it found is
\* still there or was seen to go, and the name has no object or one was seen
\* to come.
CallsOK ==
    \A t \in Threads :
        LET c == call[t] IN
        /\ c.at = "register" => c.it = "class" /\ c.obj \in constructed
        /\ c.at \in {"build", "register"} =>
              /\ c.it = "class" => c.name \in singletonClasses[c.loc] \/ c.erased
              /\ singletonObjects[c.loc][c.name] = NoObject \/ c.raced

Carries(t, o) == call[t].at = "register" /\ call[t].obj = o

\* The object a call has built is its own, and was never told what it contains;
\* nor was one that is yet to be built.
NewObjectsOK ==
    /\ \A t, u \in Threads : \A o \in Objects : Carries(t, o) /\ Carries(u, o) => t = u
    /\ \A o \in Fresh : contained[o] = NoObject
    /\ \A t \in Threads : \A o \in Objects : Carries(t, o) => contained[o] = NoObject

\* q is what the pointers lead through from o.
Linked(q, o) ==
    /\ o = IF q = <<>> THEN NoObject ELSE q[1]
    /\ \A i \in 1 .. Len(q) : Inner(q[i]) = IF i = Len(q) THEN NoObject ELSE q[i + 1]

\* No object is in two places of s.
OnePlace(s) ==
    \A l, k \in Locators : \A n, m \in Names :
        \A i \in 1 .. Len(s[l][n]), j \in 1 .. Len(s[k][m]) :
            s[l][n][i] = s[k][m][j] => l = k /\ n = m /\ i = j

Told(q) == \A i \in 2 .. Len(q) : q[i] \in Aggregatable => container[q[i]] = q[i - 1]

\* s is what the names lead to: the pointers agree with it both ways, and its
\* objects are all different, registered by somebody and in nobody's hands.
Represents(s) ==
    /\ s \in [Locators -> [Names -> Seq(Objects)]]
    /\ OnePlace(s)
    /\ \A l \in Locators, n \in Names :
          /\ Linked(s[l][n], singletonObjects[l][n])
          /\ Told(s[l][n])
          /\ \A i \in 1 .. Len(s[l][n]) :
                /\ s[l][n][i] \in constructed
                /\ \A t \in Threads : ~Carries(t, s[l][n][i])

IInv == TypeOK /\ CallsOK /\ NewObjectsOK /\ Represents(Stacks)

-----------------------------------------------------------------------------
(* What the names lead to *)

\* Induction over the natural numbers, for a set of them.
LEMMA SetInduction ==
    ASSUME NEW S, 0 \in S, \A k \in Nat : k \in S => k + 1 \in S
    PROVE  Nat \subseteq S
<1> SUFFICES ASSUME Nat \ S # {} PROVE FALSE
  OBVIOUS
<1> DEFINE R == OpToRel(<, Nat)
<1>1. \A x, y \in Nat : x < y => <<x, y>> \in R
  BY DEF OpToRel
<1>2. IsWellFoundedOn(R, Nat)
  BY NatLessThanWellFounded
<1> HIDE DEF R
<1>3. PICK m \in Nat \ S : \A k \in Nat \ S : ~(<<k, m>> \in R)
  <2>1. Nat \ S \subseteq Nat
    OBVIOUS
  <2>2. QED  BY <1>2, <2>1, WFMin
<1>4. m - 1 \in Nat /\ m - 1 < m
  OBVIOUS
<1>5. m - 1 \in S
  BY <1>1, <1>3, <1>4
<1>6. QED  BY <1>4, <1>5

Things == Objects \cup {NoObject}
Height == Cardinality(Objects)

LEMMA HeightType == Height \in Nat
BY ServiceLocatorAssumption, FS_CardinalityType DEF Height

\* What one more level below an object looks like, when f has the others.
OneMore(f, k) ==
    [o \in Things |-> IF k = 0 \/ o = NoObject THEN <<>> ELSE <<o>> \o f[k - 1][Inner(o)]]

\* The recursion of Below has a solution, so Below is one.
LEMMA BelowIs == Below = [k \in 0 .. Height |-> OneMore(Below, k)]
<1> DEFINE S == {j \in Nat : \E f : \A k \in 0 .. j : f[k] = OneMore(f, k)}
<1>1. 0 \in S
  <2>1. \A f, g : OneMore(f, 0) = OneMore(g, 0)
    BY DEF OneMore
  <2> DEFINE g == [k \in 0 .. 0 |-> OneMore(<<>>, 0)]
  <2>2. g[0] = OneMore(<<>>, 0)
    OBVIOUS
  <2>3. g[0] = OneMore(g, 0)
    BY <2>1, <2>2
  <2>4. \A k \in 0 .. 0 : k = 0
    OBVIOUS
  <2> HIDE DEF g
  <2>5. QED  BY <2>3, <2>4
<1>2. ASSUME NEW j \in Nat, j \in S
      PROVE  j + 1 \in S
  <2>1. PICK f : \A k \in 0 .. j : f[k] = OneMore(f, k)
    BY <1>2
  <2> DEFINE g == [k \in 0 .. (j + 1) |-> OneMore(f, k)]
  <2>2. \A k \in 0 .. j : g[k] = f[k]
    BY <2>1
  <2>3. \A k \in 0 .. (j + 1) : g[k] = OneMore(f, k)
    OBVIOUS
  <2> HIDE DEF g
  <2>4. \A k \in 0 .. (j + 1) : OneMore(f, k) = OneMore(g, k)
    <3>1. ASSUME NEW k \in 0 .. (j + 1), k # 0
          PROVE  g[k - 1] = f[k - 1]
      BY <2>2, <3>1
    <3>2. QED  BY <3>1 DEF OneMore
  <2>5. QED  BY <2>3, <2>4
<1> HIDE DEF S
<1>3. Nat \subseteq S
  BY <1>1, <1>2, SetInduction
<1>4. Height \in S
  BY <1>3, HeightType
<1>5. PICK f : \A k \in 0 .. Height : f[k] = OneMore(f, k)
  BY <1>4 DEF S
<1> DEFINE g == [k \in 0 .. Height |-> f[k]]
<1>6. \A k \in 0 .. Height : g[k] = f[k]
  OBVIOUS
<1>7. \A k \in 0 .. Height : OneMore(f, k) = OneMore(g, k)
  <2>1. ASSUME NEW k \in 0 .. Height, k # 0
        PROVE  g[k - 1] = f[k - 1]
    <3>1. k - 1 \in 0 .. Height
      BY <2>1, HeightType
    <3>2. QED  BY <3>1
  <2> HIDE DEF g
  <2>2. QED  BY <2>1 DEF OneMore
<1>8. g = [k \in 0 .. Height |-> OneMore(g, k)]
  BY <1>5, <1>7
<1> HIDE DEF g
<1>9. Below = CHOOSE h : h = [k \in 0 .. Height |-> OneMore(h, k)]
  BY Zenon DEF Below, OneMore, Height, Things
<1>10. QED  BY <1>8, <1>9

LEMMA BelowOne ==
    ASSUME NEW k \in 0 .. Height, NEW o \in Things
    PROVE  Below[k][o] = IF k = 0 \/ o = NoObject THEN <<>> ELSE <<o>> \o Below[k - 1][Inner(o)]
<1>1. Below[k] = OneMore(Below, k)
  BY BelowIs
<1>2. QED  BY <1>1 DEF OneMore

\* Pushing an object on a sequence of them, and its first object taken off.
LEMMA PushProperties ==
    ASSUME NEW q \in Seq(Objects), NEW o \in Objects
    PROVE  /\ <<o>> \o q \in Seq(Objects)
           /\ Len(<<o>> \o q) = Len(q) + 1
           /\ (<<o>> \o q)[1] = o
           /\ \A i \in 1 .. Len(q) : (<<o>> \o q)[i + 1] = q[i]
<1>1. <<o>> \in Seq(Objects) /\ Len(<<o>>) = 1 /\ <<o>>[1] = o
  OBVIOUS
<1>2. Len(q) \in Nat
  BY LenProperties
<1>3. /\ <<o>> \o q \in Seq(Objects)
      /\ Len(<<o>> \o q) = Len(<<o>>) + Len(q)
      /\ \A i \in 1 .. Len(<<o>>) + Len(q) : (<<o>> \o q)[i] =
             IF i <= Len(<<o>>) THEN <<o>>[i] ELSE q[i - Len(<<o>>)]
  BY <1>1, ConcatProperties
<1>4. QED  BY <1>1, <1>2, <1>3

LEMMA TailProperties ==
    ASSUME NEW q \in Seq(Objects), q # <<>>
    PROVE  /\ q[1] \in Objects
           /\ Tail(q) \in Seq(Objects)
           /\ Len(q) \in Nat \ {0}
           /\ Len(Tail(q)) = Len(q) - 1
           /\ \A i \in 1 .. Len(q) - 1 : Tail(q)[i] = q[i + 1]
           /\ <<q[1]>> \o Tail(q) = q
<1>1. Len(q) \in Nat \ {0}
  BY EmptySeq
<1>2. q[1] \in Objects
  BY <1>1, ElementOfSeq
<1>3. /\ Tail(q) \in Seq(Objects)
      /\ Len(Tail(q)) = Len(q) - 1
      /\ \A i \in 1 .. Len(Tail(q)) : Tail(q)[i] = q[i + 1]
  BY HeadTailProperties
<1> DEFINE p == <<q[1]>> \o Tail(q)
<1>4. /\ p \in Seq(Objects) /\ Len(p) = Len(Tail(q)) + 1 /\ p[1] = q[1]
      /\ \A i \in 1 .. Len(Tail(q)) : p[i + 1] = Tail(q)[i]
  BY <1>2, <1>3, PushProperties
<1> HIDE DEF p
<1>5. Len(p) = Len(q)
  BY <1>1, <1>3, <1>4
<1>6. ASSUME NEW i \in 1 .. Len(p) PROVE p[i] = q[i]
  <2>1. CASE i = 1
    BY <2>1, <1>4
  <2>2. CASE i # 1
    <3>1. i - 1 \in 1 .. Len(Tail(q)) /\ (i - 1) + 1 = i
      BY <2>2, <1>1, <1>3, <1>5
    <3>2. p[(i - 1) + 1] = Tail(q)[i - 1] /\ Tail(q)[i - 1] = q[(i - 1) + 1]
      BY <3>1, <1>3, <1>4
    <3>3. QED  BY <3>1, <3>2
  <2>3. QED  BY <2>1, <2>2
<1>7. p = q
  BY <1>4, <1>5, <1>6, SeqEqual
<1>8. QED  BY <1>1, <1>2, <1>3, <1>7 DEF p

\* Sequences as long as the objects are many are followed to the end.
LEMMA LinkedIs ==
    ASSUME NEW k \in 0 .. Height, NEW q \in Seq(Objects), NEW o, Linked(q, o), Len(q) <= k
    PROVE  Below[k][o] = q
<1> DEFINE Good(j) == \A p \in Seq(Objects) : \A x : Linked(p, x) /\ Len(p) <= j => Below[j][x] = p
           S == {j \in Nat : j <= Height => Good(j)}
<1>0. Height \in Nat
  BY HeightType
<1>1. ASSUME NEW j \in Nat, j <= Height, NEW x, Linked(<<>>, x) PROVE Below[j][x] = <<>>
  <2>1. x = NoObject /\ x \in Things
    BY <1>1 DEF Linked, Things
  <2>2. j \in 0 .. Height
    BY <1>1, <1>0
  <2>3. QED  BY <2>1, <2>2, BelowOne
<1>2. 0 \in S
  <2>1. ASSUME NEW p \in Seq(Objects), NEW x, Linked(p, x), Len(p) <= 0
        PROVE  Below[0][x] = p
    <3>1. p = <<>>
      BY <2>1, EmptySeq
    <3>2. QED  BY <3>1, <2>1, <1>0, <1>1
  <2>2. QED  BY <2>1
<1>3. ASSUME NEW j \in Nat, j \in S
      PROVE  j + 1 \in S
  <2>1. ASSUME j + 1 <= Height, NEW p \in Seq(Objects), NEW x, Linked(p, x), Len(p) <= j + 1
        PROVE  Below[j + 1][x] = p
    <3>1. CASE p = <<>>
      BY <3>1, <2>1, <1>0, <1>1
    <3>2. CASE p # <<>>
      <4>1. /\ p[1] \in Objects /\ Tail(p) \in Seq(Objects) /\ Len(p) \in Nat \ {0}
            /\ Len(Tail(p)) = Len(p) - 1
            /\ \A i \in 1 .. Len(p) - 1 : Tail(p)[i] = p[i + 1]
            /\ <<p[1]>> \o Tail(p) = p
        BY <3>2, TailProperties
      <4>2. x = p[1] /\ x \in Things /\ x # NoObject
        BY <4>1, <3>2, <2>1, ServiceLocatorAssumption DEF Linked, Things
      <4>3. Linked(Tail(p), Inner(x))
        <5>1. Inner(x) = IF Len(p) = 1 THEN NoObject ELSE p[2]
          <6>1. 1 \in 1 .. Len(p) /\ 1 + 1 = 2
            BY <4>1
          <6>2. Inner(p[1]) = IF 1 = Len(p) THEN NoObject ELSE p[1 + 1]
            BY <6>1, <2>1 DEF Linked
          <6>3. QED  BY <6>1, <6>2, <4>2
        <5>2. Inner(x) = IF Tail(p) = <<>> THEN NoObject ELSE Tail(p)[1]
          <6>1. CASE Len(p) = 1
            <7>1. Tail(p) = <<>>
              BY <6>1, <4>1, EmptySeq
            <7>2. QED  BY <6>1, <7>1, <5>1
          <6>2. CASE Len(p) # 1
            <7>1. Tail(p) # <<>>
              <8>1. Len(Tail(p)) # 0
                BY <6>2, <4>1
              <8>2. Len(<<>>) = 0
                OBVIOUS
              <8>3. QED  BY <8>1, <8>2
            <7>2. 1 \in 1 .. Len(p) - 1 /\ 1 + 1 = 2
              BY <6>2, <4>1
            <7>3. Tail(p)[1] = p[1 + 1]
              BY <7>2, <4>1
            <7>4. QED  BY <6>2, <7>1, <7>2, <7>3, <5>1
          <6>3. QED  BY <6>1, <6>2
        <5>3. ASSUME NEW i \in 1 .. Len(Tail(p))
              PROVE  Inner(Tail(p)[i]) = IF i = Len(Tail(p)) THEN NoObject ELSE Tail(p)[i + 1]
          <6>0. i \in Nat /\ 1 <= i /\ i <= Len(p) - 1
            BY <4>1
          <6>1. i + 1 \in 1 .. Len(p) /\ i \in 1 .. Len(p) - 1
            BY <4>1, <6>0
          <6>2. Inner(p[i + 1]) = IF i + 1 = Len(p) THEN NoObject ELSE p[(i + 1) + 1]
            BY <6>1, <2>1 DEF Linked
          <6>4. i = Len(Tail(p)) <=> i + 1 = Len(p)
            BY <4>1, <6>0
          <6>3. i # Len(Tail(p)) => i + 1 \in 1 .. Len(p) - 1
            <7>1. \A m \in Nat : i <= m - 1 /\ i # m - 1 => i + 1 \in 1 .. m - 1
              BY <6>0
            <7>2. QED  BY <4>1, <6>0, <7>1
          <6>5. i # Len(Tail(p)) => Tail(p)[i + 1] = p[(i + 1) + 1]
            BY <6>3, <4>1
          <6>6. QED  BY <6>1, <6>2, <6>4, <6>5, <4>1
        <5>4. QED  BY <5>2, <5>3 DEF Linked
      <4>4. Below[j][Inner(x)] = Tail(p)
        <5>1. j <= Height /\ Len(Tail(p)) <= j
          BY <4>1, <2>1, <1>0
        <5>2. Good(j)
          BY <5>1, <1>3
        <5>3. QED  BY <5>1, <5>2, <4>1, <4>3
      <4>5. Below[j + 1][x] = <<x>> \o Below[j][Inner(x)]
        <5>1. j + 1 \in 0 .. Height /\ j + 1 # 0 /\ (j + 1) - 1 = j
          BY <2>1, <1>0
        <5>2. QED  BY <5>1, <4>2, BelowOne
      <4>6. QED  BY <4>1, <4>2, <4>4, <4>5
    <3>3. QED  BY <3>1, <3>2
  <2>2. QED  BY <2>1
<1> HIDE DEF S
<1>4. Nat \subseteq S
  BY <1>2, <1>3, SetInduction
<1>5. Good(k)
  <2>1. k \in S /\ k <= Height
    BY <1>0, <1>4
  <2>2. QED  BY <2>1 DEF S
<1>6. QED  BY <1>5

\* A sequence of different objects is no longer than there are objects.
LEMMA ShortEnough ==
    ASSUME NEW q \in Seq(Objects), \A i, j \in 1 .. Len(q) : q[i] = q[j] => i = j
    PROVE  Len(q) <= Height
<1>1. Len(q) \in Nat /\ q \in [1 .. Len(q) -> Objects]
  BY LenProperties
<1>2. Height \in Nat /\ IsFiniteSet(Objects)
  BY HeightType, ServiceLocatorAssumption
<1>3. IsFiniteSet(1 .. Len(q)) /\ Cardinality(1 .. Len(q)) = Len(q)
  <2>1. \A m \in Int : /\ IsFiniteSet(1 .. m)
                       /\ Cardinality(1 .. m) = IF 1 > m THEN 0 ELSE m - 1 + 1
    BY FS_Interval
  <2>2. QED  BY <1>1, <2>1
<1>4. ~(Cardinality(Objects) < Cardinality(1 .. Len(q)))
  BY <1>1, <1>2, <1>3, FS_PigeonHole
<1>5. QED  BY <1>1, <1>2, <1>3, <1>4 DEF Height

\* What represents the stacks is the stacks.
LEMMA StacksAre == \A s : Represents(s) => Stacks = s
<1> SUFFICES ASSUME NEW s, Represents(s) PROVE Stacks = s
  OBVIOUS
<1>1. ASSUME NEW l \in Locators, NEW n \in Names PROVE Stack(l, n) = s[l][n]
  <2>1. s[l][n] \in Seq(Objects) /\ Linked(s[l][n], singletonObjects[l][n])
    BY DEF Represents
  <2>2. \A i, j \in 1 .. Len(s[l][n]) : s[l][n][i] = s[l][n][j] => i = j
    BY DEF Represents, OnePlace
  <2>3. Len(s[l][n]) <= Height
    BY <2>1, <2>2, ShortEnough
  <2>4. Height \in 0 .. Height
    BY HeightType
  <2>5. Below[Height][singletonObjects[l][n]] = s[l][n]
    BY <2>1, <2>3, <2>4, LinkedIs
  <2>6. QED  BY <2>5 DEF Stack, Height
<1>2. s = [l \in Locators |-> [n \in Names |-> s[l][n]]]
  <2>1. s \in [Locators -> [Names -> Seq(Objects)]]
    BY DEF Represents
  <2>2. QED  BY <2>1
<1>3. QED  BY <1>1, <1>2 DEF Stacks

-----------------------------------------------------------------------------
(* Types *)

\* A call that is not under way is one.
LEMMA IdleIs ==
    ASSUME NEW o \in Things
    PROVE  /\ Idle(o) \in Call
           /\ Idle(o).at = "idle" /\ Idle(o).obj = o
           /\ [Idle(o) EXCEPT !.at = "crashed"] \in Call
           /\ [Idle(o) EXCEPT !.at = "crashed"].at = "crashed"
<1>1. (CHOOSE l \in Locators : TRUE) \in Locators /\ (CHOOSE n \in Names : TRUE) \in Names
  BY ServiceLocatorAssumption
<1>2. QED  BY <1>1 DEF Idle, NewCall, Call, Things

\* A call that goes on with another name.
LEMMA GoesOn ==
    ASSUME TypeOK, NEW t \in Threads, NEW n \in Names,
           call' = [call EXCEPT ![t].at = "lookup", ![t].name = n]
    PROVE  /\ call' \in [Threads -> Call]
           /\ \A u \in Threads : u # t => call'[u] = call[u]
           /\ call'[t].at = "lookup" /\ call'[t].name = n /\ call'[t].loc = call[t].loc
           /\ call'[t].full = call[t].full /\ call'[t].single = call[t].single
           /\ call'[t].disturbed = call[t].disturbed
<1>1. call[t] \in Call
  BY DEF TypeOK
<1> DEFINE c == [call[t] EXCEPT !.at = "lookup", !.name = n]
<1>2. /\ c \in Call
      /\ c.at = "lookup" /\ c.name = n /\ c.loc = call[t].loc
      /\ c.full = call[t].full /\ c.single = call[t].single /\ c.disturbed = call[t].disturbed
  BY <1>1 DEF Call
<1>3. call' = [call EXCEPT ![t] = c]
  BY DEF TypeOK
<1>4. call \in [Threads -> Call]
  BY DEF TypeOK
<1> HIDE DEF c
<1>5. call' \in [Threads -> Call] /\ call'[t] = c /\ \A u \in Threads : u # t => call'[u] = call[u]
  <2>1. c \in Call
    BY <1>2
  <2>2. QED  BY <1>3, <1>4, <2>1
<1>6. QED  BY <1>2, <1>5, Zenon

\* A call that goes on with an object.
LEMMA GoesOnWith ==
    ASSUME TypeOK, NEW t \in Threads, NEW o \in Things,
           call' = [call EXCEPT ![t].at = "register", ![t].obj = o]
    PROVE  /\ call' \in [Threads -> Call]
           /\ \A u \in Threads : u # t => call'[u] = call[u]
           /\ call'[t].at = "register" /\ call'[t].obj = o
           /\ call'[t].name = call[t].name /\ call'[t].loc = call[t].loc /\ call'[t].on = call[t].on
           /\ call'[t].full = call[t].full /\ call'[t].single = call[t].single
           /\ call'[t].it = call[t].it /\ call'[t].disturbed = call[t].disturbed
           /\ call'[t].erased = call[t].erased /\ call'[t].raced = call[t].raced
<1>1. call[t] \in Call
  BY DEF TypeOK
<1> DEFINE c == [call[t] EXCEPT !.at = "register", !.obj = o]
<1>2. /\ c \in Call
      /\ c.at = "register" /\ c.obj = o
      /\ c.name = call[t].name /\ c.loc = call[t].loc /\ c.on = call[t].on
      /\ c.full = call[t].full /\ c.single = call[t].single /\ c.it = call[t].it
      /\ c.disturbed = call[t].disturbed
      /\ c.erased = call[t].erased /\ c.raced = call[t].raced
  <2>a. PICK a : a = call[t]
    OBVIOUS
  <2>b. c = [a EXCEPT !.at = "register", !.obj = o]
    BY <2>a
  <2>c. o \in Objects \cup {NoObject} /\ a \in Call
    BY <1>1, <2>a DEF Things
  <2> HIDE DEF c
  <2>1. c \in Call
    BY <2>b, <2>c DEF Call
  <2>2. c.at = "register" /\ c.obj = o
    BY <2>b, <2>c DEF Call
  <2>3. /\ c.name = a.name /\ c.loc = a.loc /\ c.on = a.on
        /\ c.full = a.full /\ c.single = a.single /\ c.it = a.it
        /\ c.disturbed = a.disturbed /\ c.erased = a.erased /\ c.raced = a.raced
    BY <2>b, <2>c DEF Call
  <2>4. QED  BY <2>a, <2>1, <2>2, <2>3
<1>3. call' = [call EXCEPT ![t] = c]
  BY DEF TypeOK
<1>a. call \in [Threads -> Call]
  BY DEF TypeOK
<1> HIDE DEF c
<1>4. call' \in [Threads -> Call] /\ call'[t] = c /\ \A u \in Threads : u # t => call'[u] = call[u]
  <2>1. c \in Call
    BY <1>2
  <2>2. QED  BY <1>3, <1>a, <2>1
<1>5. /\ call'[t].at = "register" /\ call'[t].obj = o
      /\ call'[t].name = call[t].name /\ call'[t].loc = call[t].loc /\ call'[t].on = call[t].on
      /\ call'[t].full = call[t].full /\ call'[t].single = call[t].single
      /\ call'[t].it = call[t].it /\ call'[t].disturbed = call[t].disturbed
      /\ call'[t].erased = call[t].erased /\ call'[t].raced = call[t].raced
  BY <1>2, <1>4, Zenon
<1>6. QED  BY <1>4, <1>5

\* A call that returns.
LEMMA Returned ==
    ASSUME TypeOK, NEW t \in Threads, NEW o \in Things, Return(t, o)
    PROVE  /\ call' \in [Threads -> Call]
           /\ \A u \in Threads : u # t => call'[u] = call[u]
           /\ call'[t].at = "idle" /\ call'[t].obj = o
<1>1. call' = [call EXCEPT ![t] = Idle(o)]
  BY DEF Return
<1>2. QED  BY <1>1, IdleIs DEF TypeOK

\* The call keeps what it read.
LEMMA KeepsOn ==
    ASSUME TypeOK, NEW t \in Threads, KeepIterator(t)
    PROVE  /\ call' \in [Threads -> Call]
           /\ \A u \in Threads : u # t => call'[u] = call[u]
           /\ call'[t].at = "build" /\ call'[t].loc = call[t].loc /\ call'[t].on = call[t].on
           /\ call'[t].single = call[t].single /\ call'[t].full = call[t].full
           /\ call'[t].name = call[t].name
           /\ call'[t].it = IF call[t].name \in singletonClasses[call[t].loc] THEN "class" ELSE "end"
           /\ call'[t].disturbed <=> call[t].disturbed /\ call[t].name # call[t].full
           /\ ~call'[t].erased /\ ~call'[t].raced
<1>1. call[t] \in Call
  BY DEF TypeOK
<1> DEFINE it == IF call[t].name \in singletonClasses[call[t].loc] THEN "class" ELSE "end"
           c == [call[t] EXCEPT !.at = "build", !.it = it,
                                !.disturbed = @ /\ call[t].name # call[t].full,
                                !.torn = FALSE, !.erased = FALSE, !.raced = FALSE]
<1>2. it \in {"end", "class"}
  OBVIOUS
<1> HIDE DEF it
<1>3. /\ c \in Call
      /\ c.at = "build" /\ c.loc = call[t].loc /\ c.on = call[t].on
      /\ c.single = call[t].single /\ c.full = call[t].full /\ c.name = call[t].name
      /\ c.it = it
      /\ c.disturbed <=> call[t].disturbed /\ call[t].name # call[t].full
      /\ ~c.erased /\ ~c.raced
  <2>a. PICK a : a = call[t]
    OBVIOUS
  <2>b. PICK d : d = (a.disturbed /\ a.name # a.full)
    OBVIOUS
  <2>c. PICK b : b = [a EXCEPT !.at = "build", !.it = it, !.disturbed = d]
    OBVIOUS
  <2>d. c = [b EXCEPT !.torn = FALSE, !.erased = FALSE, !.raced = FALSE]
    BY <1>1, <2>a, <2>b, <2>c DEF Call
  <2>e. a \in Call /\ d \in BOOLEAN
    BY <1>1, <2>a, <2>b
  <2> HIDE DEF c
  <2>1. b \in Call
    BY <1>2, <2>c, <2>e DEF Call
  <2>2. /\ b.at = "build" /\ b.loc = a.loc /\ b.on = a.on /\ b.single = a.single
        /\ b.full = a.full /\ b.name = a.name /\ b.it = it /\ b.disturbed = d
    BY <2>c, <2>e DEF Call
  <2>3. c \in Call
    BY <2>d, <2>1 DEF Call
  <2>4. /\ c.at = b.at /\ c.loc = b.loc /\ c.on = b.on /\ c.single = b.single
        /\ c.full = b.full /\ c.name = b.name /\ c.it = b.it /\ c.disturbed = b.disturbed
        /\ c.erased = FALSE /\ c.raced = FALSE
    BY <2>d, <2>1 DEF Call
  <2>5. c.disturbed <=> a.disturbed /\ a.name # a.full
    BY <2>b, <2>2, <2>4
  <2>6. QED  BY <2>a, <2>2, <2>3, <2>4, <2>5
<1>4. call' = [call EXCEPT ![t] = c]
  BY DEF KeepIterator, it
<1> HIDE DEF c
<1>5. call' \in [Threads -> Call] /\ call'[t] = c /\ \A u \in Threads : u # t => call'[u] = call[u]
  BY <1>3, <1>4 DEF TypeOK
<1>6. QED  BY <1>3, <1>5 DEF it

\* A new call.
LEMMA Begins ==
    ASSUME NEW l \in Locators, NEW on \in Locators \cup {NoLocator}, NEW single \in BOOLEAN,
           NEW n \in Names
    PROVE  LET c == NewCall(l, on, single, n) IN
           c \in Call /\ c.at = "lookup" /\ c.loc = l /\ c.single = single /\ c.full = n /\ c.name = n
BY DEF NewCall, Call

\* What a change of the registry leaves of a call.
LEMMA SeenIs ==
    ASSUME TypeOK, NEW f \in [Threads -> Call], call' = Seen(f), NEW t \in Threads
    PROVE  /\ call' \in [Threads -> Call]
           /\ call'[t].at = f[t].at /\ call'[t].loc = f[t].loc /\ call'[t].on = f[t].on
           /\ call'[t].single = f[t].single /\ call'[t].full = f[t].full
           /\ call'[t].name = f[t].name /\ call'[t].it = f[t].it /\ call'[t].obj = f[t].obj
           /\ InFlight(f[t]) =>
                 /\ call'[t].erased <=>
                       \/ f[t].erased
                       \/ f[t].name \in singletonClasses[f[t].loc] \ singletonClasses'[f[t].loc]
                 /\ call'[t].raced <=>
                       \/ f[t].raced
                       \/ singletonObjects'[f[t].loc][f[t].name]
                             \notin {NoObject, singletonObjects[f[t].loc][f[t].name]}
<1> DEFINE New(c) ==
        [c EXCEPT !.disturbed = @ \/ \E i \in 1 .. 3 : registry'[i][c.loc] # registry[i][c.loc],
                  !.torn = @ \/ classes'[c.loc] # classes[c.loc],
                  !.erased = @ \/ c.name \in singletonClasses[c.loc] \ singletonClasses'[c.loc],
                  !.raced = @ \/ singletonObjects'[c.loc][c.name]
                                   \notin {NoObject, singletonObjects[c.loc][c.name]}]
<1>1. call' = [u \in Threads |-> IF ~InFlight(f[u]) THEN f[u] ELSE New(f[u])]
  BY DEF Seen
<1>2. ASSUME NEW c \in Call
      PROVE  /\ New(c) \in Call
             /\ New(c).at = c.at /\ New(c).loc = c.loc /\ New(c).on = c.on
             /\ New(c).single = c.single /\ New(c).full = c.full
             /\ New(c).name = c.name /\ New(c).it = c.it /\ New(c).obj = c.obj
             /\ New(c).erased <=> \/ c.erased
                                  \/ c.name \in singletonClasses[c.loc] \ singletonClasses'[c.loc]
             /\ New(c).raced <=> \/ c.raced
                                 \/ singletonObjects'[c.loc][c.name]
                                       \notin {NoObject, singletonObjects[c.loc][c.name]}
  <2> DEFINE a == c.disturbed \/ \E i \in 1 .. 3 : registry'[i][c.loc] # registry[i][c.loc]
             b == c.torn \/ classes'[c.loc] # classes[c.loc]
             d == c.erased \/ c.name \in singletonClasses[c.loc] \ singletonClasses'[c.loc]
             e == c.raced \/ singletonObjects'[c.loc][c.name]
                                \notin {NoObject, singletonObjects[c.loc][c.name]}
  <2>1. New(c) = [c EXCEPT !.disturbed = a, !.torn = b, !.erased = d, !.raced = e]
    OBVIOUS
  <2>2. a \in BOOLEAN /\ b \in BOOLEAN /\ d \in BOOLEAN /\ e \in BOOLEAN
    BY DEF Call
  <2>3. (d <=> \/ c.erased
               \/ c.name \in singletonClasses[c.loc] \ singletonClasses'[c.loc])
        /\ (e <=> \/ c.raced
                  \/ singletonObjects'[c.loc][c.name]
                        \notin {NoObject, singletonObjects[c.loc][c.name]})
    OBVIOUS
  <2> HIDE DEF a, b, d, e, New
  <2>4. New(c) \in Call
    BY <2>1, <2>2 DEF Call
  <2>5. /\ New(c).at = c.at /\ New(c).loc = c.loc /\ New(c).on = c.on
        /\ New(c).single = c.single /\ New(c).full = c.full
        /\ New(c).name = c.name /\ New(c).it = c.it /\ New(c).obj = c.obj
    BY <2>1 DEF Call
  <2>6. New(c).erased = d /\ New(c).raced = e
    BY <2>1 DEF Call
  <2>7. QED  BY <2>3, <2>4, <2>5, <2>6
<1> HIDE DEF New
<1>3. QED  BY <1>1, <1>2

\* The initial state has the types.
LEMMA InitTypeOK == Init => TypeOK
<1>1. Idle(NoObject) \in Call
  BY IdleIs DEF Things
<1>2. QED  BY <1>1 DEF Init, TypeOK

\* What StoreObject leaves has the types.
LEMMA StoreTypeOK ==
    ASSUME TypeOK, NEW l \in Locators, NEW n \in Names, NEW o \in Objects, StoreObject(l, n, o)
    PROVE  /\ singletonObjects' \in [Locators -> [Names -> Things]]
           /\ contained' \in [Objects -> Things]
           /\ container' \in [Objects -> Things]
<1> USE DEF Things
<1>1. singletonObjects[l][n] \in Things
  BY DEF TypeOK
<1>2. [singletonObjects EXCEPT ![l][n] = o] \in [Locators -> [Names -> Things]]
  BY DEF TypeOK
<1>3. /\ singletonObjects' \in {singletonObjects, [singletonObjects EXCEPT ![l][n] = o]}
      /\ contained' \in {contained, [contained EXCEPT ![o] = singletonObjects[l][n]]}
      /\ \/ container' = container
         \/ /\ singletonObjects[l][n] \in Aggregatable
            /\ container' = [container EXCEPT ![singletonObjects[l][n]] = o]
  BY DEF StoreObject
<1>4. singletonObjects' \in [Locators -> [Names -> Things]]
  BY <1>2, <1>3 DEF TypeOK
<1>5. contained' \in [Objects -> Things]
  BY <1>1, <1>3 DEF TypeOK
<1>6. container' \in [Objects -> Things]
  BY <1>1, <1>3 DEF TypeOK
<1>7. QED  BY <1>4, <1>5, <1>6

\* Every step keeps the types.
LEMMA NextTypeOK ==
    ASSUME TypeOK, CallsOK, Next
    PROVE  TypeOK'
<1> USE DEF Things, registry
<1>s. ASSUME NEW f \in [Threads -> Call], call' = Seen(f) PROVE call' \in [Threads -> Call]
  <2>1. CASE Threads = {}
    BY <2>1, <1>s DEF Seen
  <2>2. CASE Threads # {}
    BY <2>2, <1>s, SeenIs
  <2>3. QED  BY <2>1, <2>2
<1>c. call \in [Threads -> Call]
  BY DEF TypeOK
<1>i. ASSUME NEW t \in Threads, NEW o \in Things PROVE [call EXCEPT ![t] = Idle(o)] \in [Threads -> Call]
  BY <1>c, IdleIs
<1>a. ASSUME NEW l \in Locators, NEW n \in Names, AddSingletonClass(l, n) \/ AddClass(l, n)
      PROVE  TypeOK'
  BY <1>a, <1>c, <1>s DEF AddSingletonClass, AddClass, TypeOK
<1>n. ASSUME NEW t \in Threads, NothingFound(t) PROVE call' \in [Threads -> Call]
  <2>1. Shorter[call[t].name] \in Names \cup {NoName}
    BY <1>c, ServiceLocatorAssumption DEF Call
  <2>2. CASE Return(t, NoObject)
    BY <2>2, <1>i DEF Return
  <2>3. CASE /\ Shorter[call[t].name] # NoName
             /\ call' = [call EXCEPT ![t].at = "lookup", ![t].name = Shorter[call[t].name]]
    BY <2>1, <2>3, GoesOn
  <2>4. QED  BY <1>n, <2>2, <2>3 DEF NothingFound
<1>b. ASSUME NEW t \in Threads, NEW o \in Objects, NEW single \in BOOLEAN, Construct(t, o, single)
      PROVE  call' \in [Threads -> Call]
  <2>1. CASE Return(t, NoObject) \/ Return(t, o)
    BY <2>1, <1>i DEF Return
  <2>2. CASE call' = [call EXCEPT ![t].at = "register", ![t].obj = o]
    BY <2>2, GoesOnWith
  <2>3. QED  BY <1>b, <2>1, <2>2 DEF Construct
<1>1. CASE Change
  <2>1. PICK l \in Locators, n \in Names :
            \/ AddSingletonClass(l, n)
            \/ AddClass(l, n)
            \/ DeleteClass(l, n)
            \/ \E o \in Objects : AddSingletonObject(l, n, o)
            \/ \E to \in Locators : CopyClass(l, n, to)
    BY <1>1 DEF Change
  <2>2. CASE AddSingletonClass(l, n) \/ AddClass(l, n)
    BY <2>2, <1>a
  <2>3. CASE DeleteClass(l, n)
    <3>1. /\ singletonClasses' \in [Locators -> SUBSET Names]
          /\ classes' \in [Locators -> SUBSET Names]
          /\ UNCHANGED <<contained, constructed>>
      BY <2>3 DEF DeleteClass, TypeOK
    <3> DEFINE outer == singletonObjects[l][n]
               inner == IF outer \in Aggregatable THEN contained[outer] ELSE NoObject
    <3>2. outer \in Things /\ inner \in Things
      BY ServiceLocatorAssumption DEF TypeOK
    <3>3. singletonObjects' = [singletonObjects EXCEPT ![l][n] = inner]
      BY <2>3 DEF DeleteClass
    <3>4. container' \in {container, [container EXCEPT ![outer] = NoObject]}
      BY <2>3 DEF DeleteClass
    <3>5. call' \in [Threads -> Call]
      BY <2>3, <1>c, <1>s DEF DeleteClass
    <3> HIDE DEF outer, inner
    <3>6. QED  BY <3>1, <3>2, <3>3, <3>4, <3>5 DEF TypeOK
  <2>4. ASSUME NEW o \in Objects, AddSingletonObject(l, n, o) PROVE TypeOK'
    BY <2>4, <1>c, <1>s, StoreTypeOK DEF AddSingletonObject, TypeOK
  <2>5. ASSUME NEW to \in Locators, CopyClass(l, n, to) PROVE TypeOK'
    BY <2>5, <1>a DEF CopyClass
  <2>6. QED  BY <2>1, <2>2, <2>3, <2>4, <2>5
<1>2. ASSUME NEW t \in Threads, Begin(t) PROVE TypeOK'
  <2>1. PICK l \in Locators, n \in Names :
            \/ TryCreateSingleton(t, l, n)
            \/ \E on \in Locators \cup {NoLocator} : TryCreate(t, l, on, n)
    BY <1>2 DEF Begin
  <2>2. /\ \E on \in Locators \cup {NoLocator}, single \in BOOLEAN :
              call' = [call EXCEPT ![t] = NewCall(l, on, single, n)]
        /\ UNCHANGED <<registry, contained, container, constructed>>
    BY <2>1 DEF TryCreate, TryCreateSingleton
  <2>3. call' \in [Threads -> Call]
    BY <2>2, <1>c, Begins
  <2>4. QED  BY <2>2, <2>3 DEF TypeOK
<1>3. ASSUME NEW t \in Threads, Continue(t) PROVE TypeOK'
  <2>1. CASE Lookup(t)
    <3>1. call[t].loc \in Locators /\ call[t].name \in Names
      BY <1>c DEF Call
    <3>2. singletonObjects[call[t].loc][call[t].name] \in Things
      BY <3>1 DEF TypeOK
    <3>3. CASE Return(t, singletonObjects[call[t].loc][call[t].name])
      BY <2>1, <3>2, <3>3, <1>i DEF Lookup, Return, TypeOK
    <3>4. CASE KeepIterator(t)
      BY <2>1, <3>4, KeepsOn DEF Lookup, TypeOK
    <3>5. QED  BY <2>1, <3>3, <3>4 DEF Lookup
  <2>2. CASE BuildSingleton(t)
    BY <2>2, <1>n, <1>b DEF BuildSingleton, TypeOK, Fresh, Construct
  <2>3. CASE BuildOther(t)
    BY <2>3, <1>n, <1>b DEF BuildOther, TypeOK, Fresh, Construct
  <2>4. CASE Crash(t)
    BY <2>4, <1>c, IdleIs DEF Crash, TypeOK
  <2>5. CASE Register(t)
    <3> DEFINE c == call[t]
               f == [call EXCEPT ![t] = Idle(c.obj)]
    <3>1. c.loc \in Locators /\ c.name \in Names /\ c.obj \in Things /\ c.on \in Locators \cup {NoLocator}
      BY <1>c DEF Call
    <3>2. c.obj \in Objects
      BY <2>5 DEF Register, CallsOK, TypeOK
    <3>3. f \in [Threads -> Call]
      BY <3>1, <1>i
    <3>4. call' = Seen(f)
      BY <2>5 DEF Register
    <3>5. call' \in [Threads -> Call]
      BY <3>3, <3>4, <1>s
    <3>6. CASE c.on # NoLocator
      <4>1. StoreObject(c.on, c.name, c.obj) /\ c.on \in Locators
        BY <2>5, <3>1, <3>6 DEF Register
      <4>2. QED  BY <2>5, <3>1, <3>2, <3>5, <4>1, StoreTypeOK DEF Register, TypeOK
    <3>7. CASE c.on = NoLocator
      <4>1. singletonObjects' \in {singletonObjects, [singletonObjects EXCEPT ![c.loc][c.name] = c.obj]}
        BY <2>5, <3>7 DEF Register
      <4>2. UNCHANGED <<classes, singletonClasses, contained, container, constructed>>
        BY <2>5, <3>7 DEF Register
      <4>3. [singletonObjects EXCEPT ![c.loc][c.name] = c.obj] \in [Locators -> [Names -> Things]]
        BY <3>1, <3>2 DEF TypeOK
      <4>4. QED  BY <3>5, <4>1, <4>2, <4>3 DEF TypeOK
    <3>8. QED  BY <3>6, <3>7
  <2>6. QED  BY <1>3, <2>1, <2>2, <2>3, <2>4, <2>5 DEF Continue
<1>4. QED  BY <1>1, <1>2, <1>3 DEF Next

-----------------------------------------------------------------------------
(* What the calls have in hand *)

LEMMA InitCallsOK == Init => CallsOK
<1>1. Idle(NoObject).at = "idle"
  BY IdleIs DEF Things
<1>2. QED  BY <1>1 DEF Init, CallsOK

\* A change of the registry is seen by the calls under way.
LEMMA CallsSeen ==
    ASSUME TypeOK, CallsOK, NEW f \in [Threads -> Call], call' = Seen(f),
           \A t \in Threads : f[t] = call[t] \/ f[t].at = "idle",
           constructed \subseteq constructed'
    PROVE  CallsOK'
<1> SUFFICES ASSUME NEW t \in Threads
             PROVE  LET c == call'[t] IN
                    /\ c.at = "register" => c.it = "class" /\ c.obj \in constructed'
                    /\ c.at \in {"build", "register"} =>
                          /\ c.it = "class" => c.name \in singletonClasses'[c.loc] \/ c.erased
                          /\ singletonObjects'[c.loc][c.name] = NoObject \/ c.raced
  BY DEF CallsOK
<1>1. /\ call'[t].at = f[t].at /\ call'[t].loc = f[t].loc
      /\ call'[t].name = f[t].name /\ call'[t].it = f[t].it /\ call'[t].obj = f[t].obj
      /\ InFlight(f[t]) =>
            /\ call'[t].erased <=>
                  \/ f[t].erased
                  \/ f[t].name \in singletonClasses[f[t].loc] \ singletonClasses'[f[t].loc]
            /\ call'[t].raced <=>
                  \/ f[t].raced
                  \/ singletonObjects'[f[t].loc][f[t].name]
                        \notin {NoObject, singletonObjects[f[t].loc][f[t].name]}
  BY SeenIs
<1>2. CASE f[t].at = "idle"
  BY <1>1, <1>2
<1>3. CASE f[t] = call[t]
  <2>1. /\ call[t].at = "register" => call[t].it = "class" /\ call[t].obj \in constructed
        /\ call[t].at \in {"build", "register"} =>
              /\ call[t].it = "class" =>
                    call[t].name \in singletonClasses[call[t].loc] \/ call[t].erased
              /\ singletonObjects[call[t].loc][call[t].name] = NoObject \/ call[t].raced
    BY DEF CallsOK
  <2>2. call[t].at \in {"build", "register"} => InFlight(call[t])
    BY DEF InFlight
  <2>3. QED  BY <1>1, <1>3, <2>1, <2>2
<1>4. QED  BY <1>2, <1>3

\* A step of one call that leaves the registry alone.
LEMMA CallsAlone ==
    ASSUME CallsOK, UNCHANGED <<singletonClasses, singletonObjects>>, NEW t \in Threads,
           \A u \in Threads : u # t => call'[u] = call[u],
           constructed \subseteq constructed',
           call'[t].at = "register" => call'[t].it = "class" /\ call'[t].obj \in constructed',
           call'[t].at \in {"build", "register"} =>
              /\ call'[t].it = "class" =>
                    call'[t].name \in singletonClasses[call'[t].loc] \/ call'[t].erased
              /\ singletonObjects[call'[t].loc][call'[t].name] = NoObject \/ call'[t].raced
    PROVE  CallsOK'
BY DEF CallsOK

\* What the steps of a call between its sections, and into them, come to.
LEMMA ThreadStep ==
    ASSUME TypeOK, CallsOK, NEW t \in Threads,
           Begin(t) \/ Lookup(t) \/ BuildSingleton(t) \/ BuildOther(t) \/ Crash(t)
    PROVE  /\ UNCHANGED <<registry, contained, container>>
           /\ \A u \in Threads : u # t => call'[u] = call[u]
           /\ \/ /\ call'[t].at \in {"idle", "crashed", "lookup"}
                 /\ constructed' = constructed \/ \E o \in Fresh : constructed' = constructed \cup {o}
              \/ /\ call[t].at = "lookup" /\ KeepIterator(t)
                 /\ singletonObjects[call[t].loc][call[t].name] = NoObject
                 /\ UNCHANGED constructed
              \/ /\ BuildSingleton(t) /\ call[t].at = "build"
                 /\ call[t].it = "class" /\ call[t].name \notin NullCreators \cup Refusing
                 /\ \E o \in Fresh : /\ constructed' = constructed \cup {o}
                                     /\ call' = [call EXCEPT ![t].at = "register", ![t].obj = o]
<1>c. call \in [Threads -> Call] /\ call[t] \in Call
  BY DEF TypeOK
<1>n. ASSUME NothingFound(t)
      PROVE  /\ \A u \in Threads : u # t => call'[u] = call[u]
             /\ call'[t].at \in {"idle", "lookup"}
  <2>1. Shorter[call[t].name] \in Names \cup {NoName}
    BY <1>c, ServiceLocatorAssumption DEF Call
  <2>2. CASE Return(t, NoObject)
    BY <2>2, <1>c, IdleIs DEF Return, Things
  <2>3. CASE /\ Shorter[call[t].name] # NoName
             /\ call' = [call EXCEPT ![t].at = "lookup", ![t].name = Shorter[call[t].name]]
    BY <2>1, <2>3, GoesOn
  <2>4. QED  BY <1>n, <2>2, <2>3 DEF NothingFound
<1>1. CASE Begin(t)
  <2>1. /\ \E l \in Locators, on \in Locators \cup {NoLocator}, single \in BOOLEAN, n \in Names :
              call' = [call EXCEPT ![t] = NewCall(l, on, single, n)]
        /\ UNCHANGED <<registry, contained, container, constructed>>
    BY <1>1 DEF Begin, TryCreate, TryCreateSingleton
  <2>2. (\A u \in Threads : u # t => call'[u] = call[u]) /\ call'[t].at = "lookup"
    BY <2>1, <1>c, Begins
  <2>3. QED  BY <2>1, <2>2
<1>2. CASE Lookup(t)
  <2>1. CASE \E o : Return(t, o) /\ o \in Things
    BY <1>2, <2>1, <1>c, IdleIs DEF Return, Lookup
  <2>2. CASE KeepIterator(t) /\ singletonObjects[call[t].loc][call[t].name] = NoObject
    BY <1>2, <2>2, KeepsOn DEF Lookup
  <2>3. singletonObjects[call[t].loc][call[t].name] \in Things
    BY <1>c DEF Call, TypeOK, Things
  <2>4. QED  BY <1>2, <2>1, <2>2, <2>3 DEF Lookup
<1>3. CASE BuildSingleton(t)
  <2>1. CASE NothingFound(t) /\ UNCHANGED constructed
    BY <1>3, <2>1, <1>n DEF BuildSingleton
  <2>2. ASSUME call[t].name \notin NullCreators, NEW o \in Fresh, Construct(t, o, TRUE)
        PROVE  /\ \A u \in Threads : u # t => call'[u] = call[u]
               /\ constructed' = constructed \cup {o}
               /\ \/ call'[t].at = "idle"
                  \/ /\ call[t].name \notin NullCreators \cup Refusing
                     /\ call' = [call EXCEPT ![t].at = "register", ![t].obj = o]
    <3>1. o \in Things /\ NoObject \in Things
      BY DEF Fresh, Things
    <3>2. CASE Return(t, NoObject)
      BY <2>2, <3>1, <3>2, <1>c, IdleIs DEF Return, Construct
    <3>3. CASE /\ call[t].name \notin Refusing
               /\ call' = [call EXCEPT ![t].at = "register", ![t].obj = o]
      BY <2>2, <3>1, <3>3, GoesOnWith DEF Construct
    <3>4. QED  BY <2>2, <3>2, <3>3 DEF Construct
  <2>3. CASE call[t].name \notin NullCreators /\ \E o \in Fresh : Construct(t, o, TRUE)
    <3>1. PICK o \in Fresh : Construct(t, o, TRUE)
      BY <2>3
    <3>2. /\ \A u \in Threads : u # t => call'[u] = call[u]
          /\ constructed' = constructed \cup {o}
          /\ \/ call'[t].at = "idle"
             \/ /\ call[t].name \notin NullCreators \cup Refusing
                /\ call' = [call EXCEPT ![t].at = "register", ![t].obj = o]
      BY <2>2, <2>3, <3>1
    <3>3. QED  BY <1>3, <3>2 DEF BuildSingleton
  <2>4. QED  BY <1>3, <2>1, <2>3 DEF BuildSingleton
<1>4. CASE BuildOther(t)
  <2>1. CASE NothingFound(t) /\ UNCHANGED constructed
    BY <1>4, <2>1, <1>n DEF BuildOther
  <2>2. ASSUME NEW o \in Fresh, Construct(t, o, FALSE)
        PROVE  /\ \A u \in Threads : u # t => call'[u] = call[u]
               /\ constructed' = constructed \cup {o}
               /\ call'[t].at = "idle"
    <3>1. o \in Things /\ NoObject \in Things
      BY DEF Fresh, Things
    <3>2. constructed' = constructed \cup {o} /\ (Return(t, NoObject) \/ Return(t, o))
      BY <2>2 DEF Construct
    <3>3. (\A u \in Threads : u # t => call'[u] = call[u]) /\ call'[t].at = "idle"
      BY <3>1, <3>2, Returned
    <3>4. QED  BY <3>2, <3>3
  <2>3. CASE \E o \in Fresh : Construct(t, o, FALSE)
    BY <1>4, <2>2, <2>3 DEF BuildOther
  <2>4. QED  BY <1>4, <2>1, <2>3 DEF BuildOther
<1>5. CASE Crash(t)
  BY <1>5, <1>c, IdleIs DEF Crash, Things
<1>6. QED  BY <1>1, <1>2, <1>3, <1>4, <1>5

\* Every step keeps what the calls have in hand.
LEMMA NextCallsOK ==
    ASSUME TypeOK, CallsOK, Next
    PROVE  CallsOK'
<1>c. call \in [Threads -> Call]
  BY DEF TypeOK
<1>1. CASE Change
  <2>1. call' = Seen(call) /\ constructed \subseteq constructed'
    BY <1>1 DEF Change, AddSingletonClass, AddClass, DeleteClass, AddSingletonObject, CopyClass
  <2>2. QED  BY <2>1, <1>c, CallsSeen
<1>2. ASSUME NEW t \in Threads,
             Begin(t) \/ Lookup(t) \/ BuildSingleton(t) \/ BuildOther(t) \/ Crash(t)
      PROVE  CallsOK'
  <2>1. /\ UNCHANGED <<registry, contained, container>>
        /\ \A u \in Threads : u # t => call'[u] = call[u]
        /\ \/ /\ call'[t].at \in {"idle", "crashed", "lookup"}
              /\ constructed' = constructed \/ \E o \in Fresh : constructed' = constructed \cup {o}
           \/ /\ call[t].at = "lookup" /\ KeepIterator(t)
              /\ singletonObjects[call[t].loc][call[t].name] = NoObject
              /\ UNCHANGED constructed
           \/ /\ BuildSingleton(t) /\ call[t].at = "build"
              /\ call[t].it = "class" /\ call[t].name \notin NullCreators \cup Refusing
              /\ \E o \in Fresh : /\ constructed' = constructed \cup {o}
                                  /\ call' = [call EXCEPT ![t].at = "register", ![t].obj = o]
    BY <1>2, ThreadStep
  <2>2. constructed \subseteq constructed'
    BY <2>1
  <2>3. CASE call'[t].at \in {"idle", "crashed", "lookup"}
    BY <2>1, <2>2, <2>3, CallsAlone DEF registry
  <2>4. CASE /\ call[t].at = "lookup" /\ KeepIterator(t)
             /\ singletonObjects[call[t].loc][call[t].name] = NoObject
             /\ UNCHANGED constructed
    <3>1. /\ call'[t].at = "build" /\ call'[t].loc = call[t].loc /\ call'[t].name = call[t].name
          /\ call'[t].it = IF call[t].name \in singletonClasses[call[t].loc] THEN "class" ELSE "end"
      BY <2>4, KeepsOn
    <3>2. QED  BY <2>1, <2>2, <2>4, <3>1, CallsAlone DEF registry
  <2>5. CASE /\ call[t].at = "build" /\ call[t].it = "class"
             /\ \E o \in Fresh : /\ constructed' = constructed \cup {o}
                                 /\ call' = [call EXCEPT ![t].at = "register", ![t].obj = o]
    <3>1. PICK o \in Fresh : /\ constructed' = constructed \cup {o}
                             /\ call' = [call EXCEPT ![t].at = "register", ![t].obj = o]
      BY <2>5
    <3>2. /\ call'[t].at = "register" /\ call'[t].obj = o
          /\ call'[t].name = call[t].name /\ call'[t].loc = call[t].loc /\ call'[t].it = call[t].it
          /\ call'[t].erased = call[t].erased /\ call'[t].raced = call[t].raced
      BY <3>1, GoesOnWith DEF Fresh, Things
    <3>3. /\ call[t].it = "class" => call[t].name \in singletonClasses[call[t].loc] \/ call[t].erased
          /\ singletonObjects[call[t].loc][call[t].name] = NoObject \/ call[t].raced
      BY <2>5 DEF CallsOK
    <3>4. QED  BY <2>1, <2>2, <2>5, <3>1, <3>2, <3>3, CallsAlone DEF registry
  <2>6. QED  BY <2>1, <2>3, <2>4, <2>5
<1>3. ASSUME NEW t \in Threads, Register(t) PROVE CallsOK'
  <2> DEFINE f == [call EXCEPT ![t] = Idle(call[t].obj)]
  <2>1. call[t].obj \in Things
    BY <1>c DEF Call, Things
  <2>2. f \in [Threads -> Call] /\ \A u \in Threads : f[u] = call[u] \/ f[u].at = "idle"
    BY <2>1, <1>c, IdleIs
  <2>3. call' = Seen(f) /\ constructed' = constructed
    BY <1>3 DEF Register
  <2> HIDE DEF f
  <2>4. QED  BY <2>2, <2>3, CallsSeen
<1>4. QED  BY <1>1, <1>2, <1>3 DEF Next, Continue

-----------------------------------------------------------------------------
(* The stacks *)

\* One stack changed, the others kept.
With(s, l, n, q) == [s EXCEPT ![l][n] = q]

LEMMA WithIs ==
    ASSUME NEW s \in [Locators -> [Names -> Seq(Objects)]], NEW l \in Locators, NEW n \in Names,
           NEW q \in Seq(Objects), NEW r, r = With(s, l, n, q)
    PROVE  /\ r \in [Locators -> [Names -> Seq(Objects)]]
           /\ r[l][n] = q
           /\ \A k \in Locators, m \in Names : k # l \/ m # n => r[k][m] = s[k][m]
BY DEF With

\* o is the i-th object under name m.
In(s, k, m, i, o) == i \in 1 .. Len(s[k][m]) /\ s[k][m][i] = o

LEMMA OnePlaceIn ==
    ASSUME NEW s
    PROVE  OnePlace(s) <=>
              \A o : \A k, k2 \in Locators : \A m, m2 \in Names : \A i, j \in Int :
                 In(s, k, m, i, o) /\ In(s, k2, m2, j, o) => k = k2 /\ m = m2 /\ i = j
<1>1. ASSUME OnePlace(s), NEW o, NEW k \in Locators, NEW k2 \in Locators,
             NEW m \in Names, NEW m2 \in Names, NEW i \in Int, NEW j \in Int,
             In(s, k, m, i, o), In(s, k2, m2, j, o)
      PROVE  k = k2 /\ m = m2 /\ i = j
  <2>1. /\ i \in 1 .. Len(s[k][m]) /\ j \in 1 .. Len(s[k2][m2])
        /\ s[k][m][i] = s[k2][m2][j]
    BY <1>1 DEF In
  <2>2. \A a \in 1 .. Len(s[k][m]), b \in 1 .. Len(s[k2][m2]) :
           s[k][m][a] = s[k2][m2][b] => k = k2 /\ m = m2 /\ a = b
    BY <1>1 DEF OnePlace
  <2>3. QED  BY <2>1, <2>2
<1>2. ASSUME \A o : \A k, k2 \in Locators : \A m, m2 \in Names : \A i, j \in Int :
                In(s, k, m, i, o) /\ In(s, k2, m2, j, o) => k = k2 /\ m = m2 /\ i = j,
             NEW k \in Locators, NEW k2 \in Locators, NEW m \in Names, NEW m2 \in Names,
             NEW i \in 1 .. Len(s[k][m]), NEW j \in 1 .. Len(s[k2][m2]),
             s[k][m][i] = s[k2][m2][j]
      PROVE  k = k2 /\ m = m2 /\ i = j
  <2>0. PICK v : v = s[k][m][i]
    OBVIOUS
  <2>1. In(s, k, m, i, v) /\ In(s, k2, m2, j, v)
    BY <1>2, <2>0 DEF In
  <2>2. i \in Int /\ j \in Int
    OBVIOUS
  <2>3. QED  BY <1>2, <2>1, <2>2
<1>3. QED  BY <1>1, <1>2, Zenon DEF OnePlace

\* At first there are none.
LEMMA InitRepresents == Init => Represents(Stacks)
<1> SUFFICES ASSUME Init PROVE Represents(Stacks)
  OBVIOUS
<1> DEFINE s == [l \in Locators |-> [n \in Names |-> <<>>]]
<1>1. s \in [Locators -> [Names -> Seq(Objects)]]
  BY EmptySeq
<1>2. Len(<<>>) = 0
  OBVIOUS
<1>3. \A l \in Locators, n \in Names : s[l][n] = <<>> /\ singletonObjects[l][n] = NoObject
  BY DEF Init
<1> HIDE DEF s
<1>4. OnePlace(s)
  BY <1>2, <1>3 DEF OnePlace
<1>5. Represents(s)
  BY <1>1, <1>2, <1>3, <1>4 DEF Represents, Linked, Told
<1>6. QED  BY <1>5, StacksAre

\* A step that touches no pointer.
LEMMA PointersKept ==
    ASSUME NEW s, Represents(s), UNCHANGED <<singletonObjects, contained, container>>,
           constructed \subseteq constructed',
           \A t \in Threads : \A o \in constructed : Carries(t, o)' => Carries(t, o)
    PROVE  Represents(s)'
BY DEF Represents, Linked, Inner, Told

\* An object that is in no stack goes on one.
LEMMA OnePlacePush ==
    ASSUME NEW s \in [Locators -> [Names -> Seq(Objects)]], OnePlace(s),
           NEW l \in Locators, NEW n \in Names, NEW o \in Objects,
           \A k \in Locators, m \in Names : \A i \in 1 .. Len(s[k][m]) : s[k][m][i] # o,
           NEW r, r = With(s, l, n, <<o>> \o s[l][n])
    PROVE  OnePlace(r)
<1>1. s[l][n] \in Seq(Objects)
  OBVIOUS
<1>2. /\ <<o>> \o s[l][n] \in Seq(Objects)
      /\ Len(<<o>> \o s[l][n]) = Len(s[l][n]) + 1
      /\ (<<o>> \o s[l][n])[1] = o
      /\ \A i \in 1 .. Len(s[l][n]) : (<<o>> \o s[l][n])[i + 1] = s[l][n][i]
  BY <1>1, PushProperties
<1>3. /\ r[l][n] = <<o>> \o s[l][n]
      /\ \A k \in Locators, m \in Names : k # l \/ m # n => r[k][m] = s[k][m]
  BY <1>2 DEF With
<1>4. Len(s[l][n]) \in Nat
  BY <1>1, LenProperties
<1>5. ASSUME NEW x, NEW k \in Locators, NEW m \in Names, NEW i \in Int, In(r, k, m, i, x)
      PROVE  \/ k = l /\ m = n /\ i = 1 /\ x = o
             \/ k = l /\ m = n /\ In(s, l, n, i - 1, x) /\ x # o
             \/ (k # l \/ m # n) /\ In(s, k, m, i, x) /\ x # o
  <2>0. i \in 1 .. Len(r[k][m]) /\ r[k][m][i] = x
    BY <1>5 DEF In
  <2>1. CASE k = l /\ m = n /\ i = 1
    BY <2>0, <2>1, <1>2, <1>3
  <2>2. CASE k = l /\ m = n /\ i # 1
    <3>a. i \in 1 .. (Len(s[l][n]) + 1)
      <4>1. r[k][m] = <<o>> \o s[l][n]
        BY <2>2, <1>3
      <4>2. QED  BY <2>0, <4>1, <1>2
    <3>1. i - 1 \in 1 .. Len(s[l][n]) /\ (i - 1) + 1 = i
      BY <3>a, <2>2, <1>4
    <3>2. x = s[l][n][i - 1]
      BY <2>0, <3>1, <2>2, <1>2, <1>3
    <3>3. QED  BY <3>1, <3>2, <2>2 DEF In
  <2>3. CASE k # l \/ m # n
    <3>1. r[k][m] = s[k][m]
      BY <2>3, <1>3
    <3>2. i \in 1 .. Len(s[k][m]) /\ s[k][m][i] = x /\ s[k][m][i] # o
      BY <3>1, <2>0
    <3>3. QED  BY <3>2, <2>3 DEF In
  <2>4. QED  BY <2>1, <2>2, <2>3
<1>6. ASSUME NEW x, NEW k \in Locators, NEW k2 \in Locators, NEW m \in Names, NEW m2 \in Names,
             NEW i \in Int, NEW j \in Int, In(r, k, m, i, x), In(r, k2, m2, j, x)
      PROVE  k = k2 /\ m = m2 /\ i = j
  <2>1. \/ k = l /\ m = n /\ i = 1 /\ x = o
        \/ k = l /\ m = n /\ In(s, l, n, i - 1, x) /\ x # o
        \/ (k # l \/ m # n) /\ In(s, k, m, i, x) /\ x # o
    BY <1>5, <1>6
  <2>2. \/ k2 = l /\ m2 = n /\ j = 1 /\ x = o
        \/ k2 = l /\ m2 = n /\ In(s, l, n, j - 1, x) /\ x # o
        \/ (k2 # l \/ m2 # n) /\ In(s, k2, m2, j, x) /\ x # o
    BY <1>5, <1>6
  <2>3. \A a, b \in Int : \A c, d \in Locators : \A e, f \in Names :
           In(s, c, e, a, x) /\ In(s, d, f, b, x) => c = d /\ e = f /\ a = b
    BY OnePlaceIn
  <2>4. i - 1 \in Int /\ j - 1 \in Int /\ (i - 1 = j - 1 => i = j)
    OBVIOUS
  <2>5. CASE x = o
    BY <2>1, <2>2, <2>5
  <2>6. CASE k = l /\ m = n /\ In(s, l, n, i - 1, x) /\ x # o
    <3>1. CASE k2 = l /\ m2 = n /\ In(s, l, n, j - 1, x)
      <4>1. i - 1 = j - 1
        BY <2>3, <2>4, <2>6, <3>1
      <4>2. QED  BY <2>4, <2>6, <3>1, <4>1
    <3>2. CASE (k2 # l \/ m2 # n) /\ In(s, k2, m2, j, x)
      <4>1. l = k2 /\ n = m2
        BY <2>3, <2>4, <2>6, <3>2
      <4>2. QED  BY <3>2, <4>1
    <3>3. QED  BY <2>2, <2>6, <3>1, <3>2
  <2>7. CASE (k # l \/ m # n) /\ In(s, k, m, i, x) /\ x # o
    <3>1. CASE k2 = l /\ m2 = n /\ In(s, l, n, j - 1, x)
      <4>1. k = l /\ m = n
        BY <2>3, <2>4, <2>7, <3>1
      <4>2. QED  BY <2>7, <4>1
    <3>2. CASE In(s, k2, m2, j, x)
      BY <2>3, <2>7, <3>2
    <3>3. QED  BY <2>2, <2>7, <3>1, <3>2
  <2>8. QED  BY <2>1, <2>5, <2>6, <2>7
<1>7. \A x : \A k, k2 \in Locators : \A m, m2 \in Names : \A i, j \in Int :
         In(r, k, m, i, x) /\ In(r, k2, m2, j, x) => k = k2 /\ m = m2 /\ i = j
  BY <1>6
<1>8. QED  BY <1>7, OnePlaceIn, Zenon

\* The newest object of a stack goes.
LEMMA OnePlacePop ==
    ASSUME NEW s \in [Locators -> [Names -> Seq(Objects)]], OnePlace(s),
           NEW l \in Locators, NEW n \in Names, s[l][n] # <<>>,
           NEW r, r = With(s, l, n, Tail(s[l][n]))
    PROVE  /\ OnePlace(r)
           /\ \A k \in Locators, m \in Names : \A i \in 1 .. Len(r[k][m]) : r[k][m][i] # s[l][n][1]
<1>1. s[l][n] \in Seq(Objects)
  OBVIOUS
<1>2. /\ Tail(s[l][n]) \in Seq(Objects) /\ Len(s[l][n]) \in Nat \ {0}
      /\ Len(Tail(s[l][n])) = Len(s[l][n]) - 1
      /\ \A i \in 1 .. Len(s[l][n]) - 1 : Tail(s[l][n])[i] = s[l][n][i + 1]
  BY <1>1, TailProperties
<1>3. /\ r[l][n] = Tail(s[l][n])
      /\ \A k \in Locators, m \in Names : k # l \/ m # n => r[k][m] = s[k][m]
  BY <1>2 DEF With
<1>4. In(s, l, n, 1, s[l][n][1])
  BY <1>2 DEF In
<1>5. ASSUME NEW x, NEW k \in Locators, NEW m \in Names, NEW i \in Int, In(r, k, m, i, x)
      PROVE  \/ k = l /\ m = n /\ In(s, l, n, i + 1, x) /\ i + 1 # 1
             \/ (k # l \/ m # n) /\ In(s, k, m, i, x)
  <2>0. i \in 1 .. Len(r[k][m]) /\ r[k][m][i] = x
    BY <1>5 DEF In
  <2>2. CASE k = l /\ m = n
    <3>1. i \in 1 .. Len(s[l][n]) - 1
      BY <2>0, <2>2, <1>2, <1>3
    <3>2. i + 1 \in 1 .. Len(s[l][n]) /\ i + 1 # 1
      BY <3>1, <1>2
    <3>3. x = s[l][n][i + 1]
      BY <2>0, <3>1, <2>2, <1>2, <1>3
    <3>4. QED  BY <3>2, <3>3, <2>2 DEF In
  <2>3. CASE k # l \/ m # n
    BY <2>0, <2>3, <1>3 DEF In
  <2>4. QED  BY <2>2, <2>3
<1>o. \A x : \A a, b \in Int : \A c, d \in Locators : \A e, f \in Names :
           In(s, c, e, a, x) /\ In(s, d, f, b, x) => c = d /\ e = f /\ a = b
  BY OnePlaceIn
<1>6. ASSUME NEW x, NEW k \in Locators, NEW k2 \in Locators, NEW m \in Names, NEW m2 \in Names,
             NEW i \in Int, NEW j \in Int, In(r, k, m, i, x), In(r, k2, m2, j, x)
      PROVE  k = k2 /\ m = m2 /\ i = j
  <2>1. \/ k = l /\ m = n /\ In(s, l, n, i + 1, x)
        \/ (k # l \/ m # n) /\ In(s, k, m, i, x)
    BY <1>5, <1>6
  <2>2. \/ k2 = l /\ m2 = n /\ In(s, l, n, j + 1, x)
        \/ (k2 # l \/ m2 # n) /\ In(s, k2, m2, j, x)
    BY <1>5, <1>6
  <2>4. i + 1 \in Int /\ j + 1 \in Int /\ (i + 1 = j + 1 => i = j)
    OBVIOUS
  <2>5. QED  BY <2>1, <2>2, <2>4, <1>o
<1>7. ASSUME NEW k \in Locators, NEW m \in Names, NEW i \in 1 .. Len(r[k][m]), r[k][m][i] = s[l][n][1]
      PROVE  FALSE
  <2>1. i \in Int /\ In(r, k, m, i, s[l][n][1])
    BY <1>7 DEF In
  <2>2. \/ k = l /\ m = n /\ In(s, l, n, i + 1, s[l][n][1]) /\ i + 1 # 1
        \/ (k # l \/ m # n) /\ In(s, k, m, i, s[l][n][1])
    BY <1>5, <2>1
  <2>3. i + 1 \in Int /\ 1 \in Int
    BY <2>1
  <2>4. QED  BY <2>1, <2>2, <2>3, <1>4, <1>o
<1>8. QED  BY <1>6, <1>7, OnePlaceIn

\* The facts of one stack.
StackOK(q, o) ==
    /\ Linked(q, o)
    /\ Told(q)
    /\ \A i \in 1 .. Len(q) : q[i] \in constructed /\ \A t \in Threads : ~Carries(t, q[i])

\* A stack whose objects are not touched.
LEMMA StackKept ==
    ASSUME NEW q \in Seq(Objects), NEW o, StackOK(q, o),
           \A i \in 1 .. Len(q) :
              /\ contained'[q[i]] = contained[q[i]] /\ container'[q[i]] = container[q[i]]
              /\ \A t \in Threads : Carries(t, q[i])' => Carries(t, q[i]),
           constructed \subseteq constructed',
           NEW p, p = o
    PROVE  /\ p = IF q = <<>> THEN NoObject ELSE q[1]
           /\ \A i \in 1 .. Len(q) : Inner(q[i])' = IF i = Len(q) THEN NoObject ELSE q[i + 1]
           /\ Told(q)'
           /\ \A i \in 1 .. Len(q) : q[i] \in constructed' /\ \A t \in Threads : ~Carries(t, q[i])'
<1>1. Len(q) \in Nat
  BY LenProperties
<1>2. \A i \in 1 .. Len(q) : Inner(q[i])' = Inner(q[i])
  BY DEF Inner
<1>3. \A i \in 2 .. Len(q) : i \in 1 .. Len(q)
  BY <1>1
<1>4. QED  BY <1>2, <1>3 DEF StackOK, Linked, Told

\* An object that nobody has in hand is registered: it goes on the stack of the
\* name, or nothing happens.
LEMMA Pushes ==
    ASSUME TypeOK, NEW s, Represents(s),
           NEW l \in Locators, NEW n \in Names, NEW o \in Objects,
           contained[o] = NoObject, StoreObject(l, n, o),
           \A k \in Locators, m \in Names : \A i \in 1 .. Len(s[k][m]) : s[k][m][i] # o,
           o \in constructed', constructed \subseteq constructed',
           \A t \in Threads : \A x \in Objects : Carries(t, x)' => Carries(t, x) /\ x # o
    PROVE  \E r : /\ Represents(r)'
                  /\ \/ r = s
                     \/ /\ s[l][n] # <<>> => o \in Aggregatable
                        /\ r = With(s, l, n, <<o>> \o s[l][n])
<1> DEFINE old == singletonObjects[l][n]
<1>s. s \in [Locators -> [Names -> Seq(Objects)]] /\ OnePlace(s)
  BY DEF Represents
<1>k. \A k \in Locators, m \in Names : StackOK(s[k][m], singletonObjects[k][m])
  BY DEF Represents, StackOK
<1>o. old = IF s[l][n] = <<>> THEN NoObject ELSE s[l][n][1]
  BY <1>k DEF StackOK, Linked
<1>1. CASE old # NoObject /\ o \notin Aggregatable
  <2>1. UNCHANGED <<singletonObjects, contained, container>>
    BY <1>1 DEF StoreObject
  <2>2. constructed \subseteq Objects
    BY DEF TypeOK
  <2>3. Represents(s)'
    BY <2>1, <2>2, PointersKept
  <2>4. QED  BY <2>3
<1>2. CASE old = NoObject \/ o \in Aggregatable
  <2> DEFINE q == <<o>> \o s[l][n]
             r == With(s, l, n, q)
  <2>1. /\ singletonObjects' = [singletonObjects EXCEPT ![l][n] = o]
        /\ contained' = IF old = NoObject THEN contained ELSE [contained EXCEPT ![o] = old]
        /\ container' = IF old \in Aggregatable THEN [container EXCEPT ![old] = o] ELSE container
    BY <1>2 DEF StoreObject
  <2>2. s[l][n] \in Seq(Objects) /\ Len(s[l][n]) \in Nat
    BY <1>s, LenProperties
  <2>3. /\ q \in Seq(Objects) /\ Len(q) = Len(s[l][n]) + 1 /\ q[1] = o
        /\ \A i \in 1 .. Len(s[l][n]) : q[i + 1] = s[l][n][i]
    BY <2>2, PushProperties
  <2> HIDE DEF q
  <2>4. /\ r \in [Locators -> [Names -> Seq(Objects)]] /\ r[l][n] = q
        /\ \A k \in Locators, m \in Names : k # l \/ m # n => r[k][m] = s[k][m]
    BY <1>s, <2>3, WithIs
  <2>5. OnePlace(r)
    BY <1>s, OnePlacePush DEF q
  <2> HIDE DEF r
  <2>6. \A x \in Objects : x # o => contained'[x] = contained[x]
    BY <2>1 DEF TypeOK
  <2>7. \A x \in Objects : x # old => container'[x] = container[x]
    BY <2>1 DEF TypeOK
  <2>8. singletonObjects'[l][n] = o /\ \A k \in Locators, m \in Names :
           k # l \/ m # n => singletonObjects'[k][m] = singletonObjects[k][m]
    BY <2>1 DEF TypeOK
  <2>9. contained'[o] = old
    BY <2>1 DEF TypeOK
  <2>10. old \in Aggregatable => container'[old] = o
    <3>1. Aggregatable \subseteq Objects
      BY ServiceLocatorAssumption
    <3>2. QED  BY <2>1, <3>1 DEF TypeOK
  <2>11. ASSUME NEW k \in Locators, NEW m \in Names, k # l \/ m # n
         PROVE  StackOK(r[k][m], singletonObjects[k][m])'
    <3>1. r[k][m] = s[k][m] /\ s[k][m] \in Seq(Objects)
      BY <2>4, <2>11, <1>s
    <3>2. ASSUME NEW i \in 1 .. Len(s[k][m])
          PROVE  s[k][m][i] \in Objects /\ s[k][m][i] # o /\ s[k][m][i] # old
      <4>1. s[k][m][i] \in Objects
        BY <3>1, ElementOfSeq
      <4>2. ASSUME s[k][m][i] = old PROVE FALSE
        <5>1. s[l][n] # <<>> /\ old = s[l][n][1]
          BY <1>o, <4>1, <4>2, ServiceLocatorAssumption
        <5>2. 1 \in 1 .. Len(s[l][n])
          BY <5>1, <2>2, EmptySeq
        <5>3. k = l /\ m = n
          BY <4>2, <5>1, <5>2, <1>s DEF OnePlace
        <5>4. QED  BY <5>3, <2>11
      <4>3. QED  BY <4>1, <4>2
    <3>3. \A i \in 1 .. Len(s[k][m]) :
              /\ contained'[s[k][m][i]] = contained[s[k][m][i]]
              /\ container'[s[k][m][i]] = container[s[k][m][i]]
              /\ \A t \in Threads : Carries(t, s[k][m][i])' => Carries(t, s[k][m][i])
      BY <3>2, <2>6, <2>7
    <3>4. singletonObjects'[k][m] = singletonObjects[k][m] /\ StackOK(s[k][m], singletonObjects[k][m])
      BY <2>8, <2>11, <1>k
    <3> DEFINE p == singletonObjects'[k][m]
    <3>5. /\ p = IF s[k][m] = <<>> THEN NoObject ELSE s[k][m][1]
          /\ \A i \in 1 .. Len(s[k][m]) :
                Inner(s[k][m][i])' = IF i = Len(s[k][m]) THEN NoObject ELSE s[k][m][i + 1]
          /\ Told(s[k][m])'
          /\ \A i \in 1 .. Len(s[k][m]) :
                s[k][m][i] \in constructed' /\ \A t \in Threads : ~Carries(t, s[k][m][i])'
      BY <3>1, <3>3, <3>4, StackKept
    <3>6. QED  BY <3>1, <3>5 DEF StackOK, Linked
  <2>12. StackOK(r[l][n], singletonObjects[l][n])'
    <3>1. StackOK(s[l][n], old)
      BY <1>k
    <3>2. \A i \in 1 .. Len(s[l][n]) : s[l][n][i] \in Objects /\ s[l][n][i] # o
      BY <2>2, ElementOfSeq
    <3>3. Linked(q, o)'
      <4>1. o = IF q = <<>> THEN NoObject ELSE q[1]
        <5>1. q # <<>>
          <6>1. Len(q) # 0 /\ Len(<<>>) = 0
            BY <2>2, <2>3
          <6>2. QED  BY <6>1
        <5>2. QED  BY <5>1, <2>3
      <4>2. Inner(q[1])' = IF 1 = Len(q) THEN NoObject ELSE q[1 + 1]
        <5>1. CASE s[l][n] = <<>>
          <6>1. old = NoObject /\ contained'[o] = NoObject
            BY <5>1, <1>o, <2>9
          <6>2. Len(q) = 1
            <7>1. Len(s[l][n]) = 0
              BY <5>1
            <7>2. QED  BY <7>1, <2>3
          <6>3. QED  BY <6>1, <6>2, <2>3 DEF Inner
        <5>2. CASE s[l][n] # <<>>
          <6>1. 1 \in 1 .. Len(s[l][n])
            BY <5>2, <2>2, EmptySeq
          <6>2. old = s[l][n][1] /\ old # NoObject
            BY <5>2, <6>1, <1>o, <3>2, ServiceLocatorAssumption
          <6>3. o \in Aggregatable
            BY <6>2, <1>2
          <6>4. Len(q) # 1 /\ q[1 + 1] = old
            BY <6>1, <6>2, <2>2, <2>3
          <6>5. QED  BY <6>3, <6>4, <2>3, <2>9 DEF Inner
        <5>3. QED  BY <5>1, <5>2
      <4>3. ASSUME NEW i \in 1 .. Len(s[l][n])
            PROVE  Inner(q[i + 1])' = IF i + 1 = Len(q) THEN NoObject ELSE q[(i + 1) + 1]
        <5>1. Inner(s[l][n][i])' = Inner(s[l][n][i])
          BY <3>2, <2>6 DEF Inner
        <5>2. Inner(s[l][n][i]) = IF i = Len(s[l][n]) THEN NoObject ELSE s[l][n][i + 1]
          BY <3>1 DEF StackOK, Linked
        <5>3. i + 1 = Len(q) <=> i = Len(s[l][n])
          BY <2>2, <2>3
        <5>4. i # Len(s[l][n]) => i + 1 \in 1 .. Len(s[l][n])
          BY <2>2
        <5>5. QED  BY <5>1, <5>2, <5>3, <5>4, <2>3
      <4>4. ASSUME NEW i \in 1 .. Len(q)
            PROVE  Inner(q[i])' = IF i = Len(q) THEN NoObject ELSE q[i + 1]
        <5>1. CASE i = 1
          BY <5>1, <4>2
        <5>2. CASE i # 1
          <6>1. i - 1 \in 1 .. Len(s[l][n]) /\ (i - 1) + 1 = i
            BY <5>2, <2>2, <2>3
          <6>2. Inner(q[(i - 1) + 1])' = IF (i - 1) + 1 = Len(q) THEN NoObject ELSE q[((i - 1) + 1) + 1]
            BY <6>1, <4>3
          <6>3. QED  BY <6>1, <6>2
        <5>3. QED  BY <5>1, <5>2
      <4>5. QED  BY <4>1, <4>4 DEF Linked
    <3>4. Told(q)'
      <4> SUFFICES ASSUME NEW i \in 2 .. Len(q), q[i] \in Aggregatable
                   PROVE  container'[q[i]] = q[i - 1]
        BY DEF Told
      <4>1. i - 1 \in 1 .. Len(s[l][n]) /\ (i - 1) + 1 = i
        BY <2>2, <2>3
      <4>2. q[i] = s[l][n][i - 1]
        BY <4>1, <2>3
      <4>3. CASE i = 2
        <5>1. 1 \in 1 .. Len(s[l][n]) /\ q[i] = s[l][n][1] /\ q[i - 1] = o
          BY <4>1, <4>2, <4>3, <2>3
        <5>2. s[l][n] # <<>>
          BY <5>1
        <5>3. q[i] = old
          BY <5>1, <5>2, <1>o
        <5>4. QED  BY <5>1, <5>3, <2>10
      <4>4. CASE i # 2
        <5>1. i - 1 \in 2 .. Len(s[l][n]) /\ (i - 1) - 1 \in 1 .. Len(s[l][n]) /\ ((i - 1) - 1) + 1 = i - 1
          BY <4>1, <4>4, <2>2
        <5>2. container[s[l][n][i - 1]] = s[l][n][(i - 1) - 1]
          BY <5>1, <4>2, <3>1 DEF StackOK, Told
        <5>3. s[l][n][(i - 1) - 1] = q[i - 1]
          BY <5>1, <2>3
        <5>4. 1 \in 1 .. Len(s[l][n]) /\ s[l][n] # <<>> /\ i - 1 # 1
          BY <5>1
        <5>5. s[l][n][i - 1] # old
          BY <4>1, <5>4, <1>o, <1>s DEF OnePlace
        <5>6. QED  BY <4>1, <4>2, <5>2, <5>3, <5>5, <3>2, <2>7
      <4>5. QED  BY <4>3, <4>4
    <3>5. ASSUME NEW i \in 1 .. Len(q)
          PROVE  q[i] \in constructed' /\ \A t \in Threads : ~Carries(t, q[i])'
      <4>1. CASE i = 1
        BY <4>1, <2>3
      <4>2. CASE i # 1
        <5>1. i - 1 \in 1 .. Len(s[l][n]) /\ (i - 1) + 1 = i
          BY <4>2, <2>2, <2>3
        <5>2. q[i] = s[l][n][i - 1]
          BY <5>1, <2>3
        <5>3. QED  BY <5>1, <5>2, <3>1, <3>2 DEF StackOK
      <4>3. QED  BY <4>1, <4>2
    <3>6. QED  BY <3>3, <3>4, <3>5, <2>4, <2>8 DEF StackOK
  <2>13. \A k \in Locators, m \in Names : StackOK(r[k][m], singletonObjects[k][m])'
    BY <2>11, <2>12
  <2>14. Represents(r)'
    BY <2>4, <2>5, <2>13 DEF Represents, StackOK
  <2>15. s[l][n] # <<>> => o \in Aggregatable
    <3>1. ASSUME s[l][n] # <<>> PROVE old # NoObject
      <4>1. 1 \in 1 .. Len(s[l][n])
        BY <3>1, <2>2, EmptySeq
      <4>2. s[l][n][1] \in Objects
        BY <4>1, <2>2, ElementOfSeq
      <4>3. QED  BY <3>1, <4>2, <1>o, ServiceLocatorAssumption
    <3>2. QED  BY <3>1, <1>2
  <2>16. QED  BY <2>14, <2>15 DEF r, q
<1>3. QED  BY <1>1, <1>2

\* The newest object of a name goes, and the one it contains takes its place.
LEMMA Pops ==
    ASSUME TypeOK, NEW s, Represents(s), NEW l \in Locators, NEW n \in Names, DeleteClass(l, n),
           \A t \in Threads : \A x \in Objects : Carries(t, x)' => Carries(t, x)
    PROVE  \E r : /\ Represents(r)'
                  /\ \/ r = s
                     \/ s[l][n] # <<>> /\ r = With(s, l, n, Tail(s[l][n]))
<1> DEFINE outer == singletonObjects[l][n]
           inner == IF outer \in Aggregatable THEN contained[outer] ELSE NoObject
<1>s. s \in [Locators -> [Names -> Seq(Objects)]] /\ OnePlace(s)
  BY DEF Represents
<1>k. \A k \in Locators, m \in Names : StackOK(s[k][m], singletonObjects[k][m])
  BY DEF Represents, StackOK
<1>o. outer = IF s[l][n] = <<>> THEN NoObject ELSE s[l][n][1]
  BY <1>k DEF StackOK, Linked
<1>d. /\ singletonObjects' = [singletonObjects EXCEPT ![l][n] = inner]
      /\ container' = IF inner = NoObject THEN container ELSE [container EXCEPT ![outer] = NoObject]
      /\ contained' = contained /\ constructed' = constructed
  BY DEF DeleteClass
<1>q. s[l][n] \in Seq(Objects) /\ Len(s[l][n]) \in Nat
  BY <1>s, LenProperties
<1>1. CASE s[l][n] = <<>>
  <2>1. outer = NoObject
    BY <1>1, <1>o
  <2>2. inner = NoObject
    BY <2>1, ServiceLocatorAssumption
  <2>3. UNCHANGED <<singletonObjects, contained, container>>
    BY <2>1, <2>2, <1>d DEF TypeOK
  <2>4. constructed \subseteq Objects
    BY DEF TypeOK
  <2>5. Represents(s)'
    BY <2>3, <2>4, <1>d, PointersKept
  <2>6. QED  BY <2>5
<1>2. CASE s[l][n] # <<>>
  <2> DEFINE q == Tail(s[l][n])
             r == With(s, l, n, q)
  <2>1. outer = s[l][n][1] /\ inner = Inner(outer)
    BY <1>2, <1>o DEF Inner
  <2>2. /\ q \in Seq(Objects) /\ Len(s[l][n]) \in Nat \ {0} /\ Len(q) = Len(s[l][n]) - 1
        /\ \A i \in 1 .. Len(s[l][n]) - 1 : q[i] = s[l][n][i + 1]
    BY <1>2, <1>q, TailProperties
  <2> HIDE DEF q
  <2>3. /\ r \in [Locators -> [Names -> Seq(Objects)]] /\ r[l][n] = q
        /\ \A k \in Locators, m \in Names : k # l \/ m # n => r[k][m] = s[k][m]
    BY <1>s, <2>2 DEF With
  <2>4. /\ OnePlace(r)
        /\ \A k \in Locators, m \in Names : \A i \in 1 .. Len(r[k][m]) : r[k][m][i] # outer
    BY <1>s, <1>2, <2>1, OnePlacePop DEF q
  <2> HIDE DEF r
  <2>5. \A x \in Objects : x # outer => container'[x] = container[x]
    BY <1>d DEF TypeOK
  <2>6. singletonObjects'[l][n] = inner /\ \A k \in Locators, m \in Names :
           k # l \/ m # n => singletonObjects'[k][m] = singletonObjects[k][m]
    BY <1>d DEF TypeOK
  <2>7. ASSUME NEW p \in Seq(Objects), NEW x, StackOK(p, x), \A i \in 1 .. Len(p) : p[i] # outer,
               NEW y, y = x
        PROVE  /\ y = IF p = <<>> THEN NoObject ELSE p[1]
               /\ \A i \in 1 .. Len(p) : Inner(p[i])' = IF i = Len(p) THEN NoObject ELSE p[i + 1]
               /\ Told(p)'
               /\ \A i \in 1 .. Len(p) : p[i] \in constructed' /\ \A t \in Threads : ~Carries(t, p[i])'
    <3>1. \A i \in 1 .. Len(p) : p[i] \in Objects
      BY ElementOfSeq
    <3>2. \A i \in 1 .. Len(p) :
             /\ contained'[p[i]] = contained[p[i]] /\ container'[p[i]] = container[p[i]]
             /\ \A t \in Threads : Carries(t, p[i])' => Carries(t, p[i])
      BY <3>1, <2>5, <2>7, <1>d
    <3>3. constructed \subseteq constructed'
      BY <1>d
    <3>4. QED  BY <2>7, <3>2, <3>3, StackKept
  <2>8. ASSUME NEW k \in Locators, NEW m \in Names, k # l \/ m # n
        PROVE  StackOK(r[k][m], singletonObjects[k][m])'
    <3>1. r[k][m] = s[k][m] /\ s[k][m] \in Seq(Objects)
      BY <2>3, <2>8, <1>s
    <3>2. \A i \in 1 .. Len(s[k][m]) : s[k][m][i] # outer
      BY <3>1, <2>4
    <3>3. singletonObjects'[k][m] = singletonObjects[k][m] /\ StackOK(s[k][m], singletonObjects[k][m])
      BY <2>6, <2>8, <1>k
    <3> DEFINE y == singletonObjects'[k][m]
    <3>4. /\ y = IF s[k][m] = <<>> THEN NoObject ELSE s[k][m][1]
          /\ \A i \in 1 .. Len(s[k][m]) :
                Inner(s[k][m][i])' = IF i = Len(s[k][m]) THEN NoObject ELSE s[k][m][i + 1]
          /\ Told(s[k][m])'
          /\ \A i \in 1 .. Len(s[k][m]) :
                s[k][m][i] \in constructed' /\ \A t \in Threads : ~Carries(t, s[k][m][i])'
      BY <3>1, <3>2, <3>3, <2>7
    <3>5. QED  BY <3>1, <3>4 DEF StackOK, Linked
  <2>9. StackOK(r[l][n], singletonObjects[l][n])'
    <3>1. StackOK(s[l][n], outer)
      BY <1>k
    <3>2. ASSUME NEW i \in 1 .. Len(q)
          PROVE  i + 1 \in 1 .. Len(s[l][n]) /\ q[i] = s[l][n][i + 1]
      BY <2>2
    <3>3. inner = IF q = <<>> THEN NoObject ELSE q[1]
      <4>0. 1 \in 1 .. Len(s[l][n])
        BY <2>2
      <4>1. Inner(s[l][n][1]) = IF 1 = Len(s[l][n]) THEN NoObject ELSE s[l][n][1 + 1]
        BY <4>0, <3>1 DEF StackOK, Linked
      <4>2. CASE Len(s[l][n]) = 1
        <5>1. q = <<>>
          BY <4>2, <2>2, EmptySeq
        <5>2. QED  BY <5>1, <4>1, <4>2, <2>1
      <4>3. CASE Len(s[l][n]) # 1
        <5>0. \A a \in Nat \ {0} : a # 1 => 1 \in 1 .. a - 1 /\ a - 1 # 0
          OBVIOUS
        <5>1. 1 \in 1 .. Len(q) /\ Len(q) # 0
          BY <5>0, <4>3, <2>2
        <5>2. q # <<>> /\ q[1] = s[l][n][1 + 1]
          <6>1. Len(<<>>) = 0
            OBVIOUS
          <6>2. QED  BY <6>1, <5>1, <3>2
        <5>3. QED  BY <5>2, <4>1, <4>3, <2>1
      <4>4. QED  BY <4>2, <4>3
    <3>4. ASSUME NEW i \in 1 .. Len(q)
          PROVE  Inner(q[i]) = IF i = Len(q) THEN NoObject ELSE q[i + 1]
      <4>1. Inner(s[l][n][i + 1]) =
               IF i + 1 = Len(s[l][n]) THEN NoObject ELSE s[l][n][(i + 1) + 1]
        BY <3>1, <3>2 DEF StackOK, Linked
      <4>2. i + 1 = Len(s[l][n]) <=> i = Len(q)
        BY <2>2
      <4>3. i # Len(q) => i + 1 \in 1 .. Len(q)
        <5>1. Len(q) \in Nat
          BY <2>2
        <5>2. QED  BY <5>1
      <4>4. i # Len(q) => q[i + 1] = s[l][n][(i + 1) + 1]
        BY <4>3, <3>2
      <4>5. QED  BY <4>1, <4>2, <4>4, <3>2
    <3>5. Told(q)
      <4> SUFFICES ASSUME NEW i \in 2 .. Len(q), q[i] \in Aggregatable
                   PROVE  container[q[i]] = q[i - 1]
        BY DEF Told
      <4>1. i \in 1 .. Len(q) /\ i - 1 \in 1 .. Len(q) /\ (i - 1) + 1 = i /\ (i + 1) - 1 = i
        BY <2>2
      <4>2. q[i] = s[l][n][i + 1] /\ q[i - 1] = s[l][n][(i - 1) + 1] /\ i + 1 \in 1 .. Len(s[l][n])
        BY <4>1, <3>2
      <4>3. i + 1 \in 2 .. Len(s[l][n])
        BY <4>2, <2>2
      <4>4. container[s[l][n][i + 1]] = s[l][n][(i + 1) - 1]
        BY <4>2, <4>3, <3>1 DEF StackOK, Told
      <4>5. QED  BY <4>1, <4>2, <4>4
    <3>6. \A i \in 1 .. Len(q) : q[i] \in constructed /\ \A t \in Threads : ~Carries(t, q[i])
      BY <3>1, <3>2 DEF StackOK
    <3>7. StackOK(q, inner)
      BY <3>3, <3>4, <3>5, <3>6 DEF StackOK, Linked
    <3>8. \A i \in 1 .. Len(q) : q[i] # outer
      BY <2>3, <2>4
    <3> HIDE DEF inner
    <3>9. /\ inner = IF q = <<>> THEN NoObject ELSE q[1]
          /\ \A i \in 1 .. Len(q) : Inner(q[i])' = IF i = Len(q) THEN NoObject ELSE q[i + 1]
          /\ Told(q)'
          /\ \A i \in 1 .. Len(q) : q[i] \in constructed' /\ \A t \in Threads : ~Carries(t, q[i])'
      BY <2>2, <2>7, <3>7, <3>8
    <3>10. QED  BY <3>9, <2>3, <2>6 DEF StackOK, Linked
  <2>10. \A k \in Locators, m \in Names : StackOK(r[k][m], singletonObjects[k][m])'
    BY <2>8, <2>9
  <2>11. Represents(r)'
    BY <2>3, <2>4, <2>10 DEF Represents, StackOK
  <2>12. QED  BY <2>11, <1>2 DEF r, q
<1>3. QED  BY <1>1, <1>2

\* A step of the stacks: none, an object goes off one, or one that is in none
\* goes on one.
StackStep(s, r) ==
    \/ r = s
    \/ \E l \in Locators, n \in Names :
          \/ s[l][n] # <<>> /\ r = With(s, l, n, Tail(s[l][n]))
          \/ \E o \in Objects :
                /\ \A k \in Locators, m \in Names : \A i \in 1 .. Len(s[k][m]) : s[k][m][i] # o
                /\ s[l][n] # <<>> => o \in Aggregatable
                /\ r = With(s, l, n, <<o>> \o s[l][n])

\* Who has which object in hand after a change of the registry.
LEMMA CarriesSeen ==
    ASSUME TypeOK, NEW f \in [Threads -> Call], call' = Seen(f), NEW t \in Threads, NEW o
    PROVE  Carries(t, o)' <=> f[t].at = "register" /\ f[t].obj = o
BY SeenIs DEF Carries

\* What is carried is built.
LEMMA CarriedIsBuilt ==
    ASSUME CallsOK, NEW t \in Threads, NEW o, Carries(t, o)
    PROVE  o \in constructed
BY DEF CallsOK, Carries

LEMMA InitNewObjectsOK == Init => NewObjectsOK
<1>1. Idle(NoObject).at = "idle"
  BY IdleIs DEF Things
<1>2. QED  BY <1>1 DEF Init, NewObjectsOK, Carries, Fresh

\* An object is registered for a name: it is in no stack and in nobody's hands
\* afterwards.
LEMMA StoreStep ==
    ASSUME TypeOK, CallsOK, NewObjectsOK, NEW s, Represents(s),
           NEW l \in Locators, NEW n \in Names, NEW o \in Objects, StoreObject(l, n, o),
           contained[o] = NoObject,
           \A k \in Locators, m \in Names : \A i \in 1 .. Len(s[k][m]) : s[k][m][i] # o,
           o \in constructed', constructed \subseteq constructed',
           \A t \in Threads : \A x \in Objects : Carries(t, x)' => Carries(t, x) /\ x # o
    PROVE  NewObjectsOK' /\ \E r : Represents(r)' /\ StackStep(s, r)
<1>1. \E r : /\ Represents(r)'
             /\ \/ r = s
                \/ /\ s[l][n] # <<>> => o \in Aggregatable
                   /\ r = With(s, l, n, <<o>> \o s[l][n])
  BY Pushes
<1>2. \E r : Represents(r)' /\ StackStep(s, r)
  BY <1>1 DEF StackStep
<1>3. \A x \in Objects : x # o => contained'[x] = contained[x]
  BY DEF StoreObject, TypeOK
<1>4. \A x \in Objects : x \in Fresh' => x \in Fresh /\ x # o
  BY DEF Fresh
<1>5. Fresh' \subseteq Objects
  BY DEF Fresh
<1>6. \A x \in Fresh' : contained'[x] = NoObject
  BY <1>3, <1>4, <1>5 DEF NewObjectsOK
<1>7. \A t \in Threads : \A x \in Objects : Carries(t, x)' => contained'[x] = NoObject
  BY <1>3 DEF NewObjectsOK
<1>8. \A t, u \in Threads : \A x \in Objects : Carries(t, x)' /\ Carries(u, x)' => t = u
  BY DEF NewObjectsOK
<1>9. QED  BY <1>2, <1>6, <1>7, <1>8 DEF NewObjectsOK

\* A step that registers no object, deletes none and touches no pointer.
LEMMA KeptStep ==
    ASSUME TypeOK, CallsOK, NewObjectsOK, NEW s, Represents(s),
           UNCHANGED <<singletonObjects, contained, container>>,
           constructed \subseteq constructed',
           \A t \in Threads : \A x \in Objects :
              Carries(t, x)' => Carries(t, x) \/ x \in Fresh,
           \A t, u \in Threads : \A x \in Objects : Carries(t, x)' /\ Carries(u, x)' => t = u
    PROVE  NewObjectsOK' /\ \E r : Represents(r)' /\ StackStep(s, r)
<1>1. constructed \subseteq Objects
  BY DEF TypeOK
<1>2. \A t \in Threads : \A x \in constructed : Carries(t, x)' => Carries(t, x)
  BY <1>1 DEF Fresh
<1>3. Represents(s)'
  BY <1>2, PointersKept
<1>4. Fresh' \subseteq Fresh
  BY DEF Fresh
<1>5. NewObjectsOK'
  BY <1>4 DEF NewObjectsOK
<1>6. QED  BY <1>3, <1>5 DEF StackStep

\* What is in a stack is built, and in nobody's hands.
LEMMA InStack ==
    ASSUME NEW s, Represents(s), NEW o
    PROVE  /\ o \notin constructed =>
                 \A k \in Locators, m \in Names : \A i \in 1 .. Len(s[k][m]) : s[k][m][i] # o
           /\ \A t \in Threads : Carries(t, o) =>
                 \A k \in Locators, m \in Names : \A i \in 1 .. Len(s[k][m]) : s[k][m][i] # o
BY DEF Represents

\* Every step is one of the stacks.
LEMMA NextStacks ==
    ASSUME TypeOK, CallsOK, NewObjectsOK, NEW s, Represents(s), Next
    PROVE  NewObjectsOK' /\ \E r : Represents(r)' /\ StackStep(s, r)
<1>c. call \in [Threads -> Call]
  BY DEF TypeOK
<1>u. \A t, u \in Threads : \A x \in Objects : Carries(t, x) /\ Carries(u, x) => t = u
  BY DEF NewObjectsOK
<1>1. CASE Change
  <2>1. PICK l \in Locators, n \in Names :
            \/ AddSingletonClass(l, n)
            \/ AddClass(l, n)
            \/ DeleteClass(l, n)
            \/ \E o \in Objects : AddSingletonObject(l, n, o)
            \/ \E to \in Locators : CopyClass(l, n, to)
    BY <1>1 DEF Change
  <2>2. call' = Seen(call)
    BY <2>1 DEF AddSingletonClass, AddClass, DeleteClass, AddSingletonObject, CopyClass
  <2>3. ASSUME NEW t \in Threads, NEW x PROVE Carries(t, x)' <=> Carries(t, x)
    <3>1. Carries(t, x)' <=> call[t].at = "register" /\ call[t].obj = x
      BY <2>2, <1>c, CarriesSeen
    <3>2. QED  BY <3>1 DEF Carries
  <2>4. CASE UNCHANGED <<singletonObjects, contained, container, constructed>>
    <3>1. UNCHANGED <<singletonObjects, contained, container>> /\ constructed \subseteq constructed'
      BY <2>4
    <3>2. QED  BY <3>1, <2>3, <1>u, KeptStep
  <2>5. CASE DeleteClass(l, n)
    <3>1. \E r : /\ Represents(r)'
                 /\ \/ r = s
                    \/ s[l][n] # <<>> /\ r = With(s, l, n, Tail(s[l][n]))
      BY <2>5, <2>3, Pops
    <3>2. \E r : Represents(r)' /\ StackStep(s, r)
      BY <3>1 DEF StackStep
    <3>3. UNCHANGED <<contained, constructed>>
      BY <2>5 DEF DeleteClass
    <3>4. NewObjectsOK'
      BY <2>3, <3>3 DEF NewObjectsOK, Fresh
    <3>5. QED  BY <3>2, <3>4
  <2>6. ASSUME NEW o \in Objects, AddSingletonObject(l, n, o)
        PROVE  NewObjectsOK' /\ \E r : Represents(r)' /\ StackStep(s, r)
    <3>1. o \in Fresh /\ constructed' = constructed \cup {o} /\ StoreObject(l, n, o)
      BY <2>6 DEF AddSingletonObject
    <3>2. o \notin constructed /\ contained[o] = NoObject
      BY <3>1 DEF Fresh, NewObjectsOK
    <3>3. \A k \in Locators, m \in Names : \A i \in 1 .. Len(s[k][m]) : s[k][m][i] # o
      BY <3>2, InStack
    <3>4. \A t \in Threads : \A x \in Objects : Carries(t, x)' => Carries(t, x) /\ x # o
      BY <2>3, <3>2, CarriedIsBuilt
    <3>5. o \in constructed' /\ constructed \subseteq constructed'
      BY <3>1
    <3>6. QED  BY <3>1, <3>2, <3>3, <3>4, <3>5, StoreStep
  <2>7. QED
    BY <2>1, <2>4, <2>5, <2>6 DEF AddSingletonClass, AddClass, CopyClass
<1>2. ASSUME NEW t \in Threads,
             Begin(t) \/ Lookup(t) \/ BuildSingleton(t) \/ BuildOther(t) \/ Crash(t)
      PROVE  NewObjectsOK' /\ \E r : Represents(r)' /\ StackStep(s, r)
  <2>1. /\ UNCHANGED <<registry, contained, container>>
        /\ \A u \in Threads : u # t => call'[u] = call[u]
        /\ \/ /\ call'[t].at \in {"idle", "crashed", "lookup"}
              /\ constructed' = constructed \/ \E o \in Fresh : constructed' = constructed \cup {o}
           \/ /\ call[t].at = "lookup" /\ KeepIterator(t)
              /\ singletonObjects[call[t].loc][call[t].name] = NoObject
              /\ UNCHANGED constructed
           \/ /\ BuildSingleton(t) /\ call[t].at = "build"
              /\ call[t].it = "class" /\ call[t].name \notin NullCreators \cup Refusing
              /\ \E o \in Fresh : /\ constructed' = constructed \cup {o}
                                  /\ call' = [call EXCEPT ![t].at = "register", ![t].obj = o]
    BY <1>2, ThreadStep
  <2>2. UNCHANGED <<singletonObjects, contained, container>> /\ constructed \subseteq constructed'
    BY <2>1 DEF registry
  <2>3. \A u \in Threads : u # t => \A x : Carries(u, x)' <=> Carries(u, x)
    BY <2>1 DEF Carries
  <2>4. \A x : Carries(t, x)' => x \in Fresh
    <3>1. CASE call'[t].at \in {"idle", "crashed", "lookup"}
      BY <3>1 DEF Carries
    <3>2. CASE KeepIterator(t)
      BY <3>2, KeepsOn DEF Carries
    <3>3. CASE \E o \in Fresh : call' = [call EXCEPT ![t].at = "register", ![t].obj = o]
      <4>1. PICK o \in Fresh : call' = [call EXCEPT ![t].at = "register", ![t].obj = o]
        BY <3>3
      <4>2. call'[t].obj = o
        BY <4>1, GoesOnWith DEF Fresh, Things
      <4>3. QED  BY <4>1, <4>2 DEF Carries
    <3>4. QED  BY <2>1, <3>1, <3>2, <3>3
  <2>5. \A u \in Threads : \A x \in Objects : Carries(u, x)' => Carries(u, x) \/ x \in Fresh
    BY <2>3, <2>4
  <2>6. \A u \in Threads : \A x \in Objects : Carries(u, x) => x \notin Fresh
    BY CarriedIsBuilt DEF Fresh
  <2>7. \A v, u \in Threads : \A x \in Objects : Carries(v, x)' /\ Carries(u, x)' => v = u
    BY <2>3, <2>4, <2>6, <1>u
  <2>8. QED  BY <2>2, <2>5, <2>7, KeptStep
<1>3. ASSUME NEW t \in Threads, Register(t)
      PROVE  NewObjectsOK' /\ \E r : Represents(r)' /\ StackStep(s, r)
  <2> DEFINE c == call[t]
             f == [call EXCEPT ![t] = Idle(c.obj)]
  <2>1. c.loc \in Locators /\ c.name \in Names /\ c.on \in Locators \cup {NoLocator} /\ c.obj \in Things
    BY <1>c DEF Call, Things
  <2>2. c.at = "register" /\ constructed' = constructed /\ call' = Seen(f)
    BY <1>3 DEF Register
  <2>3. Carries(t, c.obj) /\ c.obj \in constructed
    BY <2>2, CarriedIsBuilt DEF Carries
  <2>4. c.obj \in Objects
    BY <2>3 DEF TypeOK
  <2>5. contained[c.obj] = NoObject
    BY <2>3, <2>4 DEF NewObjectsOK
  <2>6. \A k \in Locators, m \in Names : \A i \in 1 .. Len(s[k][m]) : s[k][m][i] # c.obj
    BY <2>3, InStack
  <2>7. f \in [Threads -> Call] /\ f[t].at = "idle" /\ \A u \in Threads : u # t => f[u] = call[u]
    BY <2>1, <1>c, IdleIs
  <2> HIDE DEF f
  <2>8. ASSUME NEW u \in Threads, NEW x \in Objects, Carries(u, x)'
        PROVE  Carries(u, x) /\ x # c.obj
    <3>1. f[u].at = "register" /\ f[u].obj = x
      BY <2>2, <2>7, <2>8, CarriesSeen
    <3>2. u # t /\ Carries(u, x)
      BY <2>7, <3>1 DEF Carries
    <3>3. QED  BY <3>2, <2>3, <2>4, <1>u
  <2>9. CASE c.on # NoLocator
    <3>1. StoreObject(c.on, c.name, c.obj) /\ c.on \in Locators
      BY <1>3, <2>1, <2>9 DEF Register
    <3>2. QED  BY <3>1, <2>1, <2>2, <2>3, <2>4, <2>5, <2>6, <2>8, StoreStep
  <2>10. CASE c.on = NoLocator /\ singletonObjects[c.loc][c.name] = NoObject
    <3>1. /\ singletonObjects' = [singletonObjects EXCEPT ![c.loc][c.name] = c.obj]
          /\ UNCHANGED <<contained, container>>
      BY <1>3, <2>10 DEF Register
    <3>2. NoObject \notin Aggregatable
      BY ServiceLocatorAssumption
    <3>3. StoreObject(c.loc, c.name, c.obj)
      BY <2>10, <3>1, <3>2 DEF StoreObject
    <3>4. QED  BY <3>3, <2>1, <2>2, <2>3, <2>4, <2>5, <2>6, <2>8, StoreStep
  <2>11. CASE c.on = NoLocator /\ singletonObjects[c.loc][c.name] # NoObject
    <3>1. UNCHANGED <<singletonObjects, contained, container>>
      BY <1>3, <2>11 DEF Register
    <3>2. \A v, u \in Threads : \A x \in Objects : Carries(v, x)' /\ Carries(u, x)' => v = u
      BY <2>8, <1>u
    <3>3. QED  BY <3>1, <3>2, <2>2, <2>8, KeptStep
  <2>12. QED  BY <2>9, <2>10, <2>11
<1>4. QED  BY <1>1, <1>2, <1>3 DEF Next, Continue

-----------------------------------------------------------------------------
(* The theorems *)

\* What the pointers lead through is what Stacks reads off them.
StacksRead == \A s : Represents(s) => Stacks = s /\ Represents(Stacks)

LEMMA StacksRepresent == StacksRead
BY StacksAre DEF StacksRead

LEMMA InitIInv == Init => IInv
BY InitTypeOK, InitCallsOK, InitNewObjectsOK, InitRepresents DEF IInv

\* A step changes the stacks as a step of theirs.
LEMMA NextIInv ==
    ASSUME IInv, [Next]_vars
    PROVE  IInv' /\ StackStep(Stacks, Stacks')
<1>1. CASE Next
  <2>1. TypeOK' /\ CallsOK'
    BY <1>1, NextTypeOK, NextCallsOK DEF IInv
  <2>2. PICK s : s = Stacks
    OBVIOUS
  <2>3. Represents(s)
    BY <2>2 DEF IInv
  <2>4. NewObjectsOK' /\ \E r : Represents(r)' /\ StackStep(s, r)
    BY <1>1, <2>3, NextStacks DEF IInv
  <2>5. PICK r : Represents(r)' /\ StackStep(s, r)
    BY <2>4
  <2>6. StacksRead'
    BY StacksRepresent, PTL
  <2>7. Stacks' = r /\ Represents(Stacks)'
    BY <2>5, <2>6 DEF StacksRead
  <2>8. QED  BY <2>1, <2>2, <2>4, <2>5, <2>7 DEF IInv
<1>2. CASE UNCHANGED vars
  <2>1. TypeOK' /\ CallsOK' /\ NewObjectsOK'
    BY <1>2 DEF vars, registry, IInv, TypeOK, CallsOK, NewObjectsOK, Carries, Fresh
  <2>2. PICK s : s = Stacks
    OBVIOUS
  <2>3. Represents(s)
    BY <2>2 DEF IInv
  <2>4. UNCHANGED <<singletonObjects, contained, container, constructed, call>>
    BY <1>2 DEF vars, registry
  <2>5. Represents(s)'
    BY <2>3, <2>4, PointersKept DEF Carries
  <2>6. StacksRead'
    BY StacksRepresent, PTL
  <2>7. Stacks' = s /\ Represents(Stacks)'
    BY <2>5, <2>6 DEF StacksRead
  <2>8. QED  BY <2>1, <2>2, <2>7 DEF IInv, StackStep
<1>3. QED  BY <1>1, <1>2

\* The inductive invariant: types, the calls, the objects not yet registered, and
\* the pointers, which lead through disjoint stacks.
THEOREM Invariant == Spec => []IInv
<1>1. IInv /\ [Next]_vars => IInv'
  BY NextIInv
<1>2. QED  BY InitIInv, <1>1, PTL DEF Spec

\* Whatever is added, deleted and created, an object that was told what contains
\* it is contained by that one as long as both are registered (AddSingletonObject,
\* DeleteClass).
THEOREM ContainersAreCurrent == Spec => []ContainerCurrent
<1>1. ASSUME IInv PROVE ContainerCurrent
  <2>1. ASSUME NEW l \in Locators, NEW n \in Names
        PROVE  Stack(l, n) = Stacks[l][n] /\ Told(Stack(l, n))
    BY <1>1 DEF IInv, Represents, Stacks
  <2>2. QED  BY <1>1, <2>1 DEF ContainerCurrent, IInv, Told
<1>2. QED  BY Invariant, <1>1, PTL

\* The registry with its chained objects implements the stacks of ObjectStacks: no
\* race of creators, no addition and no deletion touches any object but the newest
\* one of a name.
THEOREM Refinement == Spec => Implements
<1>1. ASSUME Init PROVE Promise!Init
  <2>1. Height \in 0 .. Height
    BY HeightType
  <2>2. \A l \in Locators, n \in Names : Stack(l, n) = <<>>
    BY <1>1, <2>1, BelowOne DEF Stack, Init, Things, Height
  <2>3. QED  BY <2>2 DEF Promise!Init, Stacks
<1>2. ASSUME IInv, [Next]_vars PROVE [Promise!Next]_Stacks
  <2>1. StackStep(Stacks, Stacks')
    BY <1>2, NextIInv
  <2>2. Stacks \in [Locators -> [Names -> Seq(Objects)]]
    BY <1>2 DEF IInv, Represents
  <2>3. ASSUME NEW l \in Locators, NEW n \in Names, Stacks[l][n] # <<>>,
               Stacks' = With(Stacks, l, n, Tail(Stacks[l][n]))
        PROVE  Promise!Next
    <3>1. Promise!Pop(l, n)
      BY <2>3 DEF Promise!Pop, With
    <3>2. QED  BY <3>1 DEF Promise!Next
  <2>4. ASSUME NEW l \in Locators, NEW n \in Names, NEW o \in Objects,
               \A k \in Locators, m \in Names :
                  \A i \in 1 .. Len(Stacks[k][m]) : Stacks[k][m][i] # o,
               Stacks[l][n] # <<>> => o \in Aggregatable,
               Stacks' = With(Stacks, l, n, <<o>> \o Stacks[l][n])
        PROVE  Promise!Next
    <3>1. \A k \in Locators, m \in Names : DOMAIN Stacks[k][m] = 1 .. Len(Stacks[k][m])
      BY <2>2, LenProperties
    <3>2. o \notin Promise!Placed
      BY <2>4, <3>1 DEF Promise!Placed
    <3>3. Promise!Push(l, n, o)
      BY <2>4, <3>2 DEF Promise!Push, With
    <3>4. QED  BY <3>3 DEF Promise!Next
  <2>5. QED  BY <2>1, <2>3, <2>4 DEF StackStep
<1>3. QED  BY Invariant, <1>1, <1>2, PTL DEF Spec, Implements, Promise!Spec

-----------------------------------------------------------------------------
(* What a step may not do *)

\* A call that is to register its object returns by registering it, and answers
\* with it.
LEMMA ReturnsRegisters ==
    ASSUME TypeOK, CallsOK, [Next]_vars, NEW t \in Threads, call[t].at = "register", Returns(t)
    PROVE  Register(t) /\ call'[t].obj = call[t].obj
<1>c. call \in [Threads -> Call]
  BY DEF TypeOK
<1>1. Next
  BY DEF Returns, vars
<1>2. ~Change
  <2>1. ASSUME Change PROVE FALSE
    <3>1. call' = Seen(call)
      BY <2>1 DEF Change, AddSingletonClass, AddClass, DeleteClass, AddSingletonObject, CopyClass
    <3>2. call'[t].at = call[t].at
      BY <3>1, <1>c, SeenIs
    <3>3. QED  BY <3>2 DEF Returns
  <2>2. QED  BY <2>1
<1>3. ASSUME NEW u \in Threads,
             Begin(u) \/ Lookup(u) \/ BuildSingleton(u) \/ BuildOther(u) \/ Crash(u)
      PROVE  FALSE
  <2>1. \A v \in Threads : v # u => call'[v] = call[v]
    BY <1>3, ThreadStep
  <2>2. u = t
    BY <2>1 DEF Returns
  <2>3. QED  BY <1>3, <2>2 DEF Begin, TryCreate, TryCreateSingleton, Lookup, BuildSingleton,
                              BuildOther, Crash
<1>4. PICK u \in Threads : Register(u)
  BY <1>1, <1>2, <1>3 DEF Next, Continue
<1> DEFINE f == [call EXCEPT ![u] = Idle(call[u].obj)]
<1>5. call[u].obj \in Things
  BY <1>c DEF Call, Things
<1>6. f \in [Threads -> Call] /\ f[u].at = "idle" /\ f[u].obj = call[u].obj
  BY <1>5, <1>c, IdleIs
<1>7. \A v \in Threads : v # u => f[v] = call[v]
  BY <1>c
<1>8. call' = Seen(f)
  BY <1>4 DEF Register
<1> HIDE DEF f
<1>9. call'[t].at = f[t].at /\ call'[t].obj = f[t].obj
  BY <1>6, <1>8, SeenIs
<1>10. u = t
  BY <1>7, <1>9 DEF Returns
<1>11. QED  BY <1>4, <1>6, <1>9, <1>10

\* What StoreObject does to the name: it wraps the object that is there.
LEMMA StoreWraps ==
    ASSUME TypeOK, NEW k \in Locators, NEW m \in Names, NEW o \in Objects, StoreObject(k, m, o),
           NEW l \in Locators, NEW n \in Names,
           singletonObjects[l][n] # NoObject, singletonObjects[l][n] # singletonObjects'[l][n]
    PROVE  singletonObjects'[l][n] # NoObject
           /\ contained'[singletonObjects'[l][n]] = singletonObjects[l][n]
<1>1. /\ singletonObjects' = [singletonObjects EXCEPT ![k][m] = o]
      /\ contained' = IF singletonObjects[k][m] = NoObject THEN contained
                      ELSE [contained EXCEPT ![o] = singletonObjects[k][m]]
  BY DEF StoreObject
<1>2. l = k /\ n = m /\ singletonObjects'[l][n] = o
  BY <1>1 DEF TypeOK
<1>3. contained' = [contained EXCEPT ![o] = singletonObjects[l][n]]
  BY <1>1, <1>2
<1>4. o # NoObject
  BY ServiceLocatorAssumption
<1>5. QED  BY <1>2, <1>3, <1>4 DEF TypeOK

\* A registered object leaves its name only wrapped into an aggregate, or because
\* the name is deleted: the first registration of a singleton stands, whatever
\* creators race (std::map::insert in TryCreate, DeleteClass).
THEOREM RegistrationsStand == Spec => SingletonsStay
<1> DEFINE Stays(l, n) ==
              LET old == singletonObjects[l][n]
                  new == singletonObjects'[l][n]
              IN  old # new /\ old # NoObject =>
                     \/ ~CanCreate(l, n)'
                     \/ new # NoObject /\ (contained'[new] = old \/ new = contained[old])
<1>1. ASSUME IInv, Next, NEW l \in Locators, NEW n \in Names
      PROVE  Stays(l, n)
  <2>1. CASE UNCHANGED singletonObjects
    BY <2>1
  <2>2. ASSUME NEW k \in Locators, NEW m \in Names, NEW o \in Objects, StoreObject(k, m, o)
        PROVE  Stays(l, n)
    BY <1>1, <2>2, StoreWraps DEF IInv
  <2>3. ASSUME NEW k \in Locators, NEW m \in Names, DeleteClass(k, m)
        PROVE  Stays(l, n)
    <3>1. SUFFICES ASSUME singletonObjects[l][n] # singletonObjects'[l][n]
                   PROVE  Stays(l, n)
      OBVIOUS
    <3> DEFINE inner == IF singletonObjects[k][m] \in Aggregatable
                        THEN contained[singletonObjects[k][m]] ELSE NoObject
    <3>2. singletonObjects' = [singletonObjects EXCEPT ![k][m] = inner]
      BY <2>3 DEF DeleteClass
    <3> HIDE DEF inner
    <3>3. l = k /\ n = m /\ singletonObjects'[l][n] = inner
      BY <3>1, <3>2, <1>1 DEF IInv, TypeOK
    <3>4. n \notin singletonClasses'[l] /\ n \notin classes'[l]
      BY <2>3, <3>3, <1>1 DEF DeleteClass, IInv, TypeOK
    <3>5. CASE inner = NoObject
      BY <3>3, <3>4, <3>5 DEF CanCreate
    <3>6. CASE inner # NoObject
      BY <3>3, <3>6 DEF inner
    <3>7. QED  BY <3>5, <3>6
  <2>4. ASSUME NEW t \in Threads, Register(t)
        PROVE  Stays(l, n)
    <3>1. call[t] \in Call /\ call[t].obj \in Objects
      BY <1>1, <2>4 DEF IInv, TypeOK, CallsOK, Register
    <3>2. CASE call[t].on # NoLocator
      <4>1. call[t].on \in Locators /\ call[t].name \in Names
        BY <3>1, <3>2 DEF Call
      <4>2. StoreObject(call[t].on, call[t].name, call[t].obj)
        BY <2>4, <3>2 DEF Register
      <4>3. QED  BY <2>2, <3>1, <4>1, <4>2
    <3>3. CASE call[t].on = NoLocator
      <4>1. singletonObjects' = IF singletonObjects[call[t].loc][call[t].name] = NoObject
                                THEN [singletonObjects EXCEPT ![call[t].loc][call[t].name] = call[t].obj]
                                ELSE singletonObjects
        BY <2>4, <3>3 DEF Register
      <4>2. singletonObjects[l][n] = NoObject \/ singletonObjects'[l][n] = singletonObjects[l][n]
        BY <4>1, <3>1, <1>1 DEF IInv, TypeOK, Call
      <4>3. QED  BY <4>2
    <3>4. QED  BY <3>2, <3>3
  <2>5. ASSUME NEW t \in Threads,
               Begin(t) \/ Lookup(t) \/ BuildSingleton(t) \/ BuildOther(t) \/ Crash(t)
        PROVE  UNCHANGED singletonObjects
    BY <1>1, <2>5, ThreadStep DEF IInv, registry
  <2>6. CASE Change
    <3>1. \/ UNCHANGED singletonObjects
          \/ \E k \in Locators, m \in Names : DeleteClass(k, m)
          \/ \E k \in Locators, m \in Names, o \in Objects : StoreObject(k, m, o)
      BY <2>6 DEF Change, AddSingletonClass, AddClass, AddSingletonObject, CopyClass
    <3>2. QED  BY <3>1, <2>1, <2>2, <2>3
  <2>7. QED  BY <1>1, <2>1, <2>4, <2>5, <2>6 DEF Next, Continue
<1>2. ASSUME IInv, [Next]_vars
      PROVE  [\A l \in Locators, n \in Names : Stays(l, n)]_vars
  BY <1>1, <1>2
<1>3. QED  BY Invariant, <1>2, PTL DEF Spec, SingletonsStay

\* A creator that no other registration overtook has its own object registered
\* when it returns (TryCreate, between its two guards).
THEOREM RacersOnly == Spec => OnlyRacersGetTheirOwn
<1>1. ASSUME IInv, [Next]_vars, NEW t \in Threads, Returns(t), call[t].at = "register",
             call[t].on = NoLocator, ~call[t].raced
      PROVE  singletonObjects'[call[t].loc][call[t].name] = call'[t].obj
  <2>1. Register(t) /\ call'[t].obj = call[t].obj
    BY <1>1, ReturnsRegisters DEF IInv
  <2>2. singletonObjects[call[t].loc][call[t].name] = NoObject
    BY <1>1 DEF IInv, CallsOK
  <2>3. singletonObjects' = [singletonObjects EXCEPT ![call[t].loc][call[t].name] = call[t].obj]
    BY <2>1, <2>2, <1>1 DEF Register
  <2>4. call[t].loc \in Locators /\ call[t].name \in Names
    BY <1>1 DEF IInv, TypeOK, Call
  <2>5. QED  BY <2>1, <2>3, <2>4, <1>1 DEF IInv, TypeOK
<1>2. ASSUME IInv, [Next]_vars
      PROVE  [\A t \in Threads :
                 LET c == call[t] IN
                 /\ Returns(t) /\ c.at = "register" /\ c.on = NoLocator /\ ~c.raced
                 => singletonObjects'[c.loc][c.name] = call'[t].obj]_vars
  BY <1>1, <1>2
<1>3. QED  BY Invariant, <1>2, PTL DEF Spec, OnlyRacersGetTheirOwn

\* TryCreate brings a deleted name back only where DeleteClass came between its lookup
\* and its registration (the iterator it keeps), which does bring the name back.
THEOREM DeletedNamesStayDeleted == Spec => DeletedStaysDeleted
<1>1. ASSUME IInv, [Next]_vars, NEW t \in Threads, call[t].at = "register",
             ~CanCreate(call[t].loc, call[t].name)
      PROVE  call[t].erased
  BY <1>1 DEF IInv, CallsOK, CanCreate
<1>2. ASSUME IInv, [Next]_vars
      PROVE  [\A l \in Locators, n \in Names, t \in Threads :
                 LET c == call[t] IN
                 /\ c.at = "register" /\ Returns(t)
                 /\ c.on = NoLocator /\ c.loc = l /\ c.name = n
                 /\ ~CanCreate(l, n) /\ CanCreate(l, n)'
                 => c.erased]_vars
  BY <1>1, <1>2
<1>3. QED  BY Invariant, <1>2, PTL DEF Spec, DeletedStaysDeleted

-----------------------------------------------------------------------------
(* What a quiet call answers *)

\* The recursion of Found, for the names U that can be used.
Step(U, single, f, m) ==
    IF m \in U THEN m
    ELSE IF single \/ Shorter[m] = NoName THEN NoName
    ELSE f[Shorter[m]]

\* Part of a solution of it, closed under what it asks for.
Partial(U, single, g) ==
    /\ g \in [DOMAIN g -> Names \cup {NoName}] /\ DOMAIN g \subseteq Names
    /\ \A m \in DOMAIN g :
          /\ g[m] = Step(U, single, g, m)
          /\ m \notin U /\ ~single /\ Shorter[m] # NoName => Shorter[m] \in DOMAIN g

\* What is so for a name when it is for the shorter one is so for every name.
LEMMA ShorterInduction ==
    ASSUME NEW S, \A n \in Names : (Shorter[n] \in Names => Shorter[n] \in S) => n \in S
    PROVE  Names \subseteq S
<1> DEFINE T == Names \ S
<1>1. ASSUME NEW n \in T PROVE Shorter[n] \in T
  OBVIOUS
<1>2. T \in SUBSET Names
  OBVIOUS
<1> HIDE DEF T
<1>3. T = {}
  BY <1>1, <1>2, ShorterAssumption
<1>4. QED  BY <1>3 DEF T

\* Two parts of a solution agree.
LEMMA PartialsAgree ==
    ASSUME NEW U, NEW single, NEW g, NEW h, Partial(U, single, g), Partial(U, single, h)
    PROVE  \A m \in DOMAIN g \cap DOMAIN h : g[m] = h[m]
<1> DEFINE S == {m \in Names : m \in DOMAIN g \cap DOMAIN h => g[m] = h[m]}
<1>1. ASSUME NEW n \in Names, Shorter[n] \in Names => Shorter[n] \in S
      PROVE  n \in S
  <2> SUFFICES ASSUME n \in DOMAIN g \cap DOMAIN h PROVE g[n] = h[n]
    OBVIOUS
  <2>1. /\ g[n] = Step(U, single, g, n) /\ h[n] = Step(U, single, h, n)
        /\ n \notin U /\ ~single /\ Shorter[n] # NoName =>
              Shorter[n] \in DOMAIN g \cap DOMAIN h
    BY DEF Partial
  <2>2. CASE n \in U \/ single \/ Shorter[n] = NoName
    BY <2>1, <2>2 DEF Step
  <2>3. CASE n \notin U /\ ~single /\ Shorter[n] # NoName
    <3>1. Shorter[n] \in DOMAIN g \cap DOMAIN h /\ Shorter[n] \in Names
      BY <2>1, <2>3 DEF Partial
    <3>2. g[Shorter[n]] = h[Shorter[n]]
      BY <1>1, <3>1
    <3>3. QED  BY <2>1, <2>3, <3>2 DEF Step
  <2>4. QED  BY <2>2, <2>3
<1>2. Names \subseteq S
  <2> HIDE DEF S
  <2>1. QED  BY <1>1, ShorterInduction
<1>3. QED  BY <1>2 DEF Partial

\* There is a part of a solution for every name.
LEMMA PartialExists ==
    ASSUME NEW U, NEW single, NEW n \in Names
    PROVE  \E g : Partial(U, single, g) /\ n \in DOMAIN g
<1> DEFINE S == {m \in Names : \E g : Partial(U, single, g) /\ m \in DOMAIN g}
<1>1. ASSUME NEW m \in Names, Shorter[m] \in Names => Shorter[m] \in S
      PROVE  m \in S
  <2>1. CASE m \in U \/ single \/ Shorter[m] = NoName
    <3> DEFINE g == [x \in {m} |-> IF x \in U THEN x ELSE NoName]
    <3>1. /\ DOMAIN g = {m} /\ g \in [DOMAIN g -> Names \cup {NoName}]
          /\ g[m] = IF m \in U THEN m ELSE NoName
      OBVIOUS
    <3> HIDE DEF g
    <3>2. g[m] = Step(U, single, g, m)
      BY <2>1, <3>1 DEF Step
    <3>3. Partial(U, single, g)
      BY <2>1, <3>1, <3>2 DEF Partial
    <3>4. QED  BY <3>1, <3>3
  <2>2. CASE m \notin U /\ ~single /\ Shorter[m] # NoName
    <3>1. Shorter[m] \in Names
      BY <2>2, ServiceLocatorAssumption
    <3>2. PICK h : Partial(U, single, h) /\ Shorter[m] \in DOMAIN h
      BY <1>1, <3>1
    <3>3. CASE m \in DOMAIN h
      BY <3>2, <3>3
    <3>4. CASE m \notin DOMAIN h
      <4> DEFINE D == DOMAIN h \cup {m}
                 g == [x \in D |-> IF x = m THEN h[Shorter[m]] ELSE h[x]]
      <4>1. h \in [DOMAIN h -> Names \cup {NoName}] /\ DOMAIN h \subseteq Names
        BY <3>2 DEF Partial
      <4>2. DOMAIN g = D /\ D \subseteq Names /\ g \in [DOMAIN g -> Names \cup {NoName}]
        BY <3>2, <4>1
      <4>3. g[m] = h[Shorter[m]] /\ \A x \in DOMAIN h : g[x] = h[x]
        BY <3>4
      <4>4. m \in D /\ Shorter[m] \in D /\ \A x \in D : x = m \/ x \in DOMAIN h
        BY <3>2
      <4>5. DOMAIN h \subseteq D
        OBVIOUS
      <4> HIDE DEF g, D
      <4>6. g[m] = Step(U, single, g, m)
        BY <2>2, <3>2, <4>3 DEF Step
      <4>7. ASSUME NEW x \in DOMAIN h
            PROVE  /\ g[x] = Step(U, single, g, x)
                   /\ x \notin U /\ ~single /\ Shorter[x] # NoName => Shorter[x] \in DOMAIN h
        <5>1. /\ h[x] = Step(U, single, h, x)
              /\ x \notin U /\ ~single /\ Shorter[x] # NoName => Shorter[x] \in DOMAIN h
          BY <3>2 DEF Partial
        <5>2. QED  BY <4>3, <5>1 DEF Step
      <4>8. Partial(U, single, g)
        <5>1. \A x \in DOMAIN g :
                 /\ g[x] = Step(U, single, g, x)
                 /\ x \notin U /\ ~single /\ Shorter[x] # NoName => Shorter[x] \in DOMAIN g
          BY <4>2, <4>4, <4>5, <4>6, <4>7
        <5>2. QED  BY <4>2, <5>1 DEF Partial
      <4>9. QED  BY <4>2, <4>4, <4>8
    <3>5. QED  BY <3>3, <3>4
  <2>3. QED  BY <2>1, <2>2
<1>2. Names \subseteq S
  <2> HIDE DEF S
  <2>1. QED  BY <1>1, ShorterInduction
<1>3. QED  BY <1>2

\* So there is a solution.
LEMMA SolutionExists ==
    ASSUME NEW U, NEW single
    PROVE  \E f : f = [m \in Names |-> Step(U, single, f, m)]
<1> DEFINE g(m) == CHOOSE g : Partial(U, single, g) /\ m \in DOMAIN g
           f == [m \in Names |-> g(m)[m]]
<1>1. ASSUME NEW m \in Names PROVE Partial(U, single, g(m)) /\ m \in DOMAIN g(m)
  BY PartialExists
<1> HIDE DEF g
<1>2. ASSUME NEW m \in Names, NEW n \in Names, n \in DOMAIN g(m)
      PROVE  f[n] = g(m)[n]
  <2>1. n \in DOMAIN g(m) \cap DOMAIN g(n)
    BY <1>1, <1>2
  <2>2. g(m)[n] = g(n)[n]
    BY <1>1, <2>1, PartialsAgree
  <2>3. QED  BY <2>2
<1>3. ASSUME NEW m \in Names PROVE f[m] = Step(U, single, f, m)
  <2>1. /\ g(m)[m] = Step(U, single, g(m), m)
        /\ m \notin U /\ ~single /\ Shorter[m] # NoName => Shorter[m] \in DOMAIN g(m)
        /\ DOMAIN g(m) \subseteq Names
    BY <1>1 DEF Partial
  <2>2. f[m] = g(m)[m]
    OBVIOUS
  <2> HIDE DEF f
  <2>3. CASE m \in U \/ single \/ Shorter[m] = NoName
    BY <2>1, <2>2, <2>3 DEF Step
  <2>4. CASE m \notin U /\ ~single /\ Shorter[m] # NoName
    <3>1. f[Shorter[m]] = g(m)[Shorter[m]]
      BY <1>2, <2>1, <2>4
    <3>2. QED  BY <2>1, <2>2, <2>4, <3>1 DEF Step
  <2>5. QED  BY <2>3, <2>4
<1>4. f = [m \in Names |-> Step(U, single, f, m)]
  BY <1>3
<1>5. QED  BY <1>4

\* Found, of the three parts of a locator.
FoundIn(objects, singles, plain, single, n) ==
    LET usable(m) == \/ objects[m] # NoObject
                     \/ /\ m \notin NullCreators
                        /\ m \in singles \cup (IF single THEN {} ELSE plain)
        best[m \in Names] ==
            IF usable(m) THEN m
            ELSE IF single \/ Shorter[m] = NoName THEN NoName
            ELSE best[Shorter[m]]
    IN  best[n]

\* The names of which a call makes something of these parts.
UsableIn(objects, singles, plain, single) ==
    {m \in Names : \/ objects[m] # NoObject
                   \/ /\ m \notin NullCreators
                      /\ m \in singles \cup (IF single THEN {} ELSE plain)}

\* A locator is looked at through its three parts.
LEMMA FoundAs ==
    \A l, single, n :
        Found(l, single, n)
          = FoundIn(singletonObjects[l], singletonClasses[l], classes[l], single, n)
BY DEF Found, FoundIn

\* What a call that no change of its locator overlapped has learnt of the three
\* parts: the names it gave up are not usable, and what it read is still so.
LearntIn(objects, singles, plain, c) ==
    /\ FoundIn(objects, singles, plain, c.single, c.full)
         = FoundIn(objects, singles, plain, c.single, c.name)
    /\ c.at # "lookup" => objects[c.name] = NoObject /\ (c.it = "class" <=> c.name \in singles)
    /\ c.at = "register" => c.it = "class" /\ c.name \notin NullCreators \cup Refusing

Learnt(c) == LearntIn(singletonObjects[c.loc], singletonClasses[c.loc], classes[c.loc], c)

QuietOK == \A t \in Threads : InFlight(call[t]) /\ ~call[t].disturbed => Learnt(call[t])

\* The recursion has an answer, and this is its equation.
LEMMA FoundInIs ==
    ASSUME NEW objects, NEW singles, NEW plain, NEW single, NEW n \in Names
    PROVE  FoundIn(objects, singles, plain, single, n)
             = IF n \in UsableIn(objects, singles, plain, single) THEN n
               ELSE IF single \/ Shorter[n] = NoName THEN NoName
               ELSE FoundIn(objects, singles, plain, single, Shorter[n])
<1> DEFINE U == UsableIn(objects, singles, plain, single)
           Body(f) == [m \in Names |->
                         IF \/ objects[m] # NoObject
                            \/ /\ m \notin NullCreators
                               /\ m \in singles \cup (IF single THEN {} ELSE plain)
                         THEN m
                         ELSE IF single \/ Shorter[m] = NoName THEN NoName
                         ELSE f[Shorter[m]]]
           best == CHOOSE f : f = Body(f)
<1>1. ASSUME NEW f PROVE Body(f) = [m \in Names |-> Step(U, single, f, m)]
  BY DEF Step, UsableIn
<1>2. \A m : FoundIn(objects, singles, plain, single, m) = best[m]
  BY DEF FoundIn
<1>3. \E f : f = Body(f)
  <2> HIDE DEF Body, U
  <2>1. PICK f : f = [m \in Names |-> Step(U, single, f, m)]
    BY SolutionExists
  <2>2. QED  BY <1>1, <2>1
<1>4. best = Body(best)
  <2> HIDE DEF Body
  <2>1. QED  BY <1>3
<1>5. best[n] = Step(U, single, best, n)
  <2> HIDE DEF Body, U, best
  <2>1. best = [m \in Names |-> Step(U, single, best, m)]
    BY <1>1, <1>4
  <2>2. QED  BY <2>1
<1> HIDE DEF Body, best
<1>6. QED  BY <1>2, <1>5 DEF Step

\* LearntIn looks at these fields of a call only.
LEMMA LearntOf ==
    ASSUME NEW objects, NEW singles, NEW plain, NEW c, NEW d, LearntIn(objects, singles, plain, c),
           d.at = c.at, d.single = c.single, d.full = c.full, d.name = c.name, d.it = c.it
    PROVE  LearntIn(objects, singles, plain, d)
BY Zenon DEF LearntIn

\* A change that leaves a call quiet does not touch its locator.
LEMMA SeenQuiet ==
    ASSUME TypeOK, NEW f \in [Threads -> Call], call' = Seen(f), NEW t \in Threads,
           InFlight(f[t]), ~call'[t].disturbed
    PROVE  /\ ~f[t].disturbed
           /\ singletonObjects'[f[t].loc] = singletonObjects[f[t].loc]
           /\ singletonClasses'[f[t].loc] = singletonClasses[f[t].loc]
           /\ classes'[f[t].loc] = classes[f[t].loc]
<1> DEFINE New(c) ==
        [c EXCEPT !.disturbed = @ \/ \E i \in 1 .. 3 : registry'[i][c.loc] # registry[i][c.loc],
                  !.torn = @ \/ classes'[c.loc] # classes[c.loc],
                  !.erased = @ \/ c.name \in singletonClasses[c.loc] \ singletonClasses'[c.loc],
                  !.raced = @ \/ singletonObjects'[c.loc][c.name]
                                   \notin {NoObject, singletonObjects[c.loc][c.name]}]
<1>1. call' = [u \in Threads |-> IF ~InFlight(f[u]) THEN f[u] ELSE New(f[u])]
  BY DEF Seen
<1> DEFINE c == f[t]
           a == c.disturbed \/ \E i \in 1 .. 3 : registry'[i][c.loc] # registry[i][c.loc]
           b == c.torn \/ classes'[c.loc] # classes[c.loc]
           d == c.erased \/ c.name \in singletonClasses[c.loc] \ singletonClasses'[c.loc]
           e == c.raced \/ singletonObjects'[c.loc][c.name]
                              \notin {NoObject, singletonObjects[c.loc][c.name]}
<1>2. New(c) = [c EXCEPT !.disturbed = a, !.torn = b, !.erased = d, !.raced = e]
  OBVIOUS
<1> HIDE DEF New, b, d, e
<1>3. call'[t].disturbed = a
  <2>1. call'[t] = New(c)
    BY <1>1
  <2>2. c \in Call
    OBVIOUS
  <2> HIDE DEF a, c
  <2>3. QED  BY <1>2, <2>1, <2>2 DEF Call
<1>4. ~c.disturbed /\ \A i \in 1 .. 3 : registry'[i][c.loc] = registry[i][c.loc]
  BY <1>3
<1>5. /\ registry'[1] = classes' /\ registry'[2] = singletonClasses'
      /\ registry'[3] = singletonObjects'
      /\ registry[1] = classes /\ registry[2] = singletonClasses
      /\ registry[3] = singletonObjects
  BY DEF registry
<1>6. 1 \in 1 .. 3 /\ 2 \in 1 .. 3 /\ 3 \in 1 .. 3
  OBVIOUS
<1>7. QED  BY <1>4, <1>5, <1>6

\* The initial calls have learnt nothing yet.
LEMMA InitQuietOK == Init => QuietOK
<1>1. Idle(NoObject).at = "idle"
  BY IdleIs DEF Things
<1>2. QED  BY <1>1 DEF Init, QuietOK, InFlight

\* What the quiet calls have learnt outlasts a change of the registry they see.
LEMMA QuietSeen ==
    ASSUME TypeOK, QuietOK, NEW f \in [Threads -> Call], call' = Seen(f),
           \A t \in Threads : f[t] = call[t] \/ f[t].at = "idle"
    PROVE  QuietOK'
<1> SUFFICES ASSUME NEW t \in Threads, InFlight(call'[t]), ~call'[t].disturbed
             PROVE  Learnt(call[t])'
  BY DEF QuietOK, InFlight
<1>1. /\ call'[t].at = f[t].at /\ call'[t].loc = f[t].loc /\ call'[t].single = f[t].single
      /\ call'[t].full = f[t].full /\ call'[t].name = f[t].name /\ call'[t].it = f[t].it
  BY SeenIs
<1>2. InFlight(f[t]) /\ f[t] = call[t]
  BY <1>1 DEF InFlight
<1>3. /\ ~call[t].disturbed
      /\ singletonObjects'[call[t].loc] = singletonObjects[call[t].loc]
      /\ singletonClasses'[call[t].loc] = singletonClasses[call[t].loc]
      /\ classes'[call[t].loc] = classes[call[t].loc]
  <2>1. /\ ~f[t].disturbed
        /\ singletonObjects'[f[t].loc] = singletonObjects[f[t].loc]
        /\ singletonClasses'[f[t].loc] = singletonClasses[f[t].loc]
        /\ classes'[f[t].loc] = classes[f[t].loc]
    BY <1>2, SeenQuiet
  <2>2. QED  BY <1>2, <2>1
<1>4. LearntIn(singletonObjects[call[t].loc], singletonClasses[call[t].loc],
               classes[call[t].loc], call[t])
  BY <1>2, <1>3 DEF QuietOK, Learnt
<1>5. LearntIn(singletonObjects[call[t].loc], singletonClasses[call[t].loc],
               classes[call[t].loc], call'[t])
  BY <1>1, <1>2, <1>4, LearntOf
<1>6. LearntIn(singletonObjects'[call'[t].loc], singletonClasses'[call'[t].loc],
               classes'[call'[t].loc], call'[t])
  BY <1>1, <1>2, <1>3, <1>5
<1>7. QED  BY <1>6 DEF Learnt

\* A step of one call that leaves the registry alone.
LEMMA QuietAlone ==
    ASSUME QuietOK, UNCHANGED registry, NEW t \in Threads,
           \A u \in Threads : u # t => call'[u] = call[u],
           InFlight(call'[t]) /\ ~call'[t].disturbed =>
              LearntIn(singletonObjects[call'[t].loc], singletonClasses[call'[t].loc],
                       classes[call'[t].loc], call'[t])
    PROVE  QuietOK'
<1> SUFFICES ASSUME NEW u \in Threads, InFlight(call'[u]), ~call'[u].disturbed
             PROVE  LearntIn(singletonObjects[call'[u].loc], singletonClasses[call'[u].loc],
                             classes[call'[u].loc], call'[u])
  BY DEF QuietOK, InFlight, Learnt, registry
<1>1. CASE u = t
  BY <1>1
<1>2. CASE u # t
  BY <1>2 DEF QuietOK, Learnt
<1>3. QED  BY <1>1, <1>2

\* The name Found gives for n in the locator of a call.
Best(c, n) == FoundIn(singletonObjects[c.loc], singletonClasses[c.loc], classes[c.loc], c.single, n)

\* What it was before is unusable, as the lookup or the creator said.
GivenUp(c) ==
    \/ c.it = "class" /\ c.name \in NullCreators
    \/ c.it = "end" /\ (c.single \/ c.name \notin classes[c.loc] \ NullCreators)

\* A call past its lookup builds what Found gives unless it has to give up the name.
LEMMA BestIs ==
    ASSUME TypeOK, NEW t \in Threads, Learnt(call[t]), call[t].at \in {"build", "register"}
    PROVE  LET c == call[t] IN
           Best(c, c.full)
             = IF ~GivenUp(c) THEN c.name
               ELSE IF c.single \/ Shorter[c.name] = NoName THEN NoName
               ELSE Best(c, Shorter[c.name])
<1> DEFINE c == call[t]
           objects == singletonObjects[c.loc]
           singles == singletonClasses[c.loc]
           plain == classes[c.loc]
<1>1. c.name \in Names /\ c.it \in {"end", "class"}
  BY DEF TypeOK, Call
<1>2. /\ Best(c, c.full) = FoundIn(objects, singles, plain, c.single, c.name)
      /\ objects[c.name] = NoObject /\ (c.it = "class" <=> c.name \in singles)
  BY DEF Best, Learnt, LearntIn
<1>3. FoundIn(objects, singles, plain, c.single, c.name)
        = IF c.name \in UsableIn(objects, singles, plain, c.single) THEN c.name
          ELSE IF c.single \/ Shorter[c.name] = NoName THEN NoName
          ELSE FoundIn(objects, singles, plain, c.single, Shorter[c.name])
  <2> HIDE DEF c, objects, singles, plain
  <2>1. QED  BY <1>1, FoundInIs
<1>4. c.name \in UsableIn(objects, singles, plain, c.single) <=> ~GivenUp(c)
  <2>1. GivenUp(c) <=> \/ c.it = "class" /\ c.name \in NullCreators
                       \/ c.it = "end" /\ (c.single \/ c.name \notin plain \ NullCreators)
    BY DEF GivenUp
  <2> HIDE DEF c, objects, singles, plain
  <2>2. QED  BY <1>1, <1>2, <2>1 DEF UsableIn
<1>5. Best(c, Shorter[c.name]) = FoundIn(objects, singles, plain, c.single, Shorter[c.name])
  BY DEF Best
<1> HIDE DEF c, objects, singles, plain
<1>6. Best(c, c.full) = IF ~GivenUp(c) THEN c.name
                        ELSE IF c.single \/ Shorter[c.name] = NoName THEN NoName
                        ELSE Best(c, Shorter[c.name])
  BY <1>2, <1>3, <1>4, <1>5
<1>7. QED  BY <1>6 DEF c

\* A call gives up a name by returning nothing, or by going on to the shorter one.
LEMMA NextShorter ==
    ASSUME TypeOK, NEW t \in Threads, NothingFound(t)
    PROVE  LET c == call[t]
               n == Shorter[c.name]
           IN
           \/ (c.single \/ n = NoName) /\ Return(t, NoObject)
           \/ /\ ~c.single /\ n # NoName /\ n \in Names
              /\ call'[t].at = "lookup" /\ call'[t].name = n /\ call'[t].loc = c.loc
              /\ call'[t].full = c.full /\ call'[t].single = c.single
              /\ call'[t].disturbed = c.disturbed
<1>1. Shorter[call[t].name] \in Names \cup {NoName}
  BY ServiceLocatorAssumption DEF TypeOK, Call
<1>2. CASE call[t].single \/ Shorter[call[t].name] = NoName
  BY <1>2 DEF NothingFound
<1>3. CASE ~(call[t].single \/ Shorter[call[t].name] = NoName)
  <2>1. call' = [call EXCEPT ![t].at = "lookup", ![t].name = Shorter[call[t].name]]
    BY <1>3 DEF NothingFound
  <2>2. Shorter[call[t].name] \in Names
    BY <1>1, <1>3
  <2>3. QED  BY <1>3, <2>1, <2>2, GoesOn
<1>4. QED  BY <1>2, <1>3

\* What a call does with a name it has built or given up.
LEMMA Builds ==
    ASSUME NEW t \in Threads, BuildSingleton(t) \/ BuildOther(t)
    PROVE  LET c == call[t] IN
           /\ c.at = "build"
           /\ \/ GivenUp(c) /\ NothingFound(t)
              \/ /\ ~GivenUp(c)
                 /\ \E o \in Fresh :
                       \/ c.name \in Refusing /\ Return(t, NoObject)
                       \/ /\ c.name \notin Refusing /\ c.it = "class"
                          /\ call' = [call EXCEPT ![t].at = "register", ![t].obj = o]
                       \/ c.name \notin Refusing /\ c.it = "end" /\ Return(t, o)
<1>1. CASE BuildSingleton(t)
  <2>1. CASE call[t].name \in NullCreators
    BY <1>1, <2>1 DEF BuildSingleton, GivenUp
  <2>2. CASE call[t].name \notin NullCreators
    <3>1. ~GivenUp(call[t]) /\ call[t].at = "build" /\ call[t].it = "class"
      BY <1>1, <2>2 DEF BuildSingleton, GivenUp
    <3>2. PICK o \in Fresh : Construct(t, o, TRUE)
      BY <1>1, <2>2 DEF BuildSingleton
    <3>3. QED  BY <3>1, <3>2 DEF Construct
  <2>3. QED  BY <2>1, <2>2
<1>2. CASE BuildOther(t)
  <2> DEFINE none == call[t].single \/ call[t].name \notin classes[call[t].loc] \ NullCreators
  <2>1. call[t].at = "build" /\ call[t].it = "end" /\ (none <=> GivenUp(call[t]))
    BY <1>2 DEF BuildOther, GivenUp
  <2>2. \/ none /\ NothingFound(t)
        \/ ~none /\ \E o \in Fresh : Construct(t, o, FALSE)
    BY <1>2 DEF BuildOther
  <2> HIDE DEF none
  <2>3. CASE none
    BY <2>1, <2>2, <2>3
  <2>4. CASE ~none
    <3>1. PICK o \in Fresh : Construct(t, o, FALSE)
      BY <2>2, <2>4
    <3>2. QED  BY <2>1, <2>4, <3>1 DEF Construct
  <2>5. QED  BY <2>3, <2>4
<1>3. QED  BY <1>1, <1>2

\* Every step of a call keeps what the quiet calls have learnt: a name is given up
\* for a shorter one that Found gives the same name for.
LEMMA QuietStep ==
    ASSUME TypeOK, CallsOK, QuietOK, NEW t \in Threads,
           Begin(t) \/ Lookup(t) \/ BuildSingleton(t) \/ BuildOther(t) \/ Crash(t)
    PROVE  QuietOK'
<1> DEFINE c == call[t]
           d == call'[t]
<1>1. UNCHANGED registry /\ \A u \in Threads : u # t => call'[u] = call[u]
  BY ThreadStep
<1>2. SUFFICES ASSUME InFlight(d), ~d.disturbed
               PROVE  LearntIn(singletonObjects[d.loc], singletonClasses[d.loc], classes[d.loc], d)
  BY <1>1, QuietAlone
<1>3. InFlight(c) /\ ~c.disturbed =>
         LearntIn(singletonObjects[c.loc], singletonClasses[c.loc], classes[c.loc], c)
  BY DEF QuietOK, Learnt
<1>4. call \in [Threads -> Call] /\ c \in Call
  BY DEF TypeOK
<1>5. ASSUME NEW o \in Things, Return(t, o)
      PROVE  FALSE
  <2>1. d.at = "idle"
    BY <1>5, Returned
  <2>2. QED  BY <1>2, <2>1 DEF InFlight
<1>6. CASE Begin(t)
  <2>1. PICK l \in Locators, on \in Locators \cup {NoLocator}, single \in BOOLEAN, n \in Names :
              call' = [call EXCEPT ![t] = NewCall(l, on, single, n)]
    BY <1>6 DEF Begin, TryCreate, TryCreateSingleton
  <2>2. d = NewCall(l, on, single, n)
    BY <1>4, <2>1
  <2>3. d.at = "lookup" /\ d.full = n /\ d.name = n
    BY <2>2, Begins
  <2> HIDE DEF d
  <2>4. QED  BY <2>3 DEF LearntIn
<1>7. CASE Lookup(t)
  <2>1. singletonObjects[c.loc][c.name] \in Things
    BY <1>4 DEF Call, TypeOK, Things
  <2>2. /\ c.at = "lookup"
        /\ KeepIterator(t) /\ singletonObjects[c.loc][c.name] = NoObject
    BY <1>5, <1>7, <2>1 DEF Lookup
  <2>3. /\ d.at = "build" /\ d.loc = c.loc /\ d.single = c.single /\ d.full = c.full
        /\ d.name = c.name
        /\ d.it = IF c.name \in singletonClasses[c.loc] THEN "class" ELSE "end"
        /\ d.disturbed <=> c.disturbed /\ c.name # c.full
    BY <2>2, KeepsOn
  <2>4. CASE c.name = c.full
    <3> HIDE DEF c, d
    <3>1. QED  BY <2>2, <2>3, <2>4 DEF LearntIn
  <2>5. CASE c.name # c.full
    <3>1. LearntIn(singletonObjects[c.loc], singletonClasses[c.loc], classes[c.loc], c)
      BY <1>2, <1>3, <2>2, <2>3, <2>5 DEF InFlight
    <3> HIDE DEF c, d
    <3>2. QED  BY <2>2, <2>3, <3>1 DEF LearntIn
  <2>6. QED  BY <2>4, <2>5
<1>8. CASE BuildSingleton(t) \/ BuildOther(t)
  <2>1. /\ c.at = "build"
        /\ \/ GivenUp(c) /\ NothingFound(t)
           \/ /\ ~GivenUp(c)
              /\ \E o \in Fresh :
                    \/ c.name \in Refusing /\ Return(t, NoObject)
                    \/ /\ c.name \notin Refusing /\ c.it = "class"
                       /\ call' = [call EXCEPT ![t].at = "register", ![t].obj = o]
                    \/ c.name \notin Refusing /\ c.it = "end" /\ Return(t, o)
    BY <1>8, Builds
  <2>2. NoObject \in Things /\ Fresh \subseteq Things
    BY DEF Fresh, Things
  <2>3. CASE GivenUp(c) /\ NothingFound(t)
    <3>1. /\ ~c.single /\ Shorter[c.name] # NoName
          /\ d.at = "lookup" /\ d.name = Shorter[c.name] /\ d.loc = c.loc
          /\ d.full = c.full /\ d.single = c.single /\ d.disturbed = c.disturbed
      BY <1>5, <2>2, <2>3, NextShorter
    <3>2. Learnt(c)
      BY <1>2, <1>3, <2>1, <3>1 DEF InFlight, Learnt
    <3>3. Best(c, c.full) = Best(c, Shorter[c.name])
      BY <2>1, <2>3, <3>1, <3>2, BestIs
    <3> HIDE DEF c, d
    <3>4. QED  BY <3>1, <3>3 DEF LearntIn, Best
  <2>4. CASE /\ ~GivenUp(c) /\ c.name \notin Refusing /\ c.it = "class"
             /\ \E o \in Fresh : call' = [call EXCEPT ![t].at = "register", ![t].obj = o]
    <3>1. PICK o \in Fresh : call' = [call EXCEPT ![t].at = "register", ![t].obj = o]
      BY <2>4
    <3>2. /\ d.at = "register" /\ d.loc = c.loc /\ d.single = c.single /\ d.full = c.full
          /\ d.name = c.name /\ d.it = c.it /\ d.disturbed = c.disturbed
      BY <2>2, <3>1, GoesOnWith
    <3>3. LearntIn(singletonObjects[c.loc], singletonClasses[c.loc], classes[c.loc], c)
      BY <1>2, <1>3, <2>1, <3>2 DEF InFlight
    <3>4. c.name \notin NullCreators
      BY <2>4 DEF GivenUp
    <3> HIDE DEF c, d
    <3>5. QED  BY <2>1, <2>4, <3>2, <3>3, <3>4 DEF LearntIn
  <2>5. QED  BY <1>5, <2>1, <2>2, <2>3, <2>4
<1>9. CASE Crash(t)
  <2>1. d.at = "crashed"
    BY <1>4, <1>9, IdleIs DEF Crash, Things
  <2>2. QED  BY <1>2, <2>1 DEF InFlight
<1>10. QED  BY <1>6, <1>7, <1>8, <1>9

\* Every step keeps what the quiet calls have learnt.
LEMMA NextQuietOK ==
    ASSUME TypeOK, CallsOK, QuietOK, [Next]_vars
    PROVE  QuietOK'
<1>c. call \in [Threads -> Call]
  BY DEF TypeOK
<1>0. CASE UNCHANGED vars
  BY <1>0 DEF vars, registry, QuietOK, Learnt, InFlight
<1>1. CASE Change
  <2>1. call' = Seen(call)
    BY <1>1 DEF Change, AddSingletonClass, AddClass, DeleteClass, AddSingletonObject, CopyClass
  <2>2. QED  BY <2>1, <1>c, QuietSeen
<1>2. ASSUME NEW t \in Threads,
             Begin(t) \/ Lookup(t) \/ BuildSingleton(t) \/ BuildOther(t) \/ Crash(t)
      PROVE  QuietOK'
  BY <1>2, QuietStep
<1>3. ASSUME NEW t \in Threads, Register(t) PROVE QuietOK'
  <2> DEFINE f == [call EXCEPT ![t] = Idle(call[t].obj)]
  <2>1. call[t].obj \in Things
    BY <1>c DEF Call, Things
  <2>2. f \in [Threads -> Call] /\ \A u \in Threads : f[u] = call[u] \/ f[u].at = "idle"
    BY <2>1, <1>c, IdleIs
  <2>3. call' = Seen(f)
    BY <1>3 DEF Register
  <2> HIDE DEF f
  <2>4. QED  BY <2>2, <2>3, QuietSeen
<1>4. QED  BY <1>0, <1>1, <1>2, <1>3 DEF Next, Continue

\* A call that has nothing to register returns from its lookup or from a creator.
LEMMA WhoReturns ==
    ASSUME TypeOK, CallsOK, [Next]_vars, NEW t \in Threads, Returns(t), call[t].at # "register"
    PROVE  Lookup(t) \/ BuildSingleton(t) \/ BuildOther(t)
<1>c. call \in [Threads -> Call]
  BY DEF TypeOK
<1>1. Next
  BY DEF Returns, vars
<1>2. ~Change
  <2>1. ASSUME Change PROVE FALSE
    <3>1. call' = Seen(call)
      BY <2>1 DEF Change, AddSingletonClass, AddClass, DeleteClass, AddSingletonObject, CopyClass
    <3>2. call'[t].at = call[t].at
      BY <3>1, <1>c, SeenIs
    <3>3. QED  BY <3>2 DEF Returns
  <2>2. QED  BY <2>1
<1>3. ASSUME NEW u \in Threads, Register(u)
      PROVE  FALSE
  <2> DEFINE f == [call EXCEPT ![u] = Idle(call[u].obj)]
  <2>1. call[u].obj \in Things /\ call[u].at = "register" /\ call' = Seen(f)
    BY <1>3, <1>c DEF Register, Call, Things
  <2>2. f \in [Threads -> Call] /\ \A v \in Threads : v # u => f[v] = call[v]
    BY <2>1, <1>c, IdleIs
  <2> HIDE DEF f
  <2>3. call'[t].at = f[t].at
    BY <2>1, <2>2, SeenIs
  <2>4. QED  BY <2>1, <2>2, <2>3 DEF Returns
<1>4. ASSUME NEW u \in Threads, u # t,
             Begin(u) \/ Lookup(u) \/ BuildSingleton(u) \/ BuildOther(u) \/ Crash(u)
      PROVE  FALSE
  <2>1. call'[t] = call[t]
    BY <1>4, ThreadStep
  <2>2. QED  BY <2>1 DEF Returns
<1>5. ~Begin(t)
  BY DEF Returns, Begin, TryCreate, TryCreateSingleton
<1>6. ~Crash(t)
  <2>1. ASSUME Crash(t) PROVE FALSE
    <3>1. call'[t].at = "crashed"
      BY <2>1, <1>c, IdleIs DEF Crash, Things
    <3>2. QED  BY <3>1 DEF Returns
  <2>2. QED  BY <2>1
<1>7. QED  BY <1>1, <1>2, <1>3, <1>4, <1>5, <1>6 DEF Next, Continue

\* What a quiet call answers.
LEMMA QuietAnswer ==
    ASSUME TypeOK, CallsOK, QuietOK, [Next]_vars, NEW t \in Threads, Returns(t),
           ~call[t].disturbed \/ (call[t].at = "lookup" /\ call[t].name = call[t].full)
    PROVE  LET c == call[t]
               m == Best(c, c.full)
               o == IF m = NoName THEN NoObject ELSE singletonObjects[c.loc][m]
           IN  IF m # NoName /\ o = NoObject /\ m \notin Refusing
               THEN call'[t].obj \in Objects
               ELSE call'[t].obj = o
<1> DEFINE c == call[t]
           best == Best(c, c.full)
<1>1. /\ call \in [Threads -> Call] /\ c \in Call /\ c.name \in Names /\ NoName \notin Names
      /\ c.at \in {"lookup", "build", "register", "crashed"}
  BY ServiceLocatorAssumption DEF TypeOK, Call, Returns
<1>2. NoObject \in Things /\ Fresh \subseteq Objects /\ Objects \subseteq Things
  BY DEF Fresh, Things
<1>3. c.at \in {"build", "register"} => Learnt(c) /\ singletonObjects[c.loc][c.name] = NoObject
  BY DEF QuietOK, InFlight, Learnt, LearntIn
<1>4. CASE c.at = "register"
  <2>1. call'[t].obj = c.obj /\ c.obj \in Objects
    BY <1>4, ReturnsRegisters DEF CallsOK, TypeOK
  <2>2. ~GivenUp(c) /\ c.name \notin Refusing
    BY <1>3, <1>4 DEF Learnt, LearntIn, GivenUp
  <2>3. best = c.name
    BY <1>3, <1>4, <2>2, BestIs
  <2> HIDE DEF best
  <2>4. QED  BY <1>1, <1>3, <1>4, <2>1, <2>2, <2>3 DEF best
<1>5. CASE Lookup(t)
  <2>1. c.at = "lookup"
    BY <1>5 DEF Lookup
  <2>2. singletonObjects[c.loc][c.name] \in Things
    BY <1>1 DEF Call, TypeOK, Things
  <2>3. singletonObjects[c.loc][c.name] # NoObject /\ Return(t, singletonObjects[c.loc][c.name])
    <3>1. ASSUME KeepIterator(t) PROVE FALSE
      <4>1. call'[t].at = "build"
        BY <3>1, KeepsOn
      <4>2. QED  BY <4>1 DEF Returns
    <3>2. QED  BY <1>5, <3>1 DEF Lookup
  <2>4. call'[t].obj = singletonObjects[c.loc][c.name]
    BY <2>2, <2>3, Returned
  <2>5. Best(c, c.name) = c.name
    <3> DEFINE objects == singletonObjects[c.loc]
               singles == singletonClasses[c.loc]
               plain == classes[c.loc]
    <3>1. c.name \in UsableIn(objects, singles, plain, c.single)
      BY <1>1, <2>3 DEF UsableIn
    <3>2. Best(c, c.name) = FoundIn(objects, singles, plain, c.single, c.name)
      BY DEF Best
    <3> HIDE DEF c, objects, singles, plain
    <3>3. QED  BY <1>1, <3>1, <3>2, FoundInIs
  <2>6. best = Best(c, c.name)
    <3>1. CASE c.name = c.full
      BY <3>1
    <3>2. CASE c.name # c.full
      BY <2>1, <3>2 DEF QuietOK, InFlight, Learnt, LearntIn, Best
    <3>3. QED  BY <3>1, <3>2
  <2> HIDE DEF best
  <2>7. QED  BY <1>1, <2>3, <2>4, <2>5, <2>6 DEF best
<1>6. CASE BuildSingleton(t) \/ BuildOther(t)
  <2>1. /\ c.at = "build"
        /\ \/ GivenUp(c) /\ NothingFound(t)
           \/ /\ ~GivenUp(c)
              /\ \E o \in Fresh :
                    \/ c.name \in Refusing /\ Return(t, NoObject)
                    \/ /\ c.name \notin Refusing /\ c.it = "class"
                       /\ call' = [call EXCEPT ![t].at = "register", ![t].obj = o]
                    \/ c.name \notin Refusing /\ c.it = "end" /\ Return(t, o)
    BY <1>6, Builds
  <2>2. /\ singletonObjects[c.loc][c.name] = NoObject
        /\ best = IF ~GivenUp(c) THEN c.name
                  ELSE IF c.single \/ Shorter[c.name] = NoName THEN NoName
                  ELSE Best(c, Shorter[c.name])
    BY <1>3, <2>1, BestIs
  <2>3. CASE GivenUp(c) /\ NothingFound(t)
    <3>1. (c.single \/ Shorter[c.name] = NoName) /\ Return(t, NoObject)
      BY <2>3, NextShorter DEF Returns
    <3>2. call'[t].obj = NoObject
      BY <1>2, <3>1, Returned
    <3>3. best = NoName
      BY <2>2, <2>3, <3>1
    <3> HIDE DEF best
    <3>4. QED  BY <3>2, <3>3 DEF best
  <2>4. CASE ~GivenUp(c) /\ c.name \in Refusing /\ Return(t, NoObject)
    <3>1. call'[t].obj = NoObject /\ best = c.name
      BY <1>2, <2>2, <2>4, Returned
    <3> HIDE DEF best
    <3>2. QED  BY <1>1, <2>2, <2>4, <3>1 DEF best
  <2>5. ASSUME ~GivenUp(c), c.name \notin Refusing, NEW o \in Fresh,
               call' = [call EXCEPT ![t].at = "register", ![t].obj = o]
        PROVE  FALSE
    <3>1. call'[t].at = "register"
      BY <1>2, <2>5, GoesOnWith
    <3>2. QED  BY <3>1 DEF Returns
  <2>6. CASE ~GivenUp(c) /\ c.name \notin Refusing /\ \E o \in Fresh : Return(t, o)
    <3>1. PICK o \in Fresh : Return(t, o)
      BY <2>6
    <3>2. call'[t].obj \in Objects /\ best = c.name
      BY <1>2, <2>2, <2>6, <3>1, Returned
    <3> HIDE DEF best
    <3>3. QED  BY <1>1, <2>2, <2>6, <3>2 DEF best
  <2>7. QED  BY <2>1, <2>3, <2>4, <2>5, <2>6
<1>7. QED  BY <1>4, <1>5, <1>6, WhoReturns

\* A TryCreate that no change of its locator overlapped answers what the registry
\* says: the object of the longest part of the name that is usable, a new one
\* where there is none yet, and nothing if no part is usable or it refuses its name.
THEOREM QuietAnswers == Spec => QuietCallsAnswer
<1>1. IInv /\ QuietOK /\ [Next]_vars => QuietOK'
  BY NextQuietOK DEF IInv
<1>2. Spec => []QuietOK
  BY Invariant, InitQuietOK, <1>1, PTL DEF Spec
<1>3. ASSUME IInv, QuietOK, [Next]_vars
      PROVE  [\A t \in Threads :
                 LET c == call[t]
                     quiet == ~c.disturbed \/ (c.at = "lookup" /\ c.name = c.full)
                     m == Found(c.loc, c.single, c.full)
                     o == IF m = NoName THEN NoObject ELSE singletonObjects[c.loc][m]
                 IN  quiet /\ Returns(t) =>
                        IF m # NoName /\ o = NoObject /\ m \notin Refusing
                        THEN call'[t].obj \in Objects
                        ELSE call'[t].obj = o]_vars
  <2>1. SUFFICES ASSUME NEW t \in Threads, Returns(t),
                        \/ ~call[t].disturbed
                        \/ call[t].at = "lookup" /\ call[t].name = call[t].full
                 PROVE  LET c == call[t]
                            m == Found(c.loc, c.single, c.full)
                            o == IF m = NoName THEN NoObject ELSE singletonObjects[c.loc][m]
                        IN  IF m # NoName /\ o = NoObject /\ m \notin Refusing
                            THEN call'[t].obj \in Objects
                            ELSE call'[t].obj = o
    OBVIOUS
  <2>2. Found(call[t].loc, call[t].single, call[t].full) = Best(call[t], call[t].full)
    BY FoundAs DEF Best
  <2>3. LET c == call[t]
            m == Best(c, c.full)
            o == IF m = NoName THEN NoObject ELSE singletonObjects[c.loc][m]
        IN  IF m # NoName /\ o = NoObject /\ m \notin Refusing
            THEN call'[t].obj \in Objects
            ELSE call'[t].obj = o
    BY <1>3, <2>1, QuietAnswer DEF IInv
  <2>4. QED  BY <2>2, <2>3
<1>4. QED  BY Invariant, <1>2, <1>3, PTL DEF Spec, QuietCallsAnswer

=============================================================================
