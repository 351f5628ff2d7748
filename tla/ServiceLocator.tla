--------------------------- MODULE ServiceLocator ---------------------------
(***************************************************************************)
(* The service locators of VEILCore/servicelocator.cpp (CryptoLocator.cpp  *)
(* is the same program over other types): registries of classes, singleton *)
(* classes and singleton objects, shared by threads and guarded by the     *)
(* lock of module RWLock.  A section under one guard is one action, which  *)
(* is what RWLock's Exclusion theorem allows.  What happens between two    *)
(* sections of TryCreate is an action too: there the code uses what it     *)
(* read under the guard after the guard is gone.  Names hold no path here. *)
(***************************************************************************)
EXTENDS Naturals, Sequences, FiniteSets

CONSTANTS
    Threads, Locators, Names, Objects,
    NoLocator, NoName, NoObject,
    Shorter,        \* a name without its last "-" part, or NoName
    NullCreators,   \* names whose creator returns nullptr
    Refusing,       \* names whose InitializeWithFullName fails
    Aggregatable    \* objects that implement IAggregatableObject

ASSUME ServiceLocatorAssumption ==
    /\ Locators # {} /\ Names # {} /\ IsFiniteSet(Objects)
    /\ NoLocator \notin Locators
    /\ NoName \notin Names
    /\ NoObject \notin Objects
    /\ Shorter \in [Names -> Names \cup {NoName}]
    /\ NullCreators \subseteq Names
    /\ Refusing \subseteq Names
    /\ Aggregatable \subseteq Objects

\* A name has so many parts, so that the shorter forms come to an end.
ASSUME ShorterAssumption ==
    \A S \in SUBSET Names : (\A n \in S : Shorter[n] \in S) => S = {}

VARIABLES
    classes,          \* _classes
    singletonClasses, \* _singleton_classes
    singletonObjects, \* _singleton_objects
    contained,        \* what an aggregatable object was told it contains
    container,        \* ... and what it was told contains it
    constructed,      \* the objects that exist already
    call              \* each thread's TryCreate, the last one when it is idle

registry == <<classes, singletonClasses, singletonObjects>>
vars == <<registry, contained, container, constructed, call>>

(* A call: where it is, the locator it was made on, the service it builds  *)
(* for (NoLocator in the plain overloads), whether it is                   *)
(* internalTryCreateSingleton, the name tried now, the iterator it keeps   *)
(* and the object.  The rest is history: whether the locator changed since *)
(* the first lookup, and since the last one whether _classes changed, the  *)
(* singleton class was erased, an object was registered for the name.      *)
Call == [at : {"idle", "lookup", "build", "register", "crashed"},
         loc : Locators, on : Locators \cup {NoLocator}, single : BOOLEAN,
         full : Names, name : Names, it : {"end", "class"},
         obj : Objects \cup {NoObject},
         disturbed : BOOLEAN, torn : BOOLEAN, erased : BOOLEAN, raced : BOOLEAN]

NewCall(l, on, single, n) ==
    [at |-> "lookup", loc |-> l, on |-> on, single |-> single,
     full |-> n, name |-> n, it |-> "end", obj |-> NoObject,
     disturbed |-> FALSE, torn |-> FALSE, erased |-> FALSE, raced |-> FALSE]

\* A thread outside TryCreate, and what its last call returned.
Idle(o) ==
    [NewCall(CHOOSE l \in Locators : TRUE, NoLocator, FALSE,
             CHOOSE n \in Names : TRUE) EXCEPT !.at = "idle", !.obj = o]

Init ==
    /\ classes = [l \in Locators |-> {}]
    /\ singletonClasses = [l \in Locators |-> {}]
    /\ singletonObjects = [l \in Locators |-> [n \in Names |-> NoObject]]
    /\ contained = [o \in Objects |-> NoObject]
    /\ container = [o \in Objects |-> NoObject]
    /\ constructed = {}
    /\ call = [t \in Threads |-> Idle(NoObject)]

Fresh == Objects \ constructed

InFlight(c) == c.at \in {"lookup", "build", "register"}

\* The calls as a change of the registry leaves them: what it did to the
\* part of the registry they are looking at.
Seen(calls) ==
    [t \in Threads |->
        LET c == calls[t] IN
        IF ~InFlight(c) THEN c
        ELSE [c EXCEPT
                !.disturbed = @ \/ \E i \in 1 .. 3 :
                                     registry'[i][c.loc] # registry[i][c.loc],
                !.torn = @ \/ classes'[c.loc] # classes[c.loc],
                !.erased = @ \/ c.name \in singletonClasses[c.loc]
                                           \ singletonClasses'[c.loc],
                !.raced = @ \/ singletonObjects'[c.loc][c.name]
                                 \notin {NoObject, singletonObjects[c.loc][c.name]}]]

-----------------------------------------------------------------------------
(* Sections under the writer lock.  A refused request returns false and    *)
(* changes nothing.                                                        *)

AddSingletonClass(l, n) ==
    /\ n \notin singletonClasses[l]
    /\ singletonObjects[l][n] = NoObject
    /\ singletonClasses' = [singletonClasses EXCEPT ![l] = @ \cup {n}]
    /\ UNCHANGED <<classes, singletonObjects, contained, container, constructed>>
    /\ call' = Seen(call)

AddClass(l, n) ==
    /\ n \notin singletonClasses[l] \cup classes[l]
    /\ singletonObjects[l][n] = NoObject
    /\ classes' = [classes EXCEPT ![l] = @ \cup {n}]
    /\ UNCHANGED <<singletonClasses, singletonObjects, contained, container,
                   constructed>>
    /\ call' = Seen(call)

\* CopyClass, plain name: the other locator's section runs inside the reader
\* guard of this one.
CopyClass(l, n, to) ==
    /\ l # to
    /\ IF n \in singletonClasses[l]
       THEN AddSingletonClass(to, n)
       ELSE n \in classes[l] /\ AddClass(to, n)

\* A slip: the object taken in is not told.
StoreObjectSilently(l, n, o) ==
    LET old == singletonObjects[l][n] IN
    IF old # NoObject /\ o \notin Aggregatable
    THEN UNCHANGED <<singletonObjects, contained, container>>
    ELSE /\ singletonObjects' = [singletonObjects EXCEPT ![l][n] = o]
         /\ contained' = IF old = NoObject THEN contained
                         ELSE [contained EXCEPT ![o] = old]
         /\ UNCHANGED container

\* Body of AddSingletonObject: the first object of a name is stored, a later
\* one must be aggregatable and takes the earlier one in.
StoreObject(l, n, o) ==
    LET old == singletonObjects[l][n] IN
    IF old # NoObject /\ o \notin Aggregatable
    THEN UNCHANGED <<singletonObjects, contained, container>>
    ELSE /\ singletonObjects' = [singletonObjects EXCEPT ![l][n] = o]
         /\ contained' = IF old = NoObject THEN contained
                         ELSE [contained EXCEPT ![o] = old]
         /\ container' = IF old \in Aggregatable
                         THEN [container EXCEPT ![old] = o]
                         ELSE container

AddSingletonObject(l, n, o) ==
    /\ o \in Fresh
    /\ constructed' = constructed \cup {o}
    /\ StoreObject(l, n, o)
    /\ UNCHANGED <<classes, singletonClasses>>
    /\ call' = Seen(call)

\* A slip: the whole aggregate is dropped.
DeleteClassWhole(l, n) ==
    /\ singletonClasses' = [singletonClasses EXCEPT ![l] = @ \ {n}]
    /\ classes' = [classes EXCEPT ![l] = @ \ {n}]
    /\ singletonObjects' = [singletonObjects EXCEPT ![l][n] = NoObject]
    /\ UNCHANGED <<contained, container, constructed>>
    /\ call' = Seen(call)

\* DeleteClass erases the class, and the object unless it contains another
\* one, which then takes its place.  The container that is reset is that of
\* the outer object: the code casts foundObject->second for both.
DeleteClass(l, n) ==
    LET outer == singletonObjects[l][n]
        inner == IF outer \in Aggregatable THEN contained[outer] ELSE NoObject
    IN
    /\ singletonClasses' = [singletonClasses EXCEPT ![l] = @ \ {n}]
    /\ classes' = [classes EXCEPT ![l] = @ \ {n}]
    /\ singletonObjects' = [singletonObjects EXCEPT ![l][n] = inner]
    /\ container' = IF inner = NoObject THEN container
                    ELSE [container EXCEPT ![outer] = NoObject]
    /\ UNCHANGED <<contained, constructed>>
    /\ call' = Seen(call)

-----------------------------------------------------------------------------
(* TryCreate and internalTryCreate, with and without a service. *)

TryCreate(t, l, on, n) ==
    /\ call[t].at = "idle"
    /\ call' = [call EXCEPT ![t] = NewCall(l, on, FALSE, n)]
    /\ UNCHANGED <<registry, contained, container, constructed>>

\* internalTryCreateSingleton, as resolvePath and CleanEmptyCollections use it.
TryCreateSingleton(t, l, n) ==
    /\ call[t].at = "idle"
    /\ call' = [call EXCEPT ![t] = NewCall(l, NoLocator, TRUE, n)]
    /\ UNCHANGED <<registry, contained, container, constructed>>

Return(t, o) == call' = [call EXCEPT ![t] = Idle(o)]

\* A slip: every part of the name is given up at once.
NothingFoundGiveUp(t) == Return(t, NoObject)

\* No object for this name: the next shorter one, if there is one.
NothingFound(t) ==
    LET n == Shorter[call[t].name] IN
    IF call[t].single \/ n = NoName
    THEN Return(t, NoObject)
    ELSE call' = [call EXCEPT ![t].at = "lookup", ![t].name = n]

\* The call goes on with what the lookup of the class gave.
KeepIterator(t) ==
    LET c == call[t] IN
    call' = [call EXCEPT ![t] =
               [c EXCEPT !.at = "build",
                         !.it = IF c.name \in singletonClasses[c.loc]
                                THEN "class" ELSE "end",
                         !.disturbed = @ /\ c.name # c.full,
                         !.torn = FALSE, !.erased = FALSE, !.raced = FALSE]]

\* A slip: the objects that exist are not looked at.
LookupClassOnly(t) ==
    /\ call[t].at = "lookup"
    /\ KeepIterator(t)
    /\ UNCHANGED <<registry, contained, container, constructed>>

\* The section under the reader lock: the object if it exists, else an
\* iterator into _singleton_classes, kept after the guard is gone.
Lookup(t) ==
    LET c == call[t]
        o == singletonObjects[c.loc][c.name]
    IN
    /\ c.at = "lookup"
    /\ IF o # NoObject
       THEN Return(t, o)
       ELSE KeepIterator(t)
    /\ UNCHANGED <<registry, contained, container, constructed>>

\* The creator runs, then FinishConstruction and InitializeWithFullName,
\* which throws when it fails.  Only a singleton goes on to be registered.
Construct(t, o, singleton) ==
    /\ constructed' = constructed \cup {o}
    /\ IF call[t].name \in Refusing
       THEN Return(t, NoObject)
       ELSE IF singleton
       THEN call' = [call EXCEPT ![t].at = "register", ![t].obj = o]
       ELSE Return(t, o)

\* found_single->second() through the iterator, without the lock.
BuildSingleton(t) ==
    /\ call[t].at = "build"
    /\ call[t].it = "class"
    /\ IF call[t].name \in NullCreators
       THEN NothingFound(t) /\ UNCHANGED constructed
       ELSE \E o \in Fresh : Construct(t, o, TRUE)
    /\ UNCHANGED <<registry, contained, container>>

\* A slip: an object of a plain class goes on to be registered.
BuildOtherToRegister(t) ==
    LET c == call[t] IN
    /\ c.at = "build"
    /\ c.it = "end"
    /\ IF c.single \/ c.name \notin classes[c.loc] \ NullCreators
       THEN NothingFound(t) /\ UNCHANGED constructed
       ELSE \E o \in Fresh : Construct(t, o, TRUE)
    /\ UNCHANGED <<registry, contained, container>>

\* _classes.find and the creator, without the lock.
BuildOther(t) ==
    LET c == call[t] IN
    /\ c.at = "build"
    /\ c.it = "end"
    /\ IF c.single \/ c.name \notin classes[c.loc] \ NullCreators
       THEN NothingFound(t) /\ UNCHANGED constructed
       ELSE \E o \in Fresh : Construct(t, o, FALSE)
    /\ UNCHANGED <<registry, contained, container>>

\* The iterator was erased under the call, or _classes is changed while it
\* is searched: undefined.  Either it still works, as above, or it does not.
Crash(t) ==
    /\ call[t].at = "build"
    /\ IF call[t].it = "class" THEN call[t].erased ELSE call[t].torn
    /\ call' = [call EXCEPT ![t] = [Idle(NoObject) EXCEPT !.at = "crashed"]]
    /\ UNCHANGED <<registry, contained, container, constructed>>

\* A slip: the second of two racing creators wins.
RegisterOver(t) ==
    LET c == call[t]
        done == [call EXCEPT ![t] = Idle(c.obj)]
    IN
    /\ c.at = "register"
    /\ singletonObjects' = [singletonObjects EXCEPT ![c.loc][c.name] = c.obj]
    /\ UNCHANGED <<classes, singletonClasses, contained, container, constructed>>
    /\ call' = Seen(done)

\* The section under the writer lock: std::map::insert keeps an object that
\* is there already, the caller gets its own object all the same.  The
\* overloads with a service add the object there instead.
Register(t) ==
    LET c == call[t]
        done == [call EXCEPT ![t] = Idle(c.obj)]
    IN
    /\ c.at = "register"
    /\ IF c.on # NoLocator
       THEN StoreObject(c.on, c.name, c.obj)
       ELSE /\ singletonObjects' =
                 IF singletonObjects[c.loc][c.name] = NoObject
                 THEN [singletonObjects EXCEPT ![c.loc][c.name] = c.obj]
                 ELSE singletonObjects
            /\ UNCHANGED <<contained, container>>
    /\ UNCHANGED <<classes, singletonClasses, constructed>>
    /\ call' = Seen(done)

-----------------------------------------------------------------------------

Change ==
    \E l \in Locators, n \in Names :
        \/ AddSingletonClass(l, n)
        \/ AddClass(l, n)
        \/ DeleteClass(l, n)
        \/ \E o \in Objects : AddSingletonObject(l, n, o)
        \/ \E to \in Locators : CopyClass(l, n, to)

Begin(t) ==
    \E l \in Locators, n \in Names :
        \/ TryCreateSingleton(t, l, n)
        \/ \E on \in Locators \cup {NoLocator} : TryCreate(t, l, on, n)

Continue(t) ==
    Lookup(t) \/ BuildSingleton(t) \/ BuildOther(t) \/ Crash(t) \/ Register(t)

Next == Change \/ \E t \in Threads : Begin(t) \/ Continue(t)

Spec == Init /\ [][Next]_vars

-----------------------------------------------------------------------------
(* Properties *)

\* Type invariant of the registries and of the calls.
TypeOK ==
    /\ classes \in [Locators -> SUBSET Names]
    /\ singletonClasses \in [Locators -> SUBSET Names]
    /\ singletonObjects \in [Locators -> [Names -> Objects \cup {NoObject}]]
    /\ contained \in [Objects -> Objects \cup {NoObject}]
    /\ container \in [Objects -> Objects \cup {NoObject}]
    /\ constructed \subseteq Objects
    /\ call \in [Threads -> Call]

\* internalCanCreate
CanCreate(l, n) ==
    n \in singletonClasses[l] \cup classes[l] \/ singletonObjects[l][n] # NoObject

\* A registered object leaves its name only wrapped into an aggregate that
\* contains it, or because its name is deleted: whatever creators race, the
\* first registration of a singleton stands.
SingletonsStay ==
    [][\A l \in Locators, n \in Names :
          LET old == singletonObjects[l][n]
              new == singletonObjects'[l][n]
          IN  old # new /\ old # NoObject =>
                 \/ ~CanCreate(l, n)'
                 \/ new # NoObject /\ (contained'[new] = old \/ new = contained[old])]_vars

Returns(t) == call[t].at # "idle" /\ call'[t].at = "idle"

\* Two callers of TryCreate get different objects for one singleton only when
\* their calls overlapped: a caller that built an object and was not overtaken
\* by another registration is the one whose object is registered.
OnlyRacersGetTheirOwn ==
    [][\A t \in Threads :
          LET c == call[t] IN
          /\ Returns(t) /\ c.at = "register" /\ c.on = NoLocator /\ ~c.raced
          => singletonObjects'[c.loc][c.name] = call'[t].obj]_vars

\* TryCreate registers an object for a name that has nothing registered only where
\* the singleton class of that name was deleted between its lookup and its
\* registration (999-1098): that race does bring the name back.
DeletedStaysDeleted ==
    [][\A l \in Locators, n \in Names, t \in Threads :
          LET c == call[t] IN
          /\ c.at = "register" /\ Returns(t)
          /\ c.on = NoLocator /\ c.loc = l /\ c.name = n
          /\ ~CanCreate(l, n) /\ CanCreate(l, n)'
          => c.erased]_vars

\* What TryCreate should find: the longest part of the name that can be
\* created here and whose creator does not return nullptr.
Found(l, single, n) ==
    LET usable(m) == \/ singletonObjects[l][m] # NoObject
                     \/ /\ m \notin NullCreators
                        /\ m \in singletonClasses[l]
                                  \cup (IF single THEN {} ELSE classes[l])
        best[m \in Names] ==
            IF usable(m) THEN m
            ELSE IF single \/ Shorter[m] = NoName THEN NoName
            ELSE best[Shorter[m]]
    IN  best[n]

\* A call that no change of the locator overlapped answers as the registry
\* says: the object registered under the longest usable part of the name, a
\* new one if there is none, nothing if no part is usable or its
\* initialisation fails.
QuietCallsAnswer ==
    [][\A t \in Threads :
          LET c == call[t]
              quiet == ~c.disturbed \/ (c.at = "lookup" /\ c.name = c.full)
              m == Found(c.loc, c.single, c.full)
              o == IF m = NoName THEN NoObject ELSE singletonObjects[c.loc][m]
          IN  quiet /\ Returns(t) =>
                 IF m # NoName /\ o = NoObject /\ m \notin Refusing
                 THEN call'[t].obj \in Objects
                 ELSE call'[t].obj = o]_vars

\* What an object contains, as the pointers say.
Inner(o) == IF o \in Aggregatable THEN contained[o] ELSE NoObject

\* At most k objects: o, the one it contains, the one that one contains, ...
Below[k \in 0 .. Cardinality(Objects)] ==
    [o \in Objects \cup {NoObject} |->
        IF k = 0 \/ o = NoObject THEN <<>> ELSE <<o>> \o Below[k - 1][Inner(o)]]

\* The object registered under a name and those it has taken in, newest first.
Stack(l, n) == Below[Cardinality(Objects)][singletonObjects[l][n]]

Stacks == [l \in Locators |-> [n \in Names |-> Stack(l, n)]]

\* The names promise stacks of objects.
Promise == INSTANCE ObjectStacks WITH
               stack <- Stacks
Implements == Promise!Spec

\* The variables have their types, and the container an object was told about,
\* while it is registered or taken in, is the object that took it in.
ContainerCurrent ==
    /\ TypeOK
    /\ \A l \in Locators, n \in Names :
          LET s == Stack(l, n) IN
          \A i \in 2 .. Len(s) : s[i] \in Aggregatable => container[s[i]] = s[i - 1]
=============================================================================
