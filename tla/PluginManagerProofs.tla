------------------------- MODULE PluginManagerProofs -------------------------
(***************************************************************************)
(* Theorems about PluginManager, for any number of threads, of libraries   *)
(* and of modules, and for calls nested to any depth.                      *)
(***************************************************************************)
EXTENDS PluginManager, SequenceTheorems, TLAPS

-----------------------------------------------------------------------------
(* The types *)

LoadFrames ==
    [op : {"load"}, at : {"lock", "wait"}, path : Paths, locator : Locators,
     cleanup : BOOLEAN, module : {0}]
    \union [op : {"load"}, at : {"connected", "inside", "add"}, path : Paths,
            locator : Locators, cleanup : BOOLEAN, module : Nat \ {0}]
FindFrames == [op : {"find"}, at : {"lock"}]
AllFrames == [op : {"all"}, at : {"lock", "next", "inside"}, module : Nat,
              left : SUBSET Paths, names : SUBSET Paths]
CloseFrames == [op : {"close"}, at : {"pop"}]
CleanFrames == [op : {"clean"}, at : {"terminate", "inside", "delete"}, module : Nat]

Frames == LoadFrames \union FindFrames \union AllFrames \union CloseFrames \union CleanFrames

Modules == [path : Paths, locator : Locators, cleanup : BOOLEAN, connected : BOOLEAN,
            life : {"new", "failed", "up", "down"}, terminated : Nat, early : BOOLEAN]

TypeOK ==
    /\ modules \in Seq(Modules)
    /\ registered \in [Locators -> [Paths -> 0 .. Len(modules)]]
    /\ cleanups \in Seq(0 .. Len(modules))
    /\ frames \in [Threads -> Seq(Frames)]
    /\ system \in {"open", "closing", "closed"}
    /\ overlapped \in BOOLEAN

-----------------------------------------------------------------------------
(* The inductive invariant *)

Positions(t) == DOMAIN frames[t]
LoadAt(t, i) == frames[t][i].op = "load" /\ frames[t][i].at \notin {"lock", "wait"}
AllAt(t, i) == frames[t][i].op = "all" /\ frames[t][i].at # "lock"
CleanAt(t, i) == frames[t][i].op = "clean"

\* A frame calls from inside a module or from TerminateVEILSystem; terminations are at
\* the bottom of the stack, loads and finds are called by the application or a module.
Stacked ==
    \A t \in Threads : \A i \in Positions(t) :
       LET f == frames[t][i]
       IN /\ i < Len(frames[t]) => f.at = "inside" \/ f.op = "close"
          /\ f.op = "close" => i = 1
          /\ f.op \in {"all", "clean"} => i = 1 \/ (i = 2 /\ frames[t][1].op = "close")
          /\ f.op \in {"load", "find"} /\ i > 1 => frames[t][i - 1].at = "inside"

\* A module that is being loaded is connected and has no name yet, and there is one
\* load of it.
LoadOK(t, i) ==
    LET f == frames[t][i]
        m == modules[f.module]
    IN /\ f.module \in DOMAIN modules
       /\ m.connected /\ m.path = f.path /\ m.locator = f.locator
       /\ f.at \in {"connected", "inside"} => m.life = "new"
       /\ f.at = "add" => m.life \in {"up", "down"}
       /\ m.terminated > 0 => m.early
       /\ \A l \in Locators, p \in Paths : registered[l][p] # f.module

OneLoad ==
    \A t, u \in Threads : \A i \in Positions(t), j \in Positions(u) :
       LoadAt(t, i) /\ LoadAt(u, j) /\ frames[t][i].module = frames[u][j].module =>
          t = u /\ i = j

LoadsOK ==
    /\ \A t \in Threads : \A i \in Positions(t) : LoadAt(t, i) => LoadOK(t, i)
    /\ OneLoad

\* A name is that of its module, which was initialised.
NamesOK ==
    \A l \in Locators, p \in Paths :
       LET m == registered[l][p]
       IN m # 0 => modules[m].locator = l /\ modules[m].path = p
                   /\ modules[m].life \in {"up", "down"}

\* One thread loads, and no module is connected or named under a reader guard.
LocksOK ==
    /\ \A t, u \in Threads : Writing(t) /\ Writing(u) => t = u
    /\ (\E t \in Threads : Reading(t)) =>
          \A u \in Threads : \A j \in Positions(u) : ~LoadAt(u, j)

\* What TerminateAllPlugins has been through in its first loop is down; it has not been
\* through what is in a locator below.
AllGood(t, i) ==
    LET f == frames[t][i]
    IN /\ f.left \subseteq f.names \ Nested
       /\ f.at = "inside" => f.module \in DOMAIN modules
       /\ \A p \in (f.names \ Nested) \ f.left :
             registered["own"][p] # 0 => modules[registered["own"][p]].life # "up"

AllOK == \A t \in Threads : \A i \in Positions(t) : AllAt(t, i) => AllGood(t, i)

\* The cleanup of a module is run once.
CleanupsOK ==
    /\ \A i, j \in DOMAIN cleanups : cleanups[i] = cleanups[j] => i = j
    /\ \A t \in Threads : \A i \in Positions(t) : CleanAt(t, i) =>
          /\ frames[t][i].module \in DOMAIN modules
          /\ \A k \in DOMAIN cleanups : cleanups[k] # frames[t][i].module

\* A module is disconnected after its Terminate, with nobody in its code.
DisconnectedIsDown ==
    \A m \in DOMAIN modules :
       ~modules[m].connected =>
          /\ modules[m].life # "up"
          /\ overlapped \/ \A t \in Threads : ~Inside(t, m)

OneTerminator ==
    overlapped \/ \A t, u \in Threads : Terminating(t) /\ Terminating(u) => t = u

\* A thread is about to delete the name p of module m.
AboutToDelete(p, m) ==
    \E t \in Threads : \E i \in Positions(t) :
       \/ CleanAt(t, i) /\ frames[t][i].module = m
       \/ AllAt(t, i) /\ p \in frames[t][i].names

NamesWork ==
    \A p \in Paths :
       LET m == registered["own"][p]
       IN m # 0 /\ modules[m].terminated > 0 => modules[m].early \/ AboutToDelete(p, m)

\* What there is of module m: a load, a name, a cleanup to run, a cleanup that is
\* running and one that has not come to Terminate.
Named(m) == \E l \in Locators, p \in Paths : registered[l][p] = m
CleanupLeft(m) == \E k \in DOMAIN cleanups : cleanups[k] = m
CleaningUp(m) ==
    \E t \in Threads : \E i \in Positions(t) : CleanAt(t, i) /\ frames[t][i].module = m
CleanupStarted(m) ==
    \E t \in Threads : \E i \in Positions(t) :
       CleanAt(t, i) /\ frames[t][i].module = m /\ frames[t][i].at = "terminate"

\* The cleanup of module m is over, but perhaps for the name of the module.
CleanedUp(m) ==
    /\ ~Loading(m) /\ ~CleanupLeft(m) /\ ~CleanupStarted(m)
    /\ Named(m) => CleaningUp(m)

\* TerminateAllPlugins has terminated module m and is about to disconnect it.
ToBeDropped(m) ==
    \E t \in Threads : \E i \in Positions(t) :
       LET f == frames[t][i]
           p == modules[m].path
       IN AllAt(t, i) /\ p \in (f.names \ Nested) \ f.left /\ registered["own"][p] = m

\* A connected module that was terminated will not be terminated again.
OnceOK(m) ==
    ~modules[m].early /\ modules[m].terminated > 0 =>
       /\ modules[m].terminated = 1
       /\ modules[m].connected => CleanedUp(m) \/ ToBeDropped(m)

TerminatedOK == overlapped \/ \A m \in DOMAIN modules : OnceOK(m)

\* The cleanup of a module that is up, or may come up, is still to run or ran too early.
DueOK(m) ==
    \/ ~modules[m].cleanup \/ modules[m].early
    \/ CleanupLeft(m) \/ CleanupStarted(m)
    \/ modules[m].life # "up" /\ ~Loading(m)

CleanupIsDue == \A m \in DOMAIN modules : DueOK(m)

\* A cleanup that is past its Terminate leaves the module down, or it ran too early.
DoneOK(m) == modules[m].early \/ (modules[m].life # "up" /\ ~Loading(m))

CleanDone ==
    \A t \in Threads : \A i \in Positions(t) :
       CleanAt(t, i) /\ frames[t][i].at # "terminate" => DoneOK(frames[t][i].module)

\* A module that is up is being loaded or has its name, which no other can take or delete.
KeptOK(m) ==
    modules[m].life = "up" /\ ~modules[m].early /\ ~Unlisted(m) /\ Alone(m) =>
       Loading(m) \/ Named(m)

NobodyLost == \A m \in DOMAIN modules : KeptOK(m)

IInv ==
    /\ TypeOK /\ Stacked /\ LoadsOK /\ NamesOK /\ LocksOK /\ AllOK /\ CleanupsOK
    /\ OneTerminator /\ TerminatedOK /\ CleanupIsDue
    /\ NamesWork /\ DisconnectedIsDown /\ CleanDone /\ NobodyLost

-----------------------------------------------------------------------------
(* Frames *)

\* The call of a frame says which fields it has.
LEMMA FrameKinds ==
    ASSUME NEW f \in Frames
    PROVE  /\ f.op \in {"load", "find", "all", "close", "clean"}
           /\ f.op = "load" => f \in LoadFrames
           /\ f.op = "find" => f \in FindFrames
           /\ f.op = "all" => f \in AllFrames
           /\ f.op = "close" => f \in CloseFrames
           /\ f.op = "clean" => f \in CleanFrames
  BY DEF Frames, LoadFrames, FindFrames, AllFrames, CloseFrames, CleanFrames

\* A frame is inside a module, which its field names, only in these calls.
LEMMA FrameFields ==
    ASSUME NEW f \in Frames
    PROVE  /\ f.op = "load" => /\ f.at \in {"lock", "wait", "connected", "inside", "add"}
                               /\ f.path \in Paths /\ f.locator \in Locators
                               /\ f.cleanup \in BOOLEAN /\ f.module \in Nat
                               /\ f.module = 0 <=> f.at \in {"lock", "wait"}
           /\ f.op = "find" => f.at = "lock"
           /\ f.op = "all" => /\ f.at \in {"lock", "next", "inside"} /\ f.module \in Nat
                              /\ f.left \in SUBSET Paths /\ f.names \in SUBSET Paths
           /\ f.op = "close" => f.at = "pop"
           /\ f.op = "clean" => f.at \in {"terminate", "inside", "delete"} /\ f.module \in Nat
  BY FrameKinds DEF LoadFrames, FindFrames, AllFrames, CloseFrames, CleanFrames

LEMMA LoadFrameTo ==
    ASSUME NEW f \in Frames, f.op = "load", f.at \notin {"lock", "wait"},
           NEW a \in {"connected", "inside", "add"}, NEW g, g = [f EXCEPT !.at = a]
    PROVE  /\ g \in Frames /\ g.op = "load" /\ g.at = a /\ g.path = f.path
           /\ g.locator = f.locator /\ g.cleanup = f.cleanup /\ g.module = f.module
  BY FrameKinds DEF LoadFrames, Frames

LEMMA LoadFrameWaits ==
    ASSUME NEW f \in Frames, f.op = "load", f.at = "lock", NEW g, g = [f EXCEPT !.at = "wait"]
    PROVE  g \in Frames /\ g.op = "load" /\ g.at = "wait"
  BY FrameKinds DEF LoadFrames, Frames

LEMMA CleanFrameTo ==
    ASSUME NEW f \in Frames, f.op = "clean", NEW a \in {"inside", "delete"},
           NEW g, g = [f EXCEPT !.at = a]
    PROVE  g \in Frames /\ g.op = "clean" /\ g.at = a /\ g.module = f.module
  BY FrameKinds DEF CleanFrames, Frames

-----------------------------------------------------------------------------
(* Stacks *)

StacksOK == frames \in [Threads -> Seq(Frames)]

\* A step of t leaves the stacks of the others, and what t has below position n.
Below(t, n) ==
    /\ \A u \in Threads \ {t} : frames'[u] = frames[u]
    /\ \A i \in 1 .. n : frames'[t][i] = frames[t][i]

LEMMA StackTypes ==
    ASSUME StacksOK, NEW t \in Threads
    PROVE  /\ Len(frames[t]) \in Nat
           /\ Positions(t) = 1 .. Len(frames[t])
           /\ \A i \in Positions(t) : frames[t][i] \in Frames
           /\ frames[t] # <<>> <=> Len(frames[t]) > 0
           /\ frames[t] # <<>> => /\ Len(frames[t]) \in Positions(t) /\ Top(t) \in Frames
                                  /\ Top(t) = frames[t][Len(frames[t])]
  <1>1. frames[t] \in Seq(Frames)
    BY DEF StacksOK
  <1>2. Len(frames[t]) \in Nat /\ Positions(t) = 1 .. Len(frames[t])
    BY <1>1, LenProperties DEF Positions
  <1>3. \A i \in Positions(t) : frames[t][i] \in Frames
    BY <1>1, <1>2, ElementOfSeq
  <1>4. frames[t] # <<>> <=> Len(frames[t]) > 0
    BY <1>1, <1>2, EmptySeq
  <1> QED
    BY <1>2, <1>3, <1>4 DEF Top

LEMMA Pushed ==
    ASSUME StacksOK, NEW t \in Threads, NEW f \in Frames, Push(t, f)
    PROVE  /\ StacksOK'
           /\ Len(frames'[t]) = Len(frames[t]) + 1
           /\ frames'[t][Len(frames[t]) + 1] = f
           /\ Below(t, Len(frames[t]))
  <1>1. frames[t] \in Seq(Frames)
    BY DEF StacksOK
  <1>2. /\ Append(frames[t], f) \in Seq(Frames)
        /\ Len(Append(frames[t], f)) = Len(frames[t]) + 1
        /\ \A i \in 1 .. Len(frames[t]) : Append(frames[t], f)[i] = frames[t][i]
        /\ Append(frames[t], f)[Len(frames[t]) + 1] = f
    BY <1>1, AppendProperties
  <1>3. frames' = [frames EXCEPT ![t] = Append(frames[t], f)]
    BY DEF Push
  <1> QED
    BY <1>2, <1>3 DEF StacksOK, Below

LEMMA Popped ==
    ASSUME StacksOK, NEW t \in Threads, Pop(t), frames[t] # <<>>
    PROVE  /\ StacksOK'
           /\ Len(frames'[t]) = Len(frames[t]) - 1
           /\ Below(t, Len(frames[t]) - 1)
  <1> DEFINE s == SubSeq(frames[t], 1, Len(frames[t]) - 1)
  <1>1. frames[t] \in Seq(Frames) /\ Len(frames[t]) \in Nat \ {0}
    BY StackTypes DEF StacksOK
  <1>2. /\ s \in Seq(Frames)
        /\ Len(s) = Len(frames[t]) - 1
        /\ \A i \in 1 .. (Len(frames[t]) - 1) : s[i] = frames[t][i]
    BY <1>1
  <1>3. frames' = [frames EXCEPT ![t] = s]
    BY DEF Pop
  <1> QED
    BY <1>2, <1>3 DEF StacksOK, Below

LEMMA Became ==
    ASSUME StacksOK, NEW t \in Threads, NEW f \in Frames, Become(t, f), frames[t] # <<>>
    PROVE  /\ StacksOK'
           /\ Len(frames'[t]) = Len(frames[t])
           /\ frames'[t][Len(frames[t])] = f
           /\ Below(t, Len(frames[t]) - 1)
  <1> DEFINE s == [frames[t] EXCEPT ![Len(frames[t])] = f]
  <1>1. frames[t] \in Seq(Frames) /\ Len(frames[t]) \in Nat \ {0}
    BY StackTypes DEF StacksOK
  <1>2. /\ s \in Seq(Frames)
        /\ Len(s) = Len(frames[t])
        /\ \A i \in 1 .. (Len(frames[t]) - 1) : s[i] = frames[t][i]
        /\ s[Len(frames[t])] = f
    BY <1>1
  <1>3. frames' = [frames EXCEPT ![t] = s]
    BY DEF Become
  <1> QED
    BY <1>2, <1>3 DEF StacksOK, Below

-----------------------------------------------------------------------------
(* What a step does to the frames *)

Kept(u, i) == i \in Positions(u) /\ i \in Positions(u)' /\ frames'[u][i] = frames[u][i]

\* Position n of t is all that changes.
Disturbs(t, n) ==
    \A u \in Threads : \A i : i \in Positions(u) \/ i \in Positions(u)' =>
       Kept(u, i) \/ (u = t /\ i = n)

SameLoads ==
    \A u \in Threads : \A i :
       (i \in Positions(u) /\ LoadAt(u, i)) \/ (i \in Positions(u)' /\ LoadAt(u, i)') => Kept(u, i)
SameAlls ==
    \A u \in Threads : \A i :
       (i \in Positions(u) /\ AllAt(u, i)) \/ (i \in Positions(u)' /\ AllAt(u, i)') => Kept(u, i)
SameCleans ==
    \A u \in Threads : \A i :
       (i \in Positions(u) /\ CleanAt(u, i)) \/ (i \in Positions(u)' /\ CleanAt(u, i)') => Kept(u, i)

\* The positions of a stack, before a step and after it.
LEMMA PositionsBefore ==
    ASSUME StacksOK, NEW u \in Threads
    PROVE  Positions(u) = 1 .. Len(frames[u]) /\ Len(frames[u]) \in Nat
  BY LenProperties DEF StacksOK, Positions

LEMMA PositionsAfter ==
    ASSUME StacksOK', NEW u \in Threads
    PROVE  Positions(u)' = 1 .. Len(frames'[u]) /\ Len(frames'[u]) \in Nat
  BY LenProperties DEF StacksOK, Positions

LEMMA PushDisturbs ==
    ASSUME StacksOK, NEW t \in Threads, NEW f \in Frames, Push(t, f),
           NEW n, n = Len(frames[t]) + 1
    PROVE  /\ Disturbs(t, n) /\ StacksOK' /\ n \in Nat \ {0}
           /\ n \notin Positions(t) /\ n \in Positions(t)' /\ frames'[t][n] = f
           /\ Len(frames'[t]) = n
  <1>1. StacksOK' /\ Len(frames'[t]) = n /\ frames'[t][n] = f /\ Below(t, Len(frames[t]))
    BY Pushed
  <1>2. \A u \in Threads : Positions(u) = 1 .. Len(frames[u]) /\ Len(frames[u]) \in Nat
    BY PositionsBefore
  <1>3. \A u \in Threads : Positions(u)' = 1 .. Len(frames'[u]) /\ Len(frames'[u]) \in Nat
    BY <1>1, PositionsAfter
  <1>4. Disturbs(t, n)
    BY <1>1, <1>2, <1>3 DEF Disturbs, Kept, Below
  <1> QED
    BY <1>1, <1>2, <1>3, <1>4

LEMMA PopDisturbs ==
    ASSUME StacksOK, NEW t \in Threads, Pop(t), frames[t] # <<>>,
           NEW n, n = Len(frames[t])
    PROVE  /\ Disturbs(t, n) /\ StacksOK' /\ n \in Nat \ {0}
           /\ n \in Positions(t) /\ n \notin Positions(t)'
           /\ Len(frames'[t]) = n - 1
  <1>1. StacksOK' /\ Len(frames'[t]) = n - 1 /\ Below(t, n - 1)
    BY Popped
  <1>2. \A u \in Threads : Positions(u) = 1 .. Len(frames[u]) /\ Len(frames[u]) \in Nat
    BY PositionsBefore
  <1>3. \A u \in Threads : Positions(u)' = 1 .. Len(frames'[u]) /\ Len(frames'[u]) \in Nat
    BY <1>1, PositionsAfter
  <1>4. n > 0
    BY StackTypes
  <1>5. Disturbs(t, n)
    BY <1>1, <1>2, <1>3, <1>4 DEF Disturbs, Kept, Below
  <1> QED
    BY <1>1, <1>2, <1>3, <1>4, <1>5

LEMMA BecomeDisturbs ==
    ASSUME StacksOK, NEW t \in Threads, NEW f \in Frames, Become(t, f), frames[t] # <<>>,
           NEW n, n = Len(frames[t])
    PROVE  /\ Disturbs(t, n) /\ StacksOK' /\ n \in Nat \ {0}
           /\ n \in Positions(t) /\ n \in Positions(t)' /\ frames'[t][n] = f
           /\ Len(frames'[t]) = n
  <1>1. StacksOK' /\ Len(frames'[t]) = n /\ frames'[t][n] = f /\ Below(t, n - 1)
    BY Became
  <1>2. \A u \in Threads : Positions(u) = 1 .. Len(frames[u]) /\ Len(frames[u]) \in Nat
    BY PositionsBefore
  <1>3. \A u \in Threads : Positions(u)' = 1 .. Len(frames'[u]) /\ Len(frames'[u]) \in Nat
    BY <1>1, PositionsAfter
  <1>4. n > 0
    BY StackTypes
  <1>5. Disturbs(t, n)
    BY <1>1, <1>2, <1>3, <1>4 DEF Disturbs, Kept, Below
  <1> QED
    BY <1>1, <1>2, <1>3, <1>4, <1>5

\* The frames of a kind stay if the one that changes is not of the kind.
LEMMA SameIfOther ==
    ASSUME NEW t \in Threads, NEW n, Disturbs(t, n)
    PROVE  /\ (n \in Positions(t) => ~LoadAt(t, n)) /\ (n \in Positions(t)' => ~LoadAt(t, n)')
                 => SameLoads
           /\ (n \in Positions(t) => ~AllAt(t, n)) /\ (n \in Positions(t)' => ~AllAt(t, n)')
                 => SameAlls
           /\ (n \in Positions(t) => ~CleanAt(t, n)) /\ (n \in Positions(t)' => ~CleanAt(t, n)')
                 => SameCleans
  BY DEF Disturbs, SameLoads, SameAlls, SameCleans

\* A load that has csWrite.
WriteAt(t, i) == frames[t][i].op = "load" /\ frames[t][i].at # "lock"
NoNewWrite == \A u \in Threads : Writing(u)' => Writing(u)

LEMMA NoWriteIfOther ==
    ASSUME NEW t \in Threads, NEW n, Disturbs(t, n),
           n \in Positions(t)' /\ WriteAt(t, n)' => n \in Positions(t) /\ WriteAt(t, n)
    PROVE  NoNewWrite
  BY DEF Disturbs, Kept, NoNewWrite, Writing, FramesOf, Positions, WriteAt

LEMMA SameOfNothing ==
    ASSUME UNCHANGED frames
    PROVE  SameLoads /\ SameAlls /\ SameCleans
  BY DEF SameLoads, SameAlls, SameCleans, Kept, Positions, LoadAt, AllAt, CleanAt

-----------------------------------------------------------------------------
(* What each operation does *)

\* The frames that matter stay, and so does what they are about.
Quiet ==
    /\ SameLoads /\ SameAlls /\ SameCleans
    /\ UNCHANGED <<modules, registered, cleanups, overlapped>>

LEMMA TypesStay ==
    ASSUME TypeOK, StacksOK', UNCHANGED <<modules, registered, cleanups>>,
           system' \in {"open", "closing", "closed"}, overlapped' \in BOOLEAN
    PROVE  TypeOK'
  BY DEF TypeOK, StacksOK

LEMMA TopOfCall ==
    ASSUME TypeOK, NEW t \in Threads, NEW op, NEW at, In(t, op, at), NEW n, n = Len(frames[t])
    PROVE  /\ StacksOK /\ n \in Positions(t) /\ frames[t] # <<>> /\ n \in Nat \ {0}
           /\ Top(t) \in Frames /\ Top(t) = frames[t][n]
           /\ frames[t][n].op = op /\ frames[t][n].at = at
  <1>1. StacksOK
    BY DEF TypeOK, StacksOK
  <1>2. frames[t] # <<>> /\ Top(t).op = op /\ Top(t).at = at
    BY DEF In
  <1> QED
    BY <1>1, <1>2, StackTypes

LEMMA CallsLoad ==
    ASSUME TypeOK, NEW t \in Threads, LoadModule(t)
    PROVE  TypeOK' /\ Quiet /\ NoNewWrite
  <1>1. StacksOK /\ Len(frames[t]) \in Nat
    BY StackTypes DEF TypeOK, StacksOK
  <1>2. UNCHANGED <<modules, registered, cleanups, system, overlapped>>
    BY DEF LoadModule
  <1>3. PICK p \in Paths, how \in Loads :
           Push(t, [op |-> "load", at |-> "lock", path |-> p, locator |-> how[1],
                    cleanup |-> how[2], module |-> 0])
    BY DEF LoadModule
  <1> DEFINE f == [op |-> "load", at |-> "lock", path |-> p, locator |-> how[1],
                   cleanup |-> how[2], module |-> 0]
  <1>4. f \in Frames /\ f.op = "load" /\ f.at = "lock"
    <2>1. how[1] \in Locators /\ how[2] \in BOOLEAN
      BY PluginAssumption
    <2> QED
      BY <2>1 DEF Frames, LoadFrames
  <1> HIDE DEF f
  <1> PICK n : n = Len(frames[t]) + 1
    OBVIOUS
  <1>5. Push(t, f)
    BY <1>3 DEF f
  <1>6. /\ Disturbs(t, n) /\ StacksOK' /\ n \notin Positions(t) /\ frames'[t][n] = f
    BY <1>1, <1>4, <1>5, PushDisturbs
  <1>7. ~LoadAt(t, n)' /\ ~AllAt(t, n)' /\ ~CleanAt(t, n)' /\ ~WriteAt(t, n)'
    BY <1>4, <1>6 DEF LoadAt, AllAt, CleanAt, WriteAt
  <1>8. TypeOK'
    BY <1>2, <1>6, TypesStay DEF TypeOK
  <1>9. SameLoads /\ SameAlls /\ SameCleans /\ NoNewWrite
    BY <1>6, <1>7, SameIfOther, NoWriteIfOther
  <1> QED
    BY <1>2, <1>8, <1>9 DEF Quiet

LEMMA CallsOther ==
    ASSUME TypeOK, NEW t \in Threads,
           FindModule(t) \/ TerminateAllPlugins(t) \/ TerminateVEILSystem(t)
    PROVE  TypeOK' /\ Quiet /\ NoNewWrite
  <1>1. StacksOK /\ Len(frames[t]) \in Nat
    BY StackTypes DEF TypeOK, StacksOK
  <1>2. UNCHANGED <<modules, registered, cleanups, overlapped>> /\ system' \in {system, "closing"}
    BY DEF FindModule, TerminateAllPlugins, TerminateVEILSystem
  <1>3. \E f \in {[op |-> "find", at |-> "lock"], All, [op |-> "close", at |-> "pop"]} : Push(t, f)
    BY DEF FindModule, TerminateAllPlugins, TerminateVEILSystem
  <1>4. PICK f \in {[op |-> "find", at |-> "lock"], All, [op |-> "close", at |-> "pop"]} : Push(t, f)
    BY <1>3
  <1> PICK n : n = Len(frames[t]) + 1
    OBVIOUS
  <1>5. f \in Frames /\ f.op # "load" /\ f.op # "clean" /\ (f.op = "all" => f.at = "lock")
    BY <1>4 DEF Frames, FindFrames, AllFrames, CloseFrames, All
  <1>6. /\ Disturbs(t, n) /\ StacksOK' /\ n \notin Positions(t) /\ frames'[t][n] = f
    BY <1>1, <1>4, <1>5, PushDisturbs
  <1>7. ~LoadAt(t, n)' /\ ~AllAt(t, n)' /\ ~CleanAt(t, n)' /\ ~WriteAt(t, n)'
    BY <1>5, <1>6 DEF LoadAt, AllAt, CleanAt, WriteAt
  <1>8. TypeOK'
    BY <1>2, <1>6, TypesStay DEF TypeOK
  <1>9. SameLoads /\ SameAlls /\ SameCleans /\ NoNewWrite
    BY <1>6, <1>7, SameIfOther, NoWriteIfOther
  <1> QED
    BY <1>2, <1>8, <1>9 DEF Quiet

LEMMA WaitsToLoad ==
    ASSUME TypeOK, NEW t \in Threads, LoadLock(t), NEW n, n = Len(frames[t])
    PROVE  /\ TypeOK' /\ Quiet /\ Disturbs(t, n)
           /\ n \in Positions(t) /\ n \in Positions(t)' /\ Len(frames'[t]) = n
           /\ frames[t][n].op = "load" /\ frames'[t][n].op = "load" /\ CsWriteFree(t)
  <1> PICK f : f = [Top(t) EXCEPT !.at = "wait"]
    OBVIOUS
  <1>1. In(t, "load", "lock") /\ UNCHANGED <<modules, registered, cleanups, system, overlapped>>
        /\ Become(t, f) /\ CsWriteFree(t)
    BY DEF LoadLock
  <1>2. /\ StacksOK /\ n \in Positions(t) /\ frames[t] # <<>> /\ Top(t) \in Frames
        /\ Top(t) = frames[t][n] /\ frames[t][n].op = "load" /\ frames[t][n].at = "lock"
    BY <1>1, TopOfCall
  <1>3. f \in Frames /\ f.op = "load" /\ f.at = "wait"
    BY <1>2, LoadFrameWaits
  <1>4. /\ Disturbs(t, n) /\ StacksOK' /\ frames'[t][n] = f
        /\ n \in Positions(t)' /\ Len(frames'[t]) = n
    BY <1>1, <1>2, <1>3, BecomeDisturbs
  <1>5. /\ ~LoadAt(t, n)' /\ ~AllAt(t, n)' /\ ~CleanAt(t, n)'
        /\ ~LoadAt(t, n) /\ ~AllAt(t, n) /\ ~CleanAt(t, n)
    BY <1>2, <1>3, <1>4 DEF LoadAt, AllAt, CleanAt
  <1>6. TypeOK'
    BY <1>1, <1>4, TypesStay DEF TypeOK
  <1>7. SameLoads /\ SameAlls /\ SameCleans
    BY <1>4, <1>5, SameIfOther
  <1> QED
    BY <1>1, <1>2, <1>3, <1>4, <1>6, <1>7 DEF Quiet

LEMMA ReturnsFromOther ==
    ASSUME TypeOK, NEW t \in Threads,
           LoadNothing(t) \/ FindReturn(t) \/ CloseReturn(t)
    PROVE  TypeOK' /\ Quiet /\ NoNewWrite
  <1> PICK n : n = Len(frames[t])
    OBVIOUS
  <1>1. /\ Pop(t)
        /\ UNCHANGED <<modules, registered, cleanups, overlapped>> /\ system' \in {system, "closed"}
    BY DEF LoadNothing, FindReturn, CloseReturn
  <1>2. In(t, "load", "wait") \/ In(t, "find", "lock") \/ In(t, "close", "pop")
    BY DEF LoadNothing, FindReturn, CloseReturn
  <1>3. /\ StacksOK /\ n \in Positions(t) /\ frames[t] # <<>>
        /\ ~LoadAt(t, n) /\ ~AllAt(t, n) /\ ~CleanAt(t, n)
    BY <1>2, TopOfCall DEF LoadAt, AllAt, CleanAt
  <1>4. /\ Disturbs(t, n) /\ StacksOK' /\ n \notin Positions(t)'
    BY <1>1, <1>3, PopDisturbs
  <1>5. TypeOK'
    BY <1>1, <1>4, TypesStay DEF TypeOK
  <1>6. SameLoads /\ SameAlls /\ SameCleans /\ NoNewWrite
    BY <1>3, <1>4, SameIfOther, NoWriteIfOther
  <1> QED
    BY <1>1, <1>5, <1>6 DEF Quiet

QuietStep(t) ==
    \/ LoadModule(t) \/ LoadLock(t) \/ LoadNothing(t)
    \/ FindModule(t) \/ FindReturn(t)
    \/ TerminateAllPlugins(t) \/ TerminateVEILSystem(t) \/ CloseReturn(t)

LEMMA QuietSteps ==
    ASSUME TypeOK, (\E t \in Threads : QuietStep(t)) \/ UNCHANGED vars
    PROVE  TypeOK' /\ Quiet
  <1>1. CASE UNCHANGED vars
    BY <1>1, SameOfNothing DEF vars, Quiet, TypeOK
  <1>2. ASSUME NEW t \in Threads, QuietStep(t) PROVE TypeOK' /\ Quiet
    <2>1. CASE LoadLock(t)
      BY <2>1, WaitsToLoad
    <2>2. CASE LoadModule(t)
      BY <2>2, CallsLoad
    <2>3. CASE FindModule(t) \/ TerminateAllPlugins(t) \/ TerminateVEILSystem(t)
      BY <2>3, CallsOther
    <2>4. CASE LoadNothing(t) \/ FindReturn(t) \/ CloseReturn(t)
      BY <2>4, ReturnsFromOther
    <2> QED
      BY <1>2, <2>1, <2>2, <2>3, <2>4 DEF QuietStep
  <1> QED
    BY <1>1, <1>2

\* The modules that are connected, and their fields.
LEMMA ModuleFields ==
    ASSUME TypeOK
    PROVE  /\ Len(modules) \in Nat /\ DOMAIN modules = 1 .. Len(modules)
           /\ \A m \in DOMAIN modules :
                 /\ modules[m] \in Modules
                 /\ modules[m].path \in Paths /\ modules[m].locator \in Locators
                 /\ modules[m].cleanup \in BOOLEAN /\ modules[m].connected \in BOOLEAN
                 /\ modules[m].life \in {"new", "failed", "up", "down"}
                 /\ modules[m].terminated \in Nat /\ modules[m].early \in BOOLEAN
           /\ \A l \in Locators, p \in Paths :
                 registered[l][p] # 0 => registered[l][p] \in DOMAIN modules
  <1>1. modules \in Seq(Modules)
    BY DEF TypeOK
  <1>2. Len(modules) \in Nat /\ DOMAIN modules = 1 .. Len(modules)
    BY <1>1, LenProperties
  <1>3. \A m \in DOMAIN modules : modules[m] \in Modules
    BY <1>1, <1>2, ElementOfSeq
  <1>4. \A l \in Locators, p \in Paths : registered[l][p] \in 0 .. Len(modules)
    BY DEF TypeOK
  <1> QED
    BY <1>2, <1>3, <1>4 DEF Modules

\* A step that changes module m only.
Changes(m) ==
    /\ DOMAIN modules' = DOMAIN modules
    /\ \A k \in DOMAIN modules : k # m => modules'[k] = modules[k]
    /\ modules'[m].path = modules[m].path /\ modules'[m].locator = modules[m].locator
    /\ modules'[m].cleanup = modules[m].cleanup

LEMMA OneModuleChanges ==
    ASSUME TypeOK, NEW m \in DOMAIN modules, NEW g \in Modules, modules' = [modules EXCEPT ![m] = g]
    PROVE  /\ modules' \in Seq(Modules) /\ Len(modules') = Len(modules)
           /\ DOMAIN modules' = DOMAIN modules /\ modules'[m] = g
           /\ \A k \in DOMAIN modules : k # m => modules'[k] = modules[k]
  <1>1. modules \in Seq(Modules)
    BY DEF TypeOK
  <1> QED
    BY <1>1

LEMMA LifeChanges ==
    ASSUME TypeOK, NEW m \in DOMAIN modules, NEW l \in {"failed", "up"},
           modules' = [modules EXCEPT ![m].life = l]
    PROVE  /\ modules' \in Seq(Modules) /\ Len(modules') = Len(modules) /\ Changes(m)
           /\ modules'[m].life = l /\ modules'[m].connected = modules[m].connected
           /\ modules'[m].terminated = modules[m].terminated
           /\ modules'[m].early = modules[m].early
  <1> DEFINE g == [modules[m] EXCEPT !.life = l]
  <1>1. modules[m] \in Modules /\ modules \in Seq(Modules)
    BY ModuleFields DEF TypeOK
  <1>2. /\ g \in Modules /\ g.life = l /\ g.path = modules[m].path
        /\ g.locator = modules[m].locator /\ g.cleanup = modules[m].cleanup
        /\ g.connected = modules[m].connected /\ g.terminated = modules[m].terminated
        /\ g.early = modules[m].early
    BY <1>1 DEF Modules
  <1>3. modules' = [modules EXCEPT ![m] = g]
    OBVIOUS
  <1> HIDE DEF g
  <1>4. modules' \in Seq(Modules) /\ Len(modules') = Len(modules)
    BY <1>2, <1>3, OneModuleChanges
  <1>5. DOMAIN modules' = DOMAIN modules /\ modules'[m] = g
        /\ \A k \in DOMAIN modules : k # m => modules'[k] = modules[k]
    BY <1>2, <1>3, OneModuleChanges
  <1> QED
    BY <1>2, <1>4, <1>5 DEF Changes

LEMMA TerminatedChanges ==
    ASSUME TypeOK, NEW m \in DOMAIN modules, Terminated(m)
    PROVE  /\ modules' \in Seq(Modules) /\ Len(modules') = Len(modules) /\ Changes(m)
           /\ modules[m].life = "up" => modules'[m].life = "down"
           /\ modules[m].life # "up" => modules'[m].life = modules[m].life
           /\ modules'[m].connected = modules[m].connected
           /\ modules'[m].terminated = modules[m].terminated + 1
           /\ modules'[m].early <=> modules[m].early \/ Loading(m)
  <1> DEFINE e == modules[m].early \/ Loading(m)
             l == IF modules[m].life = "up" THEN "down" ELSE modules[m].life
             g == [modules[m] EXCEPT !.terminated = modules[m].terminated + 1,
                                     !.life = l, !.early = e]
  <1>1. modules[m] \in Modules /\ modules \in Seq(Modules)
    BY ModuleFields DEF TypeOK
  <1>2. l \in {"new", "failed", "down"} /\ e \in BOOLEAN
    BY <1>1 DEF Modules
  <1>3. modules' = [modules EXCEPT ![m] = g]
    BY DEF Terminated
  <1>4. (modules[m].life = "up" => l = "down") /\ (modules[m].life # "up" => l = modules[m].life)
    OBVIOUS
  <1> HIDE DEF e, l
  <1>5. /\ g \in Modules /\ g.life = l /\ g.path = modules[m].path
        /\ g.locator = modules[m].locator /\ g.cleanup = modules[m].cleanup
        /\ g.connected = modules[m].connected /\ g.terminated = modules[m].terminated + 1
        /\ g.early = e
    <2>1. modules[m].terminated + 1 \in Nat
      BY <1>1 DEF Modules
    <2>2. PICK k \in Nat : k = modules[m].terminated + 1
      BY <2>1
    <2>3. PICK b \in BOOLEAN : b = e
      BY <1>2
    <2>4. g = [modules[m] EXCEPT !.terminated = k, !.life = l, !.early = b]
      BY <2>2, <2>3
    <2> HIDE DEF g
    <2>5. /\ g \in Modules /\ g.life = l /\ g.path = modules[m].path
          /\ g.locator = modules[m].locator /\ g.cleanup = modules[m].cleanup
          /\ g.connected = modules[m].connected /\ g.terminated = k /\ g.early = b
      BY <1>1, <1>2, <2>4 DEF Modules
    <2> QED
      BY <2>2, <2>3, <2>5
  <1> HIDE DEF g
  <1>6. modules' \in Seq(Modules) /\ Len(modules') = Len(modules)
    BY <1>5, <1>3, OneModuleChanges
  <1>7. DOMAIN modules' = DOMAIN modules /\ modules'[m] = g
        /\ \A k \in DOMAIN modules : k # m => modules'[k] = modules[k]
    BY <1>5, <1>3, OneModuleChanges
  <1>8. e <=> modules[m].early \/ Loading(m)
    BY DEF e
  <1> QED
    BY <1>4, <1>5, <1>6, <1>7, <1>8 DEF Changes

LEMMA DisconnectChanges ==
    ASSUME TypeOK, NEW m \in DOMAIN modules,
           modules' = [modules EXCEPT ![m].connected = FALSE]
    PROVE  /\ modules' \in Seq(Modules) /\ Len(modules') = Len(modules) /\ Changes(m)
           /\ modules'[m].life = modules[m].life /\ ~modules'[m].connected
           /\ modules'[m].terminated = modules[m].terminated
           /\ modules'[m].early = modules[m].early
  <1> DEFINE g == [modules[m] EXCEPT !.connected = FALSE]
  <1>1. modules[m] \in Modules /\ modules \in Seq(Modules)
    BY ModuleFields DEF TypeOK
  <1>2. /\ g \in Modules /\ g.life = modules[m].life /\ g.path = modules[m].path
        /\ g.locator = modules[m].locator /\ g.cleanup = modules[m].cleanup
        /\ g.connected = FALSE /\ g.terminated = modules[m].terminated
        /\ g.early = modules[m].early
    BY <1>1 DEF Modules
  <1>3. modules' = [modules EXCEPT ![m] = g]
    OBVIOUS
  <1> HIDE DEF g
  <1>4. modules' \in Seq(Modules) /\ Len(modules') = Len(modules)
    BY <1>2, <1>3, OneModuleChanges
  <1>5. DOMAIN modules' = DOMAIN modules /\ modules'[m] = g
        /\ \A k \in DOMAIN modules : k # m => modules'[k] = modules[k]
    BY <1>2, <1>3, OneModuleChanges
  <1> QED
    BY <1>2, <1>4, <1>5 DEF Changes

LEMMA TypesOfModulesStay ==
    ASSUME TypeOK, StacksOK', modules' \in Seq(Modules), Len(modules') = Len(modules),
           UNCHANGED <<registered, cleanups, system, overlapped>>
    PROVE  TypeOK'
  BY DEF TypeOK, StacksOK

\* One position changes, and the frames there are loads.
LEMMA LoadDisturbs ==
    ASSUME NEW t \in Threads, NEW n, Disturbs(t, n),
           n \in Positions(t) => frames[t][n].op = "load",
           n \in Positions(t)' => frames'[t][n].op = "load"
    PROVE  SameAlls /\ SameCleans
  <1>1. /\ n \in Positions(t) => ~AllAt(t, n) /\ ~CleanAt(t, n)
        /\ n \in Positions(t)' => ~AllAt(t, n)' /\ ~CleanAt(t, n)'
    BY DEF AllAt, CleanAt
  <1> QED
    BY <1>1, SameIfOther

LEMMA AllDisturbs ==
    ASSUME NEW t \in Threads, NEW n, Disturbs(t, n),
           n \in Positions(t) => frames[t][n].op = "all",
           n \in Positions(t)' => frames'[t][n].op = "all"
    PROVE  SameLoads /\ SameCleans
  <1>1. /\ n \in Positions(t) => ~LoadAt(t, n) /\ ~CleanAt(t, n)
        /\ n \in Positions(t)' => ~LoadAt(t, n)' /\ ~CleanAt(t, n)'
    BY DEF LoadAt, CleanAt
  <1> QED
    BY <1>1, SameIfOther

LEMMA CleanDisturbs ==
    ASSUME NEW t \in Threads, NEW n, Disturbs(t, n),
           n \in Positions(t) => frames[t][n].op = "clean",
           n \in Positions(t)' => frames'[t][n].op = "clean"
    PROVE  SameLoads /\ SameAlls
  <1>1. /\ n \in Positions(t) => ~LoadAt(t, n) /\ ~AllAt(t, n)
        /\ n \in Positions(t)' => ~LoadAt(t, n)' /\ ~AllAt(t, n)'
    BY DEF LoadAt, AllAt
  <1> QED
    BY <1>1, SameIfOther

LEMMA LoadConnects ==
    ASSUME TypeOK, NEW t \in Threads, LoadConnect(t), NEW n, n = Len(frames[t])
    PROVE  /\ TypeOK' /\ Disturbs(t, n) /\ SameAlls /\ SameCleans
           /\ n \in Positions(t) /\ n \in Positions(t)' /\ Len(frames'[t]) = n
           /\ frames[t][n].op = "load" /\ frames[t][n].at = "wait"
           /\ frames'[t][n].op = "load" /\ frames'[t][n].at = "connected"
           /\ frames'[t][n].path = frames[t][n].path
           /\ frames'[t][n].locator = frames[t][n].locator
           /\ frames'[t][n].module = Len(modules) + 1
           /\ Len(modules') = Len(modules) + 1 /\ DOMAIN modules' = 1 .. Len(modules) + 1
           /\ \A k \in DOMAIN modules : modules'[k] = modules[k]
           /\ LET g == modules'[Len(modules) + 1]
              IN /\ g.path = frames[t][n].path /\ g.locator = frames[t][n].locator
                 /\ g.connected /\ g.life = "new" /\ g.terminated = 0 /\ ~g.early
                 /\ g.cleanup => /\ Len(cleanups) + 1 \in DOMAIN cleanups'
                                 /\ cleanups'[Len(cleanups) + 1] = Len(modules) + 1
           /\ \A k \in DOMAIN cleanups : k \in DOMAIN cleanups' /\ cleanups'[k] = cleanups[k]
           /\ \A k \in DOMAIN cleanups' : \/ k \in DOMAIN cleanups
                                          \/ /\ k = Len(cleanups) + 1
                                             /\ cleanups'[k] = Len(modules) + 1
           /\ DOMAIN cleanups = 1 .. Len(cleanups) /\ Len(cleanups) \in Nat
           /\ UNCHANGED <<registered, overlapped>>
  <1> PICK m : m = Len(modules) + 1
    OBVIOUS
  <1> PICK h : h = Top(t)
    OBVIOUS
  <1> PICK f : f = [h EXCEPT !.at = "connected", !.module = m]
    OBVIOUS
  <1> PICK g : g = [path |-> h.path, locator |-> h.locator, cleanup |-> h.cleanup,
                    connected |-> TRUE, life |-> "new", terminated |-> 0, early |-> FALSE]
    OBVIOUS
  <1>1. /\ In(t, "load", "wait") /\ modules' = Append(modules, g)
        /\ cleanups' = IF h.cleanup THEN Append(cleanups, m) ELSE cleanups
        /\ Become(t, f) /\ UNCHANGED <<registered, system, overlapped>>
    BY DEF LoadConnect
  <1>2. /\ StacksOK /\ n \in Positions(t) /\ frames[t] # <<>> /\ h \in Frames
        /\ h = frames[t][n] /\ h.op = "load" /\ h.at = "wait"
    BY <1>1, TopOfCall
  <1>3. m \in Nat \ {0} /\ Len(modules) \in Nat /\ DOMAIN modules = 1 .. Len(modules)
    BY ModuleFields
  <1>4. /\ f \in Frames /\ f.op = "load" /\ f.at = "connected" /\ f.path = h.path
        /\ f.locator = h.locator /\ f.module = m
    BY <1>2, <1>3, FrameKinds DEF LoadFrames, Frames
  <1>5. /\ Disturbs(t, n) /\ StacksOK' /\ n \in Positions(t)' /\ frames'[t][n] = f
        /\ Len(frames'[t]) = n
    BY <1>1, <1>2, <1>4, BecomeDisturbs
  <1>6. SameAlls /\ SameCleans
    BY <1>2, <1>4, <1>5, LoadDisturbs
  <1>7. /\ g \in Modules /\ g.path = h.path /\ g.locator = h.locator /\ g.cleanup = h.cleanup
        /\ g.connected /\ g.life = "new" /\ g.terminated = 0 /\ ~g.early
    BY <1>2, FrameFields DEF Modules
  <1>8. /\ modules' \in Seq(Modules) /\ Len(modules') = m /\ modules'[m] = g
        /\ \A k \in DOMAIN modules : modules'[k] = modules[k]
    BY <1>1, <1>3, <1>7, AppendProperties DEF TypeOK
  <1>9. DOMAIN modules' = 1 .. m
    BY <1>8, LenProperties
  <1>10. /\ cleanups \in Seq(0 .. m) /\ Len(cleanups) \in Nat
         /\ DOMAIN cleanups = 1 .. Len(cleanups)
    <2>1. cleanups \in Seq(0 .. Len(modules))
      BY DEF TypeOK
    <2>2. 0 .. Len(modules) \subseteq 0 .. m
      BY <1>3
    <2> QED
      BY <2>1, <2>2, LenProperties
  <1>11. /\ Append(cleanups, m) \in Seq(0 .. m)
         /\ Len(Append(cleanups, m)) = Len(cleanups) + 1
         /\ DOMAIN Append(cleanups, m) = 1 .. Len(cleanups) + 1
         /\ \A k \in DOMAIN cleanups : Append(cleanups, m)[k] = cleanups[k]
         /\ Append(cleanups, m)[Len(cleanups) + 1] = m
    BY <1>3, <1>10, AppendProperties, LenProperties
  <1>12. /\ cleanups' \in Seq(0 .. m)
         /\ \A k \in DOMAIN cleanups : k \in DOMAIN cleanups' /\ cleanups'[k] = cleanups[k]
         /\ \A k \in DOMAIN cleanups' : \/ k \in DOMAIN cleanups
                                        \/ k = Len(cleanups) + 1 /\ cleanups'[k] = m
         /\ h.cleanup => /\ Len(cleanups) + 1 \in DOMAIN cleanups'
                         /\ cleanups'[Len(cleanups) + 1] = m
    <2>1. CASE h.cleanup
      BY <2>1, <1>1, <1>10, <1>11
    <2>2. CASE ~h.cleanup
      BY <2>2, <1>1, <1>10
    <2> QED
      BY <2>1, <2>2
  <1>13. TypeOK'
    <2>1. registered \in [Locators -> [Paths -> 0 .. m]]
      BY <1>3 DEF TypeOK
    <2>2. registered' \in [Locators -> [Paths -> 0 .. Len(modules')]]
      BY <2>1, <1>1, <1>8
    <2>3. cleanups' \in Seq(0 .. Len(modules'))
      BY <1>8, <1>12
    <2>4. system' = system /\ overlapped' = overlapped
      BY <1>1
    <2> QED
      BY <2>2, <2>3, <2>4, <1>5, <1>8 DEF TypeOK, StacksOK
  <1>14. LET g1 == modules'[Len(modules) + 1]
         IN /\ g1.path = frames[t][n].path /\ g1.locator = frames[t][n].locator
            /\ g1.connected /\ g1.life = "new" /\ g1.terminated = 0 /\ ~g1.early
            /\ g1.cleanup => /\ Len(cleanups) + 1 \in DOMAIN cleanups'
                            /\ cleanups'[Len(cleanups) + 1] = Len(modules) + 1
    BY <1>2, <1>7, <1>8, <1>12
  <1>15. /\ n \in Positions(t) /\ n \in Positions(t)' /\ Len(frames'[t]) = n
         /\ frames[t][n].op = "load" /\ frames[t][n].at = "wait"
         /\ frames'[t][n].op = "load" /\ frames'[t][n].at = "connected"
         /\ frames'[t][n].path = frames[t][n].path
         /\ frames'[t][n].locator = frames[t][n].locator
         /\ frames'[t][n].module = Len(modules) + 1
    BY <1>2, <1>4, <1>5
  <1>16. UNCHANGED <<registered, overlapped>>
    BY <1>1
  <1> QED
    BY <1>3, <1>5, <1>6, <1>8, <1>9, <1>10, <1>12, <1>13, <1>14, <1>15, <1>16

LEMMA LoadInitializes ==
    ASSUME TypeOK, NEW t \in Threads, LoadInitialize(t), NEW n, n = Len(frames[t])
    PROVE  /\ TypeOK' /\ Disturbs(t, n) /\ SameAlls /\ SameCleans
           /\ n \in Positions(t) /\ n >= Len(frames'[t]) /\ (Pop(t) \/ n \in Positions(t)')
           /\ frames[t][n].op = "load" /\ frames[t][n].at = "connected"
           /\ n \in Positions(t)' =>
                 /\ modules[frames[t][n].module].connected
                 /\ frames'[t][n].op = "load" /\ frames'[t][n].at = "inside"
                 /\ frames'[t][n].path = frames[t][n].path
                 /\ frames'[t][n].locator = frames[t][n].locator
                 /\ frames'[t][n].module = frames[t][n].module
           /\ UNCHANGED <<modules, registered, cleanups, overlapped>>
  <1> PICK h : h = Top(t)
    OBVIOUS
  <1> PICK f : f = [h EXCEPT !.at = "inside"]
    OBVIOUS
  <1>1. /\ In(t, "load", "connected")
        /\ UNCHANGED <<modules, registered, cleanups, system, overlapped>>
        /\ \/ modules[h.module].connected /\ Become(t, f)
           \/ Pop(t)
    BY DEF LoadInitialize
  <1>2. /\ StacksOK /\ n \in Positions(t) /\ frames[t] # <<>> /\ h \in Frames
        /\ h = frames[t][n] /\ h.op = "load" /\ h.at = "connected" /\ n \in Nat
    BY <1>1, TopOfCall
  <1>3. /\ f \in Frames /\ f.op = "load" /\ f.at = "inside" /\ f.path = h.path
        /\ f.locator = h.locator /\ f.module = h.module
    BY <1>2, LoadFrameTo
  <1>4. CASE modules[h.module].connected /\ Become(t, f)
    <2>1. /\ Disturbs(t, n) /\ StacksOK' /\ n \in Positions(t)' /\ frames'[t][n] = f
          /\ Len(frames'[t]) = n
      BY <1>4, <1>2, <1>3, BecomeDisturbs
    <2>2. SameAlls /\ SameCleans
      BY <1>2, <1>3, <2>1, LoadDisturbs
    <2>3. TypeOK'
      BY <1>1, <2>1, TypesStay DEF TypeOK
    <2>4. modules[frames[t][n].module].connected
      BY <1>4, <1>2
    <2>5. n >= Len(frames'[t])
      BY <1>2, <2>1
    <2>6. UNCHANGED <<modules, registered, cleanups, overlapped>>
      BY <1>1
    <2> QED
      BY <1>2, <1>3, <2>1, <2>2, <2>3, <2>4, <2>5, <2>6
  <1>5. CASE Pop(t)
    <2>1. /\ Disturbs(t, n) /\ StacksOK' /\ n \notin Positions(t)' /\ Len(frames'[t]) = n - 1
      BY <1>5, <1>2, PopDisturbs
    <2>2. SameAlls /\ SameCleans
      BY <1>2, <2>1, LoadDisturbs
    <2>3. TypeOK'
      BY <1>1, <2>1, TypesStay DEF TypeOK
    <2> QED
      BY <1>1, <1>2, <1>5, <2>1, <2>2, <2>3
  <1> QED
    BY <1>1, <1>4, <1>5

LEMMA InitializeEnds ==
    ASSUME TypeOK, NEW t \in Threads, InitializeFails(t) \/ InitializeWorks(t),
           NEW n, n = Len(frames[t]), NEW m, m = frames[t][n].module, m \in DOMAIN modules
    PROVE  /\ TypeOK' /\ Disturbs(t, n) /\ SameAlls /\ SameCleans
           /\ n \in Positions(t) /\ n >= Len(frames'[t]) /\ (Pop(t) \/ n \in Positions(t)')
           /\ frames[t][n].op = "load" /\ frames[t][n].at = "inside"
           /\ n \in Positions(t)' =>
                 /\ modules'[m].life = "up"
                 /\ frames'[t][n].op = "load" /\ frames'[t][n].at = "add"
                 /\ frames'[t][n].path = frames[t][n].path
                 /\ frames'[t][n].locator = frames[t][n].locator
                 /\ frames'[t][n].module = m
           /\ n \notin Positions(t)' => modules'[m].life = "failed"
           /\ Changes(m) /\ Len(modules') = Len(modules)
           /\ modules'[m].connected = modules[m].connected
           /\ modules'[m].terminated = modules[m].terminated
           /\ modules'[m].early = modules[m].early
           /\ UNCHANGED <<registered, cleanups, overlapped>>
  <1> PICK h : h = Top(t)
    OBVIOUS
  <1> PICK f : f = [h EXCEPT !.at = "add"]
    OBVIOUS
  <1>1. /\ In(t, "load", "inside")
        /\ UNCHANGED <<registered, cleanups, system, overlapped>>
    BY DEF InitializeFails, InitializeWorks
  <1>2. /\ StacksOK /\ n \in Positions(t) /\ frames[t] # <<>> /\ h \in Frames
        /\ h = frames[t][n] /\ h.op = "load" /\ h.at = "inside" /\ n \in Nat
    BY <1>1, TopOfCall
  <1>3. /\ f \in Frames /\ f.op = "load" /\ f.at = "add" /\ f.path = h.path
        /\ f.locator = h.locator /\ f.module = h.module
    BY <1>2, LoadFrameTo
  <1>4. /\ \/ modules' = [modules EXCEPT ![m].life = "failed"] /\ Pop(t)
           \/ modules' = [modules EXCEPT ![m].life = "up"] /\ Become(t, f)
    BY <1>2 DEF InitializeFails, InitializeWorks
  <1>5. CASE modules' = [modules EXCEPT ![m].life = "up"] /\ Become(t, f)
    <2>1. /\ Disturbs(t, n) /\ StacksOK' /\ n \in Positions(t)' /\ frames'[t][n] = f
          /\ Len(frames'[t]) = n
      BY <1>5, <1>2, <1>3, BecomeDisturbs
    <2>2. SameAlls /\ SameCleans
      BY <1>2, <1>3, <2>1, LoadDisturbs
    <2>3. /\ modules' \in Seq(Modules) /\ Len(modules') = Len(modules) /\ Changes(m)
          /\ modules'[m].life = "up" /\ modules'[m].connected = modules[m].connected
          /\ modules'[m].terminated = modules[m].terminated
          /\ modules'[m].early = modules[m].early
      BY <1>5, LifeChanges
    <2>4. TypeOK'
      BY <1>1, <2>1, <2>3, TypesOfModulesStay
    <2>5. /\ frames'[t][n].op = "load" /\ frames'[t][n].at = "add"
          /\ frames'[t][n].path = frames[t][n].path
          /\ frames'[t][n].locator = frames[t][n].locator
          /\ frames'[t][n].module = m
      BY <1>2, <1>3, <2>1
    <2>6. /\ n >= Len(frames'[t]) /\ n \in Positions(t)
          /\ frames[t][n].op = "load" /\ frames[t][n].at = "inside"
      BY <1>2, <2>1
    <2> QED
      BY <1>1, <2>1, <2>2, <2>3, <2>4, <2>5, <2>6
  <1>6. CASE modules' = [modules EXCEPT ![m].life = "failed"] /\ Pop(t)
    <2>1. /\ Disturbs(t, n) /\ StacksOK' /\ n \notin Positions(t)' /\ Len(frames'[t]) = n - 1
      BY <1>6, <1>2, PopDisturbs
    <2>2. SameAlls /\ SameCleans
      BY <1>2, <2>1, LoadDisturbs
    <2>3. /\ modules' \in Seq(Modules) /\ Len(modules') = Len(modules) /\ Changes(m)
          /\ modules'[m].life = "failed" /\ modules'[m].connected = modules[m].connected
          /\ modules'[m].terminated = modules[m].terminated
          /\ modules'[m].early = modules[m].early
      BY <1>6, LifeChanges
    <2>4. TypeOK'
      BY <1>1, <2>1, <2>3, TypesOfModulesStay
    <2>5. /\ n >= Len(frames'[t]) /\ n \in Positions(t)
          /\ frames[t][n].op = "load" /\ frames[t][n].at = "inside"
      BY <1>2, <2>1
    <2> QED
      BY <1>1, <1>6, <2>1, <2>2, <2>3, <2>4, <2>5
  <1> QED
    BY <1>4, <1>5, <1>6

LEMMA LoadAdds ==
    ASSUME TypeOK, NEW t \in Threads, LoadAdd(t), NEW n, n = Len(frames[t]),
           NEW m, m = frames[t][n].module, m \in DOMAIN modules
    PROVE  /\ TypeOK' /\ Disturbs(t, n) /\ SameAlls /\ SameCleans
           /\ n \in Positions(t) /\ n \notin Positions(t)' /\ n >= Len(frames'[t])
           /\ frames[t][n].op = "load" /\ frames[t][n].at = "add"
           /\ \A l \in Locators, p \in Paths : registered'[l][p] # registered[l][p] =>
                 /\ l = frames[t][n].locator /\ p = frames[t][n].path
                 /\ registered[l][p] = 0 /\ registered'[l][p] = m
           /\ LET l == frames[t][n].locator
                  p == frames[t][n].path
              IN registered[l][p] = 0 => registered'[l][p] = m
           /\ UNCHANGED <<modules, cleanups, overlapped>>
  <1> PICK h : h = Top(t)
    OBVIOUS
  <1>1. /\ In(t, "load", "add") /\ Pop(t) /\ UNCHANGED <<modules, cleanups, system, overlapped>>
    BY DEF LoadAdd
  <1>2. /\ StacksOK /\ n \in Positions(t) /\ frames[t] # <<>> /\ h \in Frames
        /\ h = frames[t][n] /\ h.op = "load" /\ h.at = "add" /\ n \in Nat
    BY <1>1, TopOfCall
  <1>3. /\ Disturbs(t, n) /\ StacksOK' /\ n \notin Positions(t)' /\ Len(frames'[t]) = n - 1
    BY <1>1, <1>2, PopDisturbs
  <1>4. SameAlls /\ SameCleans
    BY <1>2, <1>3, LoadDisturbs
  <1>5. PICK r : r = registered[h.locator][h.path]
    OBVIOUS
  <1>6. registered' = [registered EXCEPT ![h.locator] =
                         [registered[h.locator] EXCEPT ![h.path] = IF r = 0 THEN m ELSE r]]
    BY <1>2, <1>5 DEF LoadAdd
  <1>7. h.locator \in Locators /\ h.path \in Paths
    BY <1>2, FrameFields
  <1>8. m \in 0 .. Len(modules)
    BY ModuleFields
  <1>9. registered \in [Locators -> [Paths -> 0 .. Len(modules)]]
    BY DEF TypeOK
  <1>10. r \in 0 .. Len(modules)
    BY <1>5, <1>7, <1>9
  <1>11. registered' \in [Locators -> [Paths -> 0 .. Len(modules)]]
    BY <1>6, <1>7, <1>8, <1>9, <1>10
  <1>12. \A l \in Locators, p \in Paths : registered'[l][p] # registered[l][p] =>
            /\ l = h.locator /\ p = h.path /\ registered[l][p] = 0 /\ registered'[l][p] = m
    BY <1>5, <1>6, <1>7, <1>9
  <1>14. registered[h.locator][h.path] = 0 => registered'[h.locator][h.path] = m
    BY <1>5, <1>6, <1>7, <1>9
  <1>13. TypeOK'
    BY <1>1, <1>3, <1>11 DEF TypeOK, StacksOK
  <1> QED
    BY <1>1, <1>2, <1>3, <1>4, <1>12, <1>13, <1>14

LEMMA AllLocks ==
    ASSUME TypeOK, NEW t \in Threads, AllLock(t), NEW n, n = Len(frames[t])
    PROVE  /\ TypeOK' /\ Disturbs(t, n) /\ SameLoads /\ SameCleans
           /\ n \in Positions(t) /\ n \in Positions(t)' /\ Len(frames'[t]) = n
           /\ frames[t][n].op = "all" /\ frames[t][n].at = "lock"
           /\ frames'[t][n].op = "all" /\ frames'[t][n].at = "next"
           /\ frames'[t][n].left = frames'[t][n].names \ Nested
           /\ CsWriteFree(t) /\ (overlapped' <=> Overlaps(t))
           /\ UNCHANGED <<modules, registered, cleanups>>
  <1> PICK h : h = Top(t)
    OBVIOUS
  <1> PICK names : names = {p \in Paths : registered["own"][p] # 0}
    OBVIOUS
  <1> PICK f : f = [h EXCEPT !.at = "next", !.left = names \ Nested, !.names = names]
    OBVIOUS
  <1>1. /\ In(t, "all", "lock") /\ Become(t, f) /\ CsWriteFree(t) /\ overlapped' = Overlaps(t)
        /\ UNCHANGED <<modules, registered, cleanups, system>>
    BY DEF AllLock
  <1>2. /\ StacksOK /\ n \in Positions(t) /\ frames[t] # <<>> /\ h \in Frames
        /\ h = frames[t][n] /\ h.op = "all" /\ h.at = "lock" /\ n \in Nat
    BY <1>1, TopOfCall
  <1>3. /\ f \in Frames /\ f.op = "all" /\ f.at = "next" /\ f.left = names \ Nested
        /\ f.names = names
    <2>1. names \in SUBSET Paths /\ names \ Nested \in SUBSET Paths
      OBVIOUS
    <2> QED
      BY <1>2, <2>1, FrameKinds DEF AllFrames, Frames
  <1>4. /\ Disturbs(t, n) /\ StacksOK' /\ n \in Positions(t)' /\ frames'[t][n] = f
        /\ Len(frames'[t]) = n
    BY <1>1, <1>2, <1>3, BecomeDisturbs
  <1>5. SameLoads /\ SameCleans
    BY <1>2, <1>3, <1>4, AllDisturbs
  <1>6. overlapped' \in BOOLEAN /\ (overlapped' <=> Overlaps(t))
    BY <1>1 DEF Overlaps, TypeOK
  <1>7. TypeOK'
    BY <1>1, <1>4, <1>6, TypesStay DEF TypeOK
  <1> QED
    BY <1>1, <1>2, <1>3, <1>4, <1>5, <1>6, <1>7

\* The frame n of t calls Terminate of module m, or it has nothing to terminate.
Enters(t, n, m) ==
    /\ m \in DOMAIN modules /\ modules[m].connected /\ ModuleFree(t, m) /\ Terminated(m)
    /\ frames'[t][n].at = "inside" /\ frames'[t][n].module = m
PassesOver(m) == (m = 0 \/ ~modules[m].connected) /\ UNCHANGED modules

LEMMA AllTerminates ==
    ASSUME TypeOK, NEW t \in Threads, AllTerminate(t), NEW n, n = Len(frames[t])
    PROVE  /\ TypeOK' /\ Disturbs(t, n) /\ SameLoads /\ SameCleans
           /\ n \in Positions(t) /\ n \in Positions(t)' /\ Len(frames'[t]) = n
           /\ frames[t][n].op = "all" /\ frames[t][n].at = "next" /\ frames'[t][n].op = "all"
           /\ frames'[t][n].names = frames[t][n].names
           /\ \E p \in frames[t][n].left :
                 /\ p \in Paths /\ frames'[t][n].left = frames[t][n].left \ {p}
                 /\ \/ Enters(t, n, registered["own"][p])
                    \/ frames'[t][n].at = "next" /\ PassesOver(registered["own"][p])
           /\ UNCHANGED <<registered, cleanups, overlapped>>
  <1> PICK h : h = Top(t)
    OBVIOUS
  <1>1. In(t, "all", "next") /\ UNCHANGED <<registered, cleanups, system, overlapped>>
    BY DEF AllTerminate
  <1>2. /\ StacksOK /\ n \in Positions(t) /\ frames[t] # <<>> /\ h \in Frames
        /\ h = frames[t][n] /\ h.op = "all" /\ h.at = "next" /\ n \in Nat
    BY <1>1, TopOfCall
  <1>3. PICK p \in h.left :
           LET m == registered["own"][p]
               f == [h EXCEPT !.left = h.left \ {p}]
           IN IF m # 0 /\ modules[m].connected
              THEN /\ ModuleFree(t, m) /\ Terminated(m)
                   /\ Become(t, [f EXCEPT !.at = "inside", !.module = m])
              ELSE Become(t, f) /\ UNCHANGED modules
    BY DEF AllTerminate
  <1>4. h.left \in SUBSET Paths /\ h.names \in SUBSET Paths
    BY <1>2, FrameFields
  <1> PICK l : l = h.left \ {p}
    OBVIOUS
  <1>5. l \in SUBSET Paths /\ p \in Paths
    BY <1>4
  <1> PICK m : m = registered["own"][p]
    OBVIOUS
  <1>6. m \in Nat /\ (m # 0 => m \in DOMAIN modules)
    <2>1. m \in 0 .. Len(modules)
      BY <1>5 DEF TypeOK, Locators
    <2> QED
      BY <1>5, <2>1, ModuleFields DEF Locators
  <1>7. CASE m # 0 /\ modules[m].connected
    <2> PICK f : f = [[h EXCEPT !.left = l] EXCEPT !.at = "inside", !.module = m]
      OBVIOUS
    <2>1. ModuleFree(t, m) /\ Terminated(m) /\ Become(t, f)
      BY <1>3, <1>7
    <2>2. /\ f \in Frames /\ f.op = "all" /\ f.at = "inside" /\ f.module = m
          /\ f.left = l /\ f.names = h.names
      BY <1>2, <1>5, <1>6, FrameKinds DEF AllFrames, Frames
    <2>3. /\ Disturbs(t, n) /\ StacksOK' /\ n \in Positions(t)' /\ frames'[t][n] = f
          /\ Len(frames'[t]) = n
      BY <1>2, <2>1, <2>2, BecomeDisturbs
    <2>4. SameLoads /\ SameCleans
      BY <1>2, <2>2, <2>3, AllDisturbs
    <2>5. modules' \in Seq(Modules) /\ Len(modules') = Len(modules)
      BY <1>6, <1>7, <2>1, TerminatedChanges
    <2>6. TypeOK'
      BY <1>1, <2>3, <2>5, TypesOfModulesStay
    <2>7. /\ p \in Paths /\ frames'[t][n].left = frames[t][n].left \ {p}
          /\ m \in DOMAIN modules /\ modules[m].connected
          /\ frames'[t][n].at = "inside" /\ frames'[t][n].module = m
      BY <1>2, <1>5, <1>6, <1>7, <2>2, <2>3
    <2>8. Enters(t, n, registered["own"][p])
      BY <2>1, <2>7 DEF Enters
    <2>9. \E q \in frames[t][n].left :
             /\ q \in Paths /\ frames'[t][n].left = frames[t][n].left \ {q}
             /\ Enters(t, n, registered["own"][q])
      BY <1>2, <2>7, <2>8
    <2> QED
      BY <1>1, <1>2, <2>2, <2>3, <2>4, <2>6, <2>9
  <1>8. CASE ~(m # 0 /\ modules[m].connected)
    <2> PICK f : f = [h EXCEPT !.left = l]
      OBVIOUS
    <2>1. UNCHANGED modules /\ Become(t, f)
      BY <1>3, <1>8
    <2>2. /\ f \in Frames /\ f.op = "all" /\ f.at = "next" /\ f.left = l /\ f.names = h.names
      BY <1>2, <1>5, FrameKinds DEF AllFrames, Frames
    <2>3. /\ Disturbs(t, n) /\ StacksOK' /\ n \in Positions(t)' /\ frames'[t][n] = f
          /\ Len(frames'[t]) = n
      BY <1>2, <2>1, <2>2, BecomeDisturbs
    <2>4. SameLoads /\ SameCleans
      BY <1>2, <2>2, <2>3, AllDisturbs
    <2>5. TypeOK'
      BY <1>1, <2>1, <2>3, TypesStay DEF TypeOK
    <2>6. /\ p \in Paths /\ frames'[t][n].left = frames[t][n].left \ {p}
          /\ m = 0 \/ ~modules[m].connected
          /\ frames'[t][n].at = "next"
      BY <1>2, <1>5, <1>8, <2>2, <2>3
    <2>7. PassesOver(registered["own"][p])
      BY <2>1, <2>6 DEF PassesOver
    <2>8. \E q \in frames[t][n].left :
             /\ q \in Paths /\ frames'[t][n].left = frames[t][n].left \ {q}
             /\ frames'[t][n].at = "next" /\ PassesOver(registered["own"][q])
      BY <1>2, <2>6, <2>7
    <2> QED
      BY <1>1, <1>2, <2>2, <2>3, <2>4, <2>5, <2>8
  <1> QED
    BY <1>7, <1>8

LEMMA AllGoesOn ==
    ASSUME TypeOK, NEW t \in Threads, AllTerminated(t), NEW n, n = Len(frames[t])
    PROVE  /\ TypeOK' /\ Disturbs(t, n) /\ SameLoads /\ SameCleans
           /\ n \in Positions(t) /\ n \in Positions(t)' /\ Len(frames'[t]) = n
           /\ frames[t][n].op = "all" /\ frames[t][n].at = "inside"
           /\ frames'[t][n].op = "all" /\ frames'[t][n].at = "next"
           /\ frames'[t][n].left = frames[t][n].left
           /\ frames'[t][n].names = frames[t][n].names
           /\ UNCHANGED <<modules, registered, cleanups, overlapped>>
  <1> PICK h : h = Top(t)
    OBVIOUS
  <1> PICK f : f = [h EXCEPT !.at = "next", !.module = 0]
    OBVIOUS
  <1>1. /\ In(t, "all", "inside") /\ Become(t, f)
        /\ UNCHANGED <<modules, registered, cleanups, system, overlapped>>
    BY DEF AllTerminated
  <1>2. /\ StacksOK /\ n \in Positions(t) /\ frames[t] # <<>> /\ h \in Frames
        /\ h = frames[t][n] /\ h.op = "all" /\ h.at = "inside" /\ n \in Nat
    BY <1>1, TopOfCall
  <1>3. /\ f \in Frames /\ f.op = "all" /\ f.at = "next" /\ f.left = h.left /\ f.names = h.names
    BY <1>2, FrameKinds DEF AllFrames, Frames
  <1>4. /\ Disturbs(t, n) /\ StacksOK' /\ n \in Positions(t)' /\ frames'[t][n] = f
        /\ Len(frames'[t]) = n
    BY <1>1, <1>2, <1>3, BecomeDisturbs
  <1>5. SameLoads /\ SameCleans
    BY <1>2, <1>3, <1>4, AllDisturbs
  <1>6. TypeOK'
    BY <1>1, <1>4, TypesStay DEF TypeOK
  <1> QED
    BY <1>1, <1>2, <1>3, <1>4, <1>5, <1>6

LEMMA AllDisconnects ==
    ASSUME TypeOK, NEW t \in Threads, AllDisconnect(t), NEW n, n = Len(frames[t])
    PROVE  /\ TypeOK' /\ Disturbs(t, n) /\ SameLoads /\ SameCleans
           /\ n \in Positions(t) /\ n \in Positions(t)' /\ Len(frames'[t]) = n
           /\ frames[t][n].op = "all" /\ frames[t][n].at = "next" /\ frames[t][n].left = {}
           /\ frames'[t][n].op = "all" /\ frames'[t][n].at = "next"
           /\ frames'[t][n].left = {}
           /\ \E p \in frames[t][n].names :
                 LET m == registered["own"][p]
                 IN /\ p \in Paths /\ frames'[t][n].names = frames[t][n].names \ {p}
                    /\ registered'["own"][p] = 0
                    /\ \A l \in Locators, q \in Paths :
                          l # "own" \/ q # p => registered'[l][q] = registered[l][q]
                    /\ \/ (m = 0 \/ p \in Nested) /\ UNCHANGED modules
                       \/ /\ m \in DOMAIN modules /\ p \notin Nested
                          /\ modules' = [modules EXCEPT ![m].connected = FALSE]
           /\ UNCHANGED <<cleanups, overlapped>>
  <1> PICK h : h = Top(t)
    OBVIOUS
  <1>1. In(t, "all", "next") /\ UNCHANGED <<cleanups, system, overlapped>> /\ h.left = {}
    BY DEF AllDisconnect
  <1>2. /\ StacksOK /\ n \in Positions(t) /\ frames[t] # <<>> /\ h \in Frames
        /\ h = frames[t][n] /\ h.op = "all" /\ h.at = "next" /\ n \in Nat
    BY <1>1, TopOfCall
  <1>3. PICK p \in h.names :
           LET m == registered["own"][p]
           IN /\ modules' = IF m = 0 \/ p \in Nested THEN modules
                            ELSE [modules EXCEPT ![m].connected = FALSE]
              /\ registered' = [registered EXCEPT !["own"][p] = 0]
              /\ Become(t, [h EXCEPT !.names = h.names \ {p}])
    BY DEF AllDisconnect
  <1>4. h.names \in SUBSET Paths
    BY <1>2, FrameFields
  <1> PICK l : l = h.names \ {p}
    OBVIOUS
  <1>5. l \in SUBSET Paths /\ p \in Paths
    BY <1>4
  <1> PICK m : m = registered["own"][p]
    OBVIOUS
  <1>6. registered \in [Locators -> [Paths -> 0 .. Len(modules)]] /\ "own" \in Locators
    BY DEF TypeOK, Locators
  <1>7. m \in Nat /\ (m # 0 => m \in DOMAIN modules)
    <2>1. m \in 0 .. Len(modules)
      BY <1>5, <1>6
    <2> QED
      BY <1>5, <1>6, <2>1, ModuleFields
  <1> PICK f : f = [h EXCEPT !.names = l]
    OBVIOUS
  <1>8. /\ f \in Frames /\ f.op = "all" /\ f.at = "next" /\ f.left = {} /\ f.names = l
    BY <1>1, <1>2, <1>5, FrameKinds DEF AllFrames, Frames
  <1>9. Become(t, f)
    BY <1>3
  <1>10. /\ Disturbs(t, n) /\ StacksOK' /\ n \in Positions(t)' /\ frames'[t][n] = f
         /\ Len(frames'[t]) = n
    BY <1>2, <1>8, <1>9, BecomeDisturbs
  <1>11. SameLoads /\ SameCleans
    BY <1>2, <1>8, <1>10, AllDisturbs
  <1>12. registered' = [registered EXCEPT !["own"] = [registered["own"] EXCEPT ![p] = 0]]
    BY <1>3
  <1>13. /\ registered' \in [Locators -> [Paths -> 0 .. Len(modules)]]
         /\ registered'["own"][p] = 0
         /\ \A k \in Locators, q \in Paths :
               k # "own" \/ q # p => registered'[k][q] = registered[k][q]
    <2>1. Len(modules) \in Nat
      BY ModuleFields
    <2> QED
      BY <1>5, <1>6, <1>12, <2>1
  <1>14. \/ (m = 0 \/ p \in Nested) /\ UNCHANGED modules
         \/ /\ m \in DOMAIN modules /\ p \notin Nested
            /\ modules' = [modules EXCEPT ![m].connected = FALSE]
    BY <1>3, <1>7
  <1>15. modules' \in Seq(Modules) /\ Len(modules') = Len(modules)
    BY <1>14, DisconnectChanges DEF TypeOK
  <1>16. TypeOK'
    BY <1>1, <1>10, <1>13, <1>15 DEF TypeOK, StacksOK
  <1>17. /\ p \in h.names /\ frames'[t][n].names = h.names \ {p} /\ frames'[t][n].left = {}
         /\ frames'[t][n].op = "all" /\ frames'[t][n].at = "next"
    BY <1>8, <1>10
  <1>18. \E q \in h.names :
            LET k == registered["own"][q]
            IN /\ q \in Paths /\ frames'[t][n].names = h.names \ {q}
               /\ registered'["own"][q] = 0
               /\ \A j \in Locators, r \in Paths :
                     j # "own" \/ r # q => registered'[j][r] = registered[j][r]
               /\ \/ (k = 0 \/ q \in Nested) /\ UNCHANGED modules
                  \/ /\ k \in DOMAIN modules /\ q \notin Nested
                     /\ modules' = [modules EXCEPT ![k].connected = FALSE]
    BY <1>5, <1>13, <1>14, <1>17
  <1> QED
    BY <1>1, <1>2, <1>10, <1>11, <1>16, <1>17, <1>18

LEMMA AllReturns ==
    ASSUME TypeOK, NEW t \in Threads, AllReturn(t), NEW n, n = Len(frames[t])
    PROVE  /\ TypeOK' /\ Disturbs(t, n) /\ SameLoads /\ SameCleans
           /\ n \in Positions(t) /\ n \notin Positions(t)' /\ Len(frames'[t]) = n - 1
           /\ frames[t][n].op = "all" /\ frames[t][n].at = "next" /\ frames[t][n].names = {}
           /\ UNCHANGED <<modules, registered, cleanups, overlapped>>
  <1>1. /\ In(t, "all", "next") /\ Pop(t) /\ Top(t).names = {}
        /\ UNCHANGED <<modules, registered, cleanups, system, overlapped>>
    BY DEF AllReturn
  <1>2. /\ StacksOK /\ n \in Positions(t) /\ frames[t] # <<>>
        /\ Top(t) = frames[t][n] /\ frames[t][n].op = "all" /\ frames[t][n].at = "next"
    BY <1>1, TopOfCall
  <1>3. /\ Disturbs(t, n) /\ StacksOK' /\ n \notin Positions(t)' /\ Len(frames'[t]) = n - 1
    BY <1>1, <1>2, PopDisturbs
  <1>4. SameLoads /\ SameCleans
    BY <1>2, <1>3, AllDisturbs
  <1>5. TypeOK'
    BY <1>1, <1>3, TypesStay DEF TypeOK
  <1> QED
    BY <1>1, <1>2, <1>3, <1>4, <1>5

\* TerminateVEILSystem calls TerminateAllPlugins, which is quiet, or a cleanup.
CleanStarts(t, n) ==
    LET m == cleanups[Len(cleanups)]
    IN /\ n \notin Positions(t) /\ n \in Positions(t)' /\ m \in DOMAIN modules
       /\ frames'[t][n].op = "clean" /\ frames'[t][n].at = "terminate"
       /\ frames'[t][n].module = m /\ (overlapped' <=> Overlaps(t))

LEMMA CloseCalls ==
    ASSUME TypeOK, NEW t \in Threads, CloseNext(t), NEW n, n = Len(frames[t]) + 1
    PROVE  /\ TypeOK' /\ Disturbs(t, n) /\ SameLoads /\ SameAlls /\ n \in Nat
           /\ Len(cleanups) \in Nat \ {0} /\ DOMAIN cleanups = 1 .. Len(cleanups)
           /\ DOMAIN cleanups' = 1 .. (Len(cleanups) - 1)
           /\ \A k \in DOMAIN cleanups' : cleanups'[k] = cleanups[k]
           /\ \/ cleanups[Len(cleanups)] = 0 /\ SameCleans /\ UNCHANGED overlapped
              \/ CleanStarts(t, n)
           /\ UNCHANGED <<modules, registered>>
  <1> PICK m : m = cleanups[Len(cleanups)]
    OBVIOUS
  <1>1. /\ In(t, "close", "pop") /\ cleanups # <<>>
        /\ cleanups' = SubSeq(cleanups, 1, Len(cleanups) - 1)
        /\ UNCHANGED <<modules, registered, system>>
        /\ \/ m = 0 /\ Push(t, All) /\ UNCHANGED overlapped
           \/ /\ m # 0 /\ Push(t, [op |-> "clean", at |-> "terminate", module |-> m])
              /\ overlapped' = Overlaps(t)
    BY DEF CloseNext
  <1>2. StacksOK /\ Len(frames[t]) \in Nat /\ n \in Nat
    BY StackTypes DEF TypeOK, StacksOK
  <1>3. cleanups \in Seq(0 .. Len(modules)) /\ Len(modules) \in Nat
    BY ModuleFields DEF TypeOK
  <1>4. Len(cleanups) \in Nat \ {0} /\ DOMAIN cleanups = 1 .. Len(cleanups)
    BY <1>1, <1>3, LenProperties, EmptySeq
  <1>5. m \in 0 .. Len(modules) /\ (m # 0 => m \in DOMAIN modules)
    <2>1. m \in 0 .. Len(modules)
      BY <1>3, <1>4, ElementOfSeq
    <2> QED
      BY <2>1, ModuleFields
  <1>6. /\ cleanups' \in Seq(0 .. Len(modules)) /\ DOMAIN cleanups' = 1 .. (Len(cleanups) - 1)
        /\ \A k \in DOMAIN cleanups' : cleanups'[k] = cleanups[k]
    BY <1>1, <1>3, <1>4
  <1>7. CASE m = 0 /\ Push(t, All) /\ UNCHANGED overlapped
    <2> PICK f : f = All
      OBVIOUS
    <2>1. f \in Frames /\ f.op = "all" /\ f.at = "lock"
      BY DEF All, Frames, AllFrames
    <2>2. /\ Disturbs(t, n) /\ StacksOK' /\ n \notin Positions(t) /\ n \in Positions(t)'
          /\ frames'[t][n] = f
      BY <1>2, <1>7, <2>1, PushDisturbs
    <2>3. ~LoadAt(t, n)' /\ ~AllAt(t, n)' /\ ~CleanAt(t, n)'
      BY <2>1, <2>2 DEF LoadAt, AllAt, CleanAt
    <2>4. SameLoads /\ SameAlls /\ SameCleans
      BY <2>2, <2>3, SameIfOther
    <2>5. TypeOK'
      BY <1>1, <1>6, <1>7, <2>2 DEF TypeOK, StacksOK
    <2> QED
      BY <1>1, <1>2, <1>4, <1>6, <1>7, <2>2, <2>4, <2>5
  <1>8. CASE /\ m # 0 /\ Push(t, [op |-> "clean", at |-> "terminate", module |-> m])
             /\ overlapped' = Overlaps(t)
    <2> PICK f : f = [op |-> "clean", at |-> "terminate", module |-> m]
      OBVIOUS
    <2>1. f \in Frames /\ f.op = "clean" /\ f.at = "terminate" /\ f.module = m
      BY <1>5 DEF Frames, CleanFrames
    <2>2. Push(t, f)
      BY <1>8
    <2>3. /\ Disturbs(t, n) /\ StacksOK' /\ n \notin Positions(t) /\ n \in Positions(t)'
          /\ frames'[t][n] = f
      BY <1>2, <2>1, <2>2, PushDisturbs
    <2>4. SameLoads /\ SameAlls
      BY <2>1, <2>3, CleanDisturbs
    <2>5. overlapped' \in BOOLEAN /\ (overlapped' <=> Overlaps(t))
      BY <1>8 DEF Overlaps, TypeOK
    <2>6. TypeOK'
      BY <1>1, <1>6, <2>3, <2>5 DEF TypeOK, StacksOK
    <2>7. CleanStarts(t, n)
      BY <1>5, <1>8, <2>1, <2>3, <2>5 DEF CleanStarts
    <2> QED
      BY <1>1, <1>2, <1>4, <1>6, <2>3, <2>4, <2>6, <2>7
  <1> QED
    BY <1>1, <1>7, <1>8

LEMMA CleanTerminates ==
    ASSUME TypeOK, NEW t \in Threads, CleanTerminate(t), NEW n, n = Len(frames[t]),
           NEW m, m = frames[t][n].module, m \in DOMAIN modules
    PROVE  /\ TypeOK' /\ Disturbs(t, n) /\ SameLoads /\ SameAlls
           /\ n \in Positions(t) /\ n \in Positions(t)' /\ Len(frames'[t]) = n
           /\ frames[t][n].op = "clean" /\ frames[t][n].at = "terminate"
           /\ frames'[t][n].op = "clean" /\ frames'[t][n].module = m
           /\ \/ Enters(t, n, m)
              \/ frames'[t][n].at = "delete" /\ PassesOver(m)
           /\ UNCHANGED <<registered, cleanups, overlapped>>
  <1> PICK h : h = Top(t)
    OBVIOUS
  <1>1. In(t, "clean", "terminate") /\ UNCHANGED <<registered, cleanups, system, overlapped>>
    BY DEF CleanTerminate
  <1>2. /\ StacksOK /\ n \in Positions(t) /\ frames[t] # <<>> /\ h \in Frames
        /\ h = frames[t][n] /\ h.op = "clean" /\ h.at = "terminate" /\ n \in Nat
    BY <1>1, TopOfCall
  <1>3. IF modules[m].connected
        THEN ModuleFree(t, m) /\ Terminated(m) /\ Become(t, [h EXCEPT !.at = "inside"])
        ELSE Become(t, [h EXCEPT !.at = "delete"]) /\ UNCHANGED modules
    BY <1>2 DEF CleanTerminate
  <1>4. CASE modules[m].connected
    <2> PICK f : f = [h EXCEPT !.at = "inside"]
      OBVIOUS
    <2>1. f \in Frames /\ f.op = "clean" /\ f.at = "inside" /\ f.module = h.module
      BY <1>2, CleanFrameTo
    <2>2. ModuleFree(t, m) /\ Terminated(m) /\ Become(t, f)
      BY <1>3, <1>4
    <2>3. /\ Disturbs(t, n) /\ StacksOK' /\ n \in Positions(t)' /\ frames'[t][n] = f
          /\ Len(frames'[t]) = n
      BY <1>2, <2>1, <2>2, BecomeDisturbs
    <2>4. SameLoads /\ SameAlls
      BY <1>2, <2>1, <2>3, CleanDisturbs
    <2>5. modules' \in Seq(Modules) /\ Len(modules') = Len(modules)
      BY <2>2, TerminatedChanges
    <2>6. TypeOK'
      BY <1>1, <2>3, <2>5, TypesOfModulesStay
    <2>7. Enters(t, n, m)
      BY <1>2, <1>4, <2>1, <2>2, <2>3 DEF Enters
    <2> QED
      BY <1>1, <1>2, <2>1, <2>3, <2>4, <2>6, <2>7
  <1>5. CASE ~modules[m].connected
    <2> PICK f : f = [h EXCEPT !.at = "delete"]
      OBVIOUS
    <2>1. f \in Frames /\ f.op = "clean" /\ f.at = "delete" /\ f.module = h.module
      BY <1>2, CleanFrameTo
    <2>2. UNCHANGED modules /\ Become(t, f)
      BY <1>3, <1>5
    <2>3. /\ Disturbs(t, n) /\ StacksOK' /\ n \in Positions(t)' /\ frames'[t][n] = f
          /\ Len(frames'[t]) = n
      BY <1>2, <2>1, <2>2, BecomeDisturbs
    <2>4. SameLoads /\ SameAlls
      BY <1>2, <2>1, <2>3, CleanDisturbs
    <2>5. TypeOK'
      BY <1>1, <2>2, <2>3, TypesStay DEF TypeOK
    <2>6. PassesOver(m)
      BY <1>5, <2>2 DEF PassesOver
    <2> QED
      BY <1>1, <1>2, <2>1, <2>3, <2>4, <2>5, <2>6
  <1> QED
    BY <1>4, <1>5

LEMMA CleanGoesOn ==
    ASSUME TypeOK, NEW t \in Threads, CleanTerminated(t), NEW n, n = Len(frames[t])
    PROVE  /\ TypeOK' /\ Disturbs(t, n) /\ SameLoads /\ SameAlls
           /\ n \in Positions(t) /\ n \in Positions(t)' /\ Len(frames'[t]) = n
           /\ frames[t][n].op = "clean" /\ frames[t][n].at = "inside"
           /\ frames'[t][n].op = "clean" /\ frames'[t][n].at = "delete"
           /\ frames'[t][n].module = frames[t][n].module
           /\ UNCHANGED <<modules, registered, cleanups, overlapped>>
  <1> PICK h : h = Top(t)
    OBVIOUS
  <1> PICK f : f = [h EXCEPT !.at = "delete"]
    OBVIOUS
  <1>1. /\ In(t, "clean", "inside") /\ Become(t, f)
        /\ UNCHANGED <<modules, registered, cleanups, system, overlapped>>
    BY DEF CleanTerminated
  <1>2. /\ StacksOK /\ n \in Positions(t) /\ frames[t] # <<>> /\ h \in Frames
        /\ h = frames[t][n] /\ h.op = "clean" /\ h.at = "inside" /\ n \in Nat
    BY <1>1, TopOfCall
  <1>3. f \in Frames /\ f.op = "clean" /\ f.at = "delete" /\ f.module = h.module
    BY <1>2, CleanFrameTo
  <1>4. /\ Disturbs(t, n) /\ StacksOK' /\ n \in Positions(t)' /\ frames'[t][n] = f
        /\ Len(frames'[t]) = n
    BY <1>1, <1>2, <1>3, BecomeDisturbs
  <1>5. SameLoads /\ SameAlls
    BY <1>2, <1>3, <1>4, CleanDisturbs
  <1>6. TypeOK'
    BY <1>1, <1>4, TypesStay DEF TypeOK
  <1> QED
    BY <1>1, <1>2, <1>3, <1>4, <1>5, <1>6

LEMMA CleanDeletes ==
    ASSUME TypeOK, NEW t \in Threads, CleanDelete(t), NEW n, n = Len(frames[t]),
           NEW m, m = frames[t][n].module, m \in DOMAIN modules
    PROVE  /\ TypeOK' /\ Disturbs(t, n) /\ SameLoads /\ SameAlls
           /\ n \in Positions(t) /\ n \notin Positions(t)' /\ Len(frames'[t]) = n - 1
           /\ frames[t][n].op = "clean" /\ frames[t][n].at = "delete"
           /\ registered'[modules[m].locator][modules[m].path] = 0
           /\ \A l \in Locators, p \in Paths :
                 registered'[l][p] = registered[l][p] \/ registered'[l][p] = 0
           /\ \A l \in Locators, p \in Paths :
                 l # modules[m].locator \/ p # modules[m].path =>
                    registered'[l][p] = registered[l][p]
           /\ UNCHANGED <<modules, cleanups, overlapped>>
  <1>1. In(t, "clean", "delete") /\ Pop(t) /\ UNCHANGED <<modules, cleanups, system, overlapped>>
    BY DEF CleanDelete
  <1>2. /\ StacksOK /\ n \in Positions(t) /\ frames[t] # <<>>
        /\ Top(t) = frames[t][n] /\ frames[t][n].op = "clean" /\ frames[t][n].at = "delete"
    BY <1>1, TopOfCall
  <1>3. /\ Disturbs(t, n) /\ StacksOK' /\ n \notin Positions(t)' /\ Len(frames'[t]) = n - 1
    BY <1>1, <1>2, PopDisturbs
  <1>4. SameLoads /\ SameAlls
    BY <1>2, <1>3, CleanDisturbs
  <1> PICK l : l = modules[m].locator
    OBVIOUS
  <1> PICK p : p = modules[m].path
    OBVIOUS
  <1>5. registered' = [registered EXCEPT ![l] = [registered[l] EXCEPT ![p] = 0]]
    BY <1>2 DEF CleanDelete
  <1>6. l \in Locators /\ p \in Paths /\ Len(modules) \in Nat
    BY ModuleFields
  <1>7. registered \in [Locators -> [Paths -> 0 .. Len(modules)]]
    BY DEF TypeOK
  <1>8. /\ registered' \in [Locators -> [Paths -> 0 .. Len(modules)]] /\ registered'[l][p] = 0
        /\ \A k \in Locators, q \in Paths :
              /\ registered'[k][q] = registered[k][q] \/ registered'[k][q] = 0
              /\ k # l \/ q # p => registered'[k][q] = registered[k][q]
    <2>a. PICK r : r = [registered[l] EXCEPT ![p] = 0]
      OBVIOUS
    <2>b. PICK S : S = 0 .. Len(modules)
      OBVIOUS
    <2>c. registered \in [Locators -> [Paths -> S]] /\ 0 \in S
      BY <1>6, <1>7, <2>b
    <2>d. PICK g : g = registered[l]
      OBVIOUS
    <2>1. g \in [Paths -> S] /\ r = [g EXCEPT ![p] = 0]
      BY <1>6, <2>a, <2>c, <2>d
    <2>2. r \in [Paths -> S] /\ r[p] = 0
      BY <1>6, <2>c, <2>1
    <2>3. \A q \in Paths : (r[q] = g[q] \/ r[q] = 0) /\ (q # p => r[q] = g[q])
      BY <1>6, <2>1
    <2>4. registered' = [registered EXCEPT ![l] = r]
      BY <1>5, <2>a
    <2>5. registered' \in [Locators -> [Paths -> S]] /\ registered'[l] = r
      BY <1>6, <2>c, <2>2, <2>4
    <2>6. \A k \in Locators : k # l => registered'[k] = registered[k]
      BY <1>6, <2>c, <2>4
    <2>7. ASSUME NEW k \in Locators, NEW q \in Paths
          PROVE  /\ registered'[k][q] = registered[k][q] \/ registered'[k][q] = 0
                 /\ k # l \/ q # p => registered'[k][q] = registered[k][q]
      <3>1. CASE k = l
        BY <2>d, <2>3, <2>5, <3>1
      <3>2. CASE k # l
        BY <2>6, <3>2
      <3> QED
        BY <3>1, <3>2
    <2> QED
      BY <2>b, <2>2, <2>5, <2>7
  <1>9. TypeOK'
    BY <1>1, <1>3, <1>8 DEF TypeOK, StacksOK
  <1> QED
    BY <1>1, <1>2, <1>3, <1>4, <1>8, <1>9

-----------------------------------------------------------------------------
(* The order of the calls on a stack *)

LEMMA StackedPush ==
    ASSUME StacksOK, Stacked, NEW t \in Threads, NEW f \in Frames, Push(t, f),
           frames[t] # <<>> => Top(t).at = "inside" \/ Top(t).op = "close",
           f.op = "close" => frames[t] = <<>>,
           f.op \in {"all", "clean"} =>
              frames[t] = <<>> \/ (Len(frames[t]) = 1 /\ Top(t).op = "close"),
           f.op \in {"load", "find"} /\ frames[t] # <<>> => Top(t).at = "inside"
    PROVE  Stacked'
  <1> PICK n : n = Len(frames[t])
    OBVIOUS
  <1>1. /\ StacksOK' /\ Len(frames'[t]) = n + 1 /\ frames'[t][n + 1] = f /\ Below(t, n)
    BY Pushed
  <1>2. \A u \in Threads : Positions(u) = 1 .. Len(frames[u]) /\ Len(frames[u]) \in Nat
    BY PositionsBefore
  <1>3. \A u \in Threads : Positions(u)' = 1 .. Len(frames'[u]) /\ Len(frames'[u]) \in Nat
    BY <1>1, PositionsAfter
  <1>4. (frames[t] = <<>> => n = 0) /\ (frames[t] # <<>> => n > 0 /\ Top(t) = frames[t][n])
    BY StackTypes
  <1> SUFFICES ASSUME NEW u \in Threads, NEW i \in Positions(u)',
                      NEW g, g = frames'[u][i]
               PROVE  /\ i < Len(frames'[u]) => g.at = "inside" \/ g.op = "close"
                      /\ g.op = "close" => i = 1
                      /\ g.op \in {"all", "clean"} => i = 1 \/ (i = 2 /\ frames'[u][1].op = "close")
                      /\ g.op \in {"load", "find"} /\ i > 1 => frames'[u][i - 1].at = "inside"
    BY DEF Stacked
  <1>5. CASE u # t
    <2>1. frames'[u] = frames[u]
      BY <1>1, <1>5 DEF Below
    <2>2. i \in Positions(u) /\ g = frames[u][i]
      BY <2>1, <1>2, <1>3
    <2>3. /\ i < Len(frames[u]) => g.at = "inside" \/ g.op = "close"
          /\ g.op = "close" => i = 1
          /\ g.op \in {"all", "clean"} => i = 1 \/ (i = 2 /\ frames[u][1].op = "close")
          /\ g.op \in {"load", "find"} /\ i > 1 => frames[u][i - 1].at = "inside"
      BY <2>2 DEF Stacked
    <2> QED
      BY <2>1, <2>3
  <1>6. CASE u = t /\ i <= n
    <2>1. i \in Positions(t) /\ g = frames[t][i] /\ frames'[t][1] = frames[t][1]
          /\ (i > 1 => frames'[t][i - 1] = frames[t][i - 1])
      BY <1>1, <1>2, <1>3, <1>6 DEF Below
    <2>2. /\ i < n => g.at = "inside" \/ g.op = "close"
          /\ g.op = "close" => i = 1
          /\ g.op \in {"all", "clean"} => i = 1 \/ (i = 2 /\ frames[t][1].op = "close")
          /\ g.op \in {"load", "find"} /\ i > 1 => frames[t][i - 1].at = "inside"
      BY <2>1 DEF Stacked
    <2>3. i = n => g.at = "inside" \/ g.op = "close"
      BY <1>2, <1>4, <1>6, <2>1
    <2> QED
      BY <1>2, <1>6, <2>1, <2>2, <2>3
  <1>7. CASE u = t /\ i > n
    <2>1. i = n + 1 /\ g = f /\ n \in Nat
      BY <1>1, <1>2, <1>3, <1>7
    <2>2. g.op = "close" => i = 1
      BY <1>4, <2>1
    <2>3. g.op \in {"all", "clean"} => i = 1 \/ (i = 2 /\ frames'[t][1].op = "close")
      BY <1>1, <1>4, <2>1 DEF Below
    <2>4. g.op \in {"load", "find"} /\ i > 1 => frames'[t][i - 1].at = "inside"
      BY <1>1, <1>4, <2>1 DEF Below
    <2> QED
      BY <1>1, <1>7, <2>1, <2>2, <2>3, <2>4
  <1> QED
    BY <1>2, <1>3, <1>5, <1>6, <1>7

LEMMA StackedPop ==
    ASSUME StacksOK, Stacked, NEW t \in Threads, Pop(t), frames[t] # <<>>
    PROVE  Stacked'
  <1> PICK n : n = Len(frames[t])
    OBVIOUS
  <1>1. /\ StacksOK' /\ Len(frames'[t]) = n - 1 /\ Below(t, n - 1)
    BY Popped
  <1>2. \A u \in Threads : Positions(u) = 1 .. Len(frames[u]) /\ Len(frames[u]) \in Nat
    BY PositionsBefore
  <1>3. \A u \in Threads : Positions(u)' = 1 .. Len(frames'[u]) /\ Len(frames'[u]) \in Nat
    BY <1>1, PositionsAfter
  <1>4. ASSUME NEW u \in Threads, NEW i \in Positions(u)'
        PROVE  /\ i \in Positions(u) /\ frames'[u][i] = frames[u][i]
               /\ i < Len(frames'[u]) => i < Len(frames[u])
               /\ frames'[u][1] = frames[u][1]
               /\ i > 1 => frames'[u][i - 1] = frames[u][i - 1]
    <2>1. CASE u # t
      <3>1. frames'[u] = frames[u]
        BY <1>1, <2>1 DEF Below
      <3> QED
        BY <1>2, <1>3, <3>1
    <2>2. CASE u = t
      <3>1. i \in 1 .. n - 1 /\ n \in Nat
        BY <1>1, <1>2, <1>3, <2>2
      <3>2. \A j \in 1 .. n - 1 : frames'[t][j] = frames[t][j]
        BY <1>1 DEF Below
      <3>3. 1 \in 1 .. n - 1 /\ (i > 1 => i - 1 \in 1 .. n - 1)
        BY <3>1
      <3>4. i \in Positions(t) /\ i < Len(frames[t])
        BY <1>2, <3>1
      <3> QED
        BY <2>2, <3>1, <3>2, <3>3, <3>4
    <2> QED
      BY <2>1, <2>2
  <1> SUFFICES ASSUME NEW u \in Threads, NEW i \in Positions(u)',
                      NEW g, g = frames'[u][i]
               PROVE  /\ i < Len(frames'[u]) => g.at = "inside" \/ g.op = "close"
                      /\ g.op = "close" => i = 1
                      /\ g.op \in {"all", "clean"} => i = 1 \/ (i = 2 /\ frames'[u][1].op = "close")
                      /\ g.op \in {"load", "find"} /\ i > 1 => frames'[u][i - 1].at = "inside"
    BY DEF Stacked
  <1>5. /\ i < Len(frames[u]) => g.at = "inside" \/ g.op = "close"
        /\ g.op = "close" => i = 1
        /\ g.op \in {"all", "clean"} => i = 1 \/ (i = 2 /\ frames[u][1].op = "close")
        /\ g.op \in {"load", "find"} /\ i > 1 => frames[u][i - 1].at = "inside"
    BY <1>4 DEF Stacked
  <1> QED
    BY <1>4, <1>5

LEMMA StackedBecome ==
    ASSUME StacksOK, StacksOK', Stacked, NEW t \in Threads, NEW n, n = Len(frames[t]),
           Len(frames'[t]) = n, Disturbs(t, n), n \in Positions(t), n \in Positions(t)',
           frames'[t][n].op = frames[t][n].op
    PROVE  Stacked'
  <1>1. \A u \in Threads : Positions(u) = 1 .. Len(frames[u]) /\ Len(frames[u]) \in Nat
    BY PositionsBefore
  <1>2. \A u \in Threads : Positions(u)' = 1 .. Len(frames'[u]) /\ Len(frames'[u]) \in Nat
    BY PositionsAfter
  <1>3. \A u \in Threads : Len(frames'[u]) = Len(frames[u])
    <2> SUFFICES ASSUME NEW u \in Threads, u # t PROVE Len(frames'[u]) = Len(frames[u])
      OBVIOUS
    <2>1. \A i : i \in Positions(u) <=> i \in Positions(u)'
      BY DEF Disturbs, Kept
    <2> PICK a : a = Len(frames[u])
      OBVIOUS
    <2> PICK b : b = Len(frames'[u])
      OBVIOUS
    <2>2. a \in Nat /\ b \in Nat /\ \A i : i \in 1 .. a <=> i \in 1 .. b
      BY <1>1, <1>2, <2>1
    <2>3. (a > 0 => a \in 1 .. b) /\ (b > 0 => b \in 1 .. a)
      <3>1. (a > 0 => a \in 1 .. a) /\ (b > 0 => b \in 1 .. b)
        BY <2>2
      <3> QED
        BY <2>2, <3>1
    <2> QED
      BY <2>2, <2>3
  <1>4. ASSUME NEW u \in Threads, NEW i \in Positions(u)', u # t \/ i # n
        PROVE  i \in Positions(u) /\ frames'[u][i] = frames[u][i]
    BY <1>4 DEF Disturbs, Kept
  <1> SUFFICES ASSUME NEW u \in Threads, NEW i \in Positions(u)',
                      NEW g, g = frames'[u][i]
               PROVE  /\ i < Len(frames'[u]) => g.at = "inside" \/ g.op = "close"
                      /\ g.op = "close" => i = 1
                      /\ g.op \in {"all", "clean"} => i = 1 \/ (i = 2 /\ frames'[u][1].op = "close")
                      /\ g.op \in {"load", "find"} /\ i > 1 => frames'[u][i - 1].at = "inside"
    BY DEF Stacked
  <1>5. 1 \in Positions(u) /\ 1 \in Positions(u)' /\ frames'[u][1].op = frames[u][1].op
        /\ (i > 1 => i - 1 \in Positions(u)' /\ frames'[u][i - 1] = frames[u][i - 1])
    BY <1>1, <1>2, <1>3, <1>4
  <1>6. i \in Positions(u) /\ g.op = frames[u][i].op
    BY <1>1, <1>2, <1>3, <1>4
  <1>7. /\ g.op = "close" => i = 1
        /\ g.op \in {"all", "clean"} => i = 1 \/ (i = 2 /\ frames[u][1].op = "close")
        /\ g.op \in {"load", "find"} /\ i > 1 => frames[u][i - 1].at = "inside"
    BY <1>6 DEF Stacked
  <1>8. i < Len(frames'[u]) => g = frames[u][i]
    BY <1>1, <1>2, <1>3, <1>4
  <1>9. i < Len(frames'[u]) => g.at = "inside" \/ g.op = "close"
    BY <1>3, <1>6, <1>8 DEF Stacked
  <1> QED
    BY <1>5, <1>7, <1>9

\* The module of a load past its "wait", and of a cleanup, was connected.
LEMMA TopModule ==
    ASSUME TypeOK, LoadsOK, CleanupsOK, NEW t \in Threads, NEW n, n = Len(frames[t]),
           \/ In(t, "load", "connected") \/ In(t, "load", "inside") \/ In(t, "load", "add")
           \/ In(t, "clean", "terminate") \/ In(t, "clean", "delete")
    PROVE  frames[t][n].module \in DOMAIN modules
  <1>1. n \in Positions(t) /\ (LoadAt(t, n) \/ CleanAt(t, n))
    BY TopOfCall DEF LoadAt, CleanAt
  <1> QED
    BY <1>1 DEF LoadsOK, LoadOK, CleanupsOK

LEMMA NextTypeOK ==
    ASSUME TypeOK, LoadsOK, CleanupsOK, [Next]_vars
    PROVE  TypeOK'
  <1>1. CASE UNCHANGED vars
    BY <1>1, QuietSteps
  <1>2. ASSUME NEW t \in Threads, QuietStep(t) PROVE TypeOK'
    BY <1>2, QuietSteps
  <1>3. ASSUME NEW t \in Threads, LoadConnect(t) PROVE TypeOK'
    BY <1>3, LoadConnects
  <1>4. ASSUME NEW t \in Threads, LoadInitialize(t) PROVE TypeOK'
    BY <1>4, LoadInitializes
  <1>5. ASSUME NEW t \in Threads, InitializeFails(t) \/ InitializeWorks(t) PROVE TypeOK'
    <2> PICK n : n = Len(frames[t])
      OBVIOUS
    <2> PICK m : m = frames[t][n].module
      OBVIOUS
    <2>1. m \in DOMAIN modules
      BY <1>5, TopModule DEF InitializeFails, InitializeWorks
    <2> QED
      BY <1>5, <2>1, InitializeEnds
  <1>6. ASSUME NEW t \in Threads, LoadAdd(t) PROVE TypeOK'
    <2> PICK n : n = Len(frames[t])
      OBVIOUS
    <2> PICK m : m = frames[t][n].module
      OBVIOUS
    <2>1. m \in DOMAIN modules
      BY <1>6, TopModule DEF LoadAdd
    <2> QED
      BY <1>6, <2>1, LoadAdds
  <1>7. ASSUME NEW t \in Threads,
               AllLock(t) \/ AllTerminate(t) \/ AllTerminated(t) \/ AllDisconnect(t) \/ AllReturn(t)
        PROVE  TypeOK'
    BY <1>7, AllLocks, AllTerminates, AllGoesOn, AllDisconnects, AllReturns
  <1>8. ASSUME NEW t \in Threads, CloseNext(t) PROVE TypeOK'
    BY <1>8, CloseCalls
  <1>9. ASSUME NEW t \in Threads, CleanTerminate(t) PROVE TypeOK'
    <2> PICK n : n = Len(frames[t])
      OBVIOUS
    <2> PICK m : m = frames[t][n].module
      OBVIOUS
    <2>1. m \in DOMAIN modules
      BY <1>9, TopModule DEF CleanTerminate
    <2> QED
      BY <1>9, <2>1, CleanTerminates
  <1>10. ASSUME NEW t \in Threads, CleanTerminated(t) PROVE TypeOK'
    BY <1>10, CleanGoesOn
  <1>11. ASSUME NEW t \in Threads, CleanDelete(t) PROVE TypeOK'
    <2> PICK n : n = Len(frames[t])
      OBVIOUS
    <2> PICK m : m = frames[t][n].module
      OBVIOUS
    <2>1. m \in DOMAIN modules
      BY <1>11, TopModule DEF CleanDelete
    <2> QED
      BY <1>11, <2>1, CleanDeletes
  <1> QED
    BY <1>1, <1>2, <1>3, <1>4, <1>5, <1>6, <1>7, <1>8, <1>9, <1>10, <1>11 DEF Next, QuietStep

LEMMA NextStacked ==
    ASSUME TypeOK, TypeOK', LoadsOK, CleanupsOK, Stacked, [Next]_vars
    PROVE  Stacked'
  <1>1. StacksOK /\ StacksOK'
    BY DEF TypeOK, StacksOK
  <1>2. CASE UNCHANGED vars
    BY <1>2 DEF vars, Stacked, Positions
  <1>3. ASSUME NEW t \in Threads, Pop(t), frames[t] # <<>> PROVE Stacked'
    BY <1>1, <1>3, StackedPop
  <1>4. ASSUME NEW t \in Threads,
               \/ LoadNothing(t) \/ LoadAdd(t) \/ FindReturn(t) \/ AllReturn(t)
               \/ CloseReturn(t) \/ CleanDelete(t) \/ InitializeFails(t)
        PROVE  Stacked'
    <2>1. Pop(t) /\ frames[t] # <<>>
      BY <1>4 DEF LoadNothing, LoadAdd, FindReturn, AllReturn, CloseReturn, CleanDelete,
                  InitializeFails, In
    <2> QED
      BY <1>3, <2>1
  <1>5. ASSUME NEW t \in Threads, LoadModule(t) PROVE Stacked'
    <2>1. MayCall(t)
      BY <1>5 DEF LoadModule
    <2>2. PICK p \in Paths, how \in Loads :
             Push(t, [op |-> "load", at |-> "lock", path |-> p, locator |-> how[1],
                      cleanup |-> how[2], module |-> 0])
      BY <1>5 DEF LoadModule
    <2> PICK f : f = [op |-> "load", at |-> "lock", path |-> p, locator |-> how[1],
                      cleanup |-> how[2], module |-> 0]
      OBVIOUS
    <2>3. f \in Frames /\ f.op = "load"
      <3>1. how[1] \in Locators /\ how[2] \in BOOLEAN
        BY PluginAssumption
      <3> QED
        BY <3>1 DEF Frames, LoadFrames
    <2>4. frames[t] # <<>> => Top(t).at = "inside"
      BY <2>1 DEF MayCall
    <2>5. Push(t, f)
      BY <2>2
    <2> QED
      BY <1>1, <2>3, <2>4, <2>5, StackedPush
  <1>6. ASSUME NEW t \in Threads, FindModule(t) PROVE Stacked'
    <2> PICK f : f = [op |-> "find", at |-> "lock"]
      OBVIOUS
    <2>1. f \in Frames /\ f.op = "find"
      BY DEF Frames, FindFrames
    <2>2. Push(t, f) /\ (frames[t] # <<>> => Top(t).at = "inside")
      BY <1>6 DEF FindModule, MayCall
    <2> QED
      BY <1>1, <2>1, <2>2, StackedPush
  <1>7. ASSUME NEW t \in Threads, TerminateAllPlugins(t) \/ TerminateVEILSystem(t) PROVE Stacked'
    <2>1. \E f \in {All, [op |-> "close", at |-> "pop"]} : Push(t, f)
      BY <1>7 DEF TerminateAllPlugins, TerminateVEILSystem
    <2>2. PICK f \in {All, [op |-> "close", at |-> "pop"]} : Push(t, f)
      BY <2>1
    <2>3. f \in Frames /\ f.op \in {"all", "close"}
      BY DEF Frames, AllFrames, CloseFrames, All
    <2>4. frames[t] = <<>>
      BY <1>7 DEF TerminateAllPlugins, TerminateVEILSystem
    <2> QED
      BY <1>1, <2>2, <2>3, <2>4, StackedPush
  <1>8. ASSUME NEW t \in Threads, CloseNext(t) PROVE Stacked'
    <2>1. In(t, "close", "pop") /\ \E f : Push(t, f) /\ f \in Frames /\ f.op \in {"all", "clean"}
      <3> PICK m : m = cleanups[Len(cleanups)]
        OBVIOUS
      <3>1. m \in Nat
        <4>1. cleanups \in Seq(0 .. Len(modules)) /\ cleanups # <<>> /\ Len(modules) \in Nat
          BY <1>8, ModuleFields DEF CloseNext, TypeOK
        <4>2. Len(cleanups) \in 1 .. Len(cleanups)
          BY <4>1, LenProperties, EmptySeq
        <4>3. m \in 0 .. Len(modules)
          BY <4>1, <4>2, ElementOfSeq
        <4> QED
          BY <4>1, <4>3
      <3>2. Push(t, All) \/ Push(t, [op |-> "clean", at |-> "terminate", module |-> m])
        BY <1>8 DEF CloseNext
      <3>3. All \in Frames /\ All.op = "all"
        BY DEF All, Frames, AllFrames
      <3>4. /\ [op |-> "clean", at |-> "terminate", module |-> m] \in Frames
            /\ [op |-> "clean", at |-> "terminate", module |-> m].op = "clean"
        BY <3>1 DEF Frames, CleanFrames
      <3>5. In(t, "close", "pop")
        BY <1>8 DEF CloseNext
      <3> QED
        BY <3>2, <3>3, <3>4, <3>5
    <2>2. PICK f : Push(t, f) /\ f \in Frames /\ f.op \in {"all", "clean"}
      BY <2>1
    <2> PICK n : n = Len(frames[t])
      OBVIOUS
    <2>3. /\ n \in Positions(t) /\ frames[t] # <<>>
          /\ Top(t) = frames[t][n] /\ frames[t][n].op = "close"
      BY <2>1, TopOfCall
    <2>4. n = 1
      BY <2>3 DEF Stacked
    <2> QED
      BY <1>1, <2>2, <2>3, <2>4, StackedPush
  <1>9. ASSUME NEW t \in Threads, LoadLock(t) PROVE Stacked'
    <2> PICK n : n = Len(frames[t])
      OBVIOUS
    <2>1. /\ n \in Positions(t) /\ n \in Positions(t)' /\ Len(frames'[t]) = n /\ Disturbs(t, n)
          /\ frames'[t][n].op = frames[t][n].op
      BY <1>9, WaitsToLoad
    <2> QED
      BY <1>1, <2>1, StackedBecome
  <1>10. ASSUME NEW t \in Threads, LoadConnect(t) PROVE Stacked'
    <2> PICK n : n = Len(frames[t])
      OBVIOUS
    <2>1. /\ n \in Positions(t) /\ n \in Positions(t)' /\ Len(frames'[t]) = n /\ Disturbs(t, n)
          /\ frames'[t][n].op = frames[t][n].op
      BY <1>10, LoadConnects
    <2> QED
      BY <1>1, <2>1, StackedBecome
  <1>11. ASSUME NEW t \in Threads, LoadInitialize(t) PROVE Stacked'
    <2> PICK n : n = Len(frames[t])
      OBVIOUS
    <2>1. CASE Pop(t)
      BY <1>3, <1>11, <2>1 DEF LoadInitialize, In
    <2>2. CASE n \in Positions(t)'
      <3>1. /\ n \in Positions(t) /\ n >= Len(frames'[t]) /\ Disturbs(t, n)
            /\ frames'[t][n].op = frames[t][n].op
        BY <1>11, <2>2, LoadInitializes
      <3>2. Len(frames'[t]) = n
        BY <1>1, <2>2, <3>1, PositionsAfter
      <3> QED
        BY <1>1, <2>2, <3>1, <3>2, StackedBecome
    <2> QED
      BY <1>11, <2>1, <2>2, LoadInitializes
  <1>12. ASSUME NEW t \in Threads, InitializeWorks(t) PROVE Stacked'
    <2> PICK n : n = Len(frames[t])
      OBVIOUS
    <2> PICK m : m = frames[t][n].module
      OBVIOUS
    <2>1. m \in DOMAIN modules
      BY <1>12, TopModule DEF InitializeWorks
    <2>2. /\ n \in Positions(t) /\ n >= Len(frames'[t]) /\ Disturbs(t, n)
          /\ (Pop(t) \/ n \in Positions(t)')
          /\ n \in Positions(t)' => frames'[t][n].op = frames[t][n].op
      BY <1>12, <2>1, InitializeEnds
    <2>3. CASE n \in Positions(t)'
      <3>1. Len(frames'[t]) = n
        BY <1>1, <2>2, <2>3, PositionsAfter
      <3> QED
        BY <1>1, <2>2, <2>3, <3>1, StackedBecome
    <2>4. CASE Pop(t)
      BY <1>3, <1>12, <2>4 DEF InitializeWorks, In
    <2> QED
      BY <2>2, <2>3, <2>4
  <1>13. ASSUME NEW t \in Threads,
                AllLock(t) \/ AllTerminate(t) \/ AllTerminated(t) \/ AllDisconnect(t)
         PROVE  Stacked'
    <2> PICK n : n = Len(frames[t])
      OBVIOUS
    <2>1. /\ n \in Positions(t) /\ n \in Positions(t)' /\ Len(frames'[t]) = n /\ Disturbs(t, n)
          /\ frames'[t][n].op = frames[t][n].op
      BY <1>13, AllLocks, AllTerminates, AllGoesOn, AllDisconnects
    <2> QED
      BY <1>1, <2>1, StackedBecome
  <1>14. ASSUME NEW t \in Threads, CleanTerminate(t) \/ CleanTerminated(t) PROVE Stacked'
    <2> PICK n : n = Len(frames[t])
      OBVIOUS
    <2> PICK m : m = frames[t][n].module
      OBVIOUS
    <2>1. CleanTerminate(t) => m \in DOMAIN modules
      BY TopModule DEF CleanTerminate
    <2>2. /\ n \in Positions(t) /\ n \in Positions(t)' /\ Len(frames'[t]) = n /\ Disturbs(t, n)
          /\ frames'[t][n].op = frames[t][n].op
      BY <1>14, <2>1, CleanTerminates, CleanGoesOn
    <2> QED
      BY <1>1, <2>2, StackedBecome
  <1> QED
    BY <1>2, <1>4, <1>5, <1>6, <1>7, <1>8, <1>9, <1>10, <1>11, <1>12, <1>13, <1>14 DEF Next

-----------------------------------------------------------------------------
(* Loads *)

\* What a load says of its module stays if the frame and the module stay enough.
LEMMA LoadKept ==
    ASSUME NEW u \in Threads, NEW i, LoadOK(u, i), frames'[u][i] = frames[u][i],
           NEW m, m = frames[u][i].module, m \in DOMAIN modules',
           modules'[m].connected, modules'[m].path = modules[m].path,
           modules'[m].locator = modules[m].locator,
           modules[m].life # "up" => modules'[m].life = modules[m].life,
           modules[m].life = "up" => modules'[m].life \in {"up", "down"},
           modules'[m].terminated > 0 => modules'[m].early,
           \A l \in Locators, p \in Paths : registered'[l][p] # m
    PROVE  LoadOK(u, i)'
  <1> PICK f : f = frames[u][i]
    OBVIOUS
  <1>1. /\ modules[m].path = f.path /\ modules[m].locator = f.locator
        /\ f.at \in {"connected", "inside"} => modules[m].life = "new"
        /\ f.at = "add" => modules[m].life \in {"up", "down"}
    BY DEF LoadOK
  <1>2. /\ f.at \in {"connected", "inside"} => modules'[m].life = "new"
        /\ f.at = "add" => modules'[m].life \in {"up", "down"}
    BY <1>1
  <1> QED
    BY <1>1, <1>2 DEF LoadOK

\* A load of a module that does not change.
LEMMA LoadUntouched ==
    ASSUME NEW u \in Threads, NEW i, LoadOK(u, i), frames'[u][i] = frames[u][i],
           NEW k, k = frames[u][i].module, k \in DOMAIN modules', modules'[k] = modules[k],
           \A l \in Locators, p \in Paths : registered'[l][p] # k
    PROVE  LoadOK(u, i)'
  <1> PICK f : f = frames[u][i]
    OBVIOUS
  <1> PICK g : g = modules[k]
    OBVIOUS
  <1>1. /\ g.connected /\ g.path = f.path /\ g.locator = f.locator
        /\ f.at \in {"connected", "inside"} => g.life = "new"
        /\ f.at = "add" => g.life \in {"up", "down"}
        /\ g.terminated > 0 => g.early
    BY DEF LoadOK
  <1>2. frames'[u][i] = f /\ f.module = k /\ modules'[k] = g
    OBVIOUS
  <1> QED
    BY <1>1, <1>2 DEF LoadOK

\* Steps that leave the loads where they are.
LEMMA LoadsStay ==
    ASSUME LoadsOK, SameLoads,
           \A u \in Threads : \A i \in Positions(u) : LoadAt(u, i) => LoadOK(u, i)'
    PROVE  LoadsOK'
  <1>1. ASSUME NEW u \in Threads, NEW i \in Positions(u)', LoadAt(u, i)'
        PROVE  i \in Positions(u) /\ LoadAt(u, i) /\ frames'[u][i] = frames[u][i] /\ LoadOK(u, i)'
    BY <1>1 DEF SameLoads, Kept, LoadAt
  <1>2. OneLoad'
    BY <1>1 DEF OneLoad, LoadsOK
  <1> QED
    BY <1>1, <1>2 DEF LoadsOK

\* Steps of the load at position n of t, which may be over.
LEMMA LoadGoesOn ==
    ASSUME LoadsOK, NEW t \in Threads, NEW n, Disturbs(t, n), n \in Positions(t), LoadAt(t, n),
           n \in Positions(t)' => LoadOK(t, n)' /\ frames'[t][n].module = frames[t][n].module,
           \A u \in Threads : \A i \in Positions(u) :
              LoadAt(u, i) /\ frames[u][i].module # frames[t][n].module
                           /\ frames'[u][i] = frames[u][i]  => LoadOK(u, i)'
    PROVE  LoadsOK'
  <1>1. ASSUME NEW u \in Threads, NEW i \in Positions(u)', LoadAt(u, i)'
        PROVE  /\ i \in Positions(u) /\ LoadAt(u, i)
               /\ frames'[u][i].module = frames[u][i].module /\ LoadOK(u, i)'
    <2>1. CASE u = t /\ i = n
      BY <1>1, <2>1
    <2>2. CASE u # t \/ i # n
      <3>1. i \in Positions(u) /\ frames'[u][i] = frames[u][i]
        BY <1>1, <2>2 DEF Disturbs, Kept
      <3>2. LoadAt(u, i)
        BY <1>1, <3>1 DEF LoadAt
      <3>3. frames[u][i].module # frames[t][n].module
        BY <2>2, <3>1, <3>2 DEF LoadsOK, OneLoad
      <3> QED
        BY <3>1, <3>2, <3>3
    <2> QED
      BY <2>1, <2>2
  <1>2. OneLoad'
    BY <1>1 DEF OneLoad, LoadsOK
  <1> QED
    BY <1>1, <1>2 DEF LoadsOK

\* Terminate of a module marks it if it is being loaded.
LEMMA EntersLoads ==
    ASSUME TypeOK, LoadsOK, SameLoads, UNCHANGED registered,
           NEW t \in Threads, NEW n, NEW m \in Nat, Enters(t, n, m) \/ PassesOver(m)
    PROVE  LoadsOK'
  <1>1. ASSUME NEW u \in Threads, NEW i \in Positions(u), LoadAt(u, i)
        PROVE  LoadOK(u, i)'
    <2> PICK k : k = frames[u][i].module
      OBVIOUS
    <2>a. LoadOK(u, i)
      BY <1>1 DEF LoadsOK
    <2>b. frames'[u][i] = frames[u][i]
      BY <1>1 DEF SameLoads, Kept
    <2>c. /\ k \in DOMAIN modules
          /\ modules[k].connected /\ (modules[k].terminated > 0 => modules[k].early)
          /\ \A l \in Locators, p \in Paths : registered[l][p] # k
      BY <2>a DEF LoadOK
    <2>1. /\ LoadOK(u, i) /\ frames'[u][i] = frames[u][i] /\ k \in DOMAIN modules
          /\ modules[k].connected /\ (modules[k].terminated > 0 => modules[k].early)
          /\ \A l \in Locators, p \in Paths : registered'[l][p] # k
      BY <2>a, <2>b, <2>c
    <2>2. CASE PassesOver(m)
      BY <2>1, <2>2, LoadKept DEF PassesOver
    <2>3. CASE Enters(t, n, m)
      <3>1. /\ m \in DOMAIN modules /\ Terminated(m)
        BY <2>3 DEF Enters
      <3>2. CASE k # m
        <4>1. k \in DOMAIN modules' /\ modules'[k] = modules[k]
          BY <2>1, <3>1, <3>2, TerminatedChanges DEF Changes
        <4> QED
          BY <2>1, <4>1, LoadKept
      <3>3. CASE k = m
        <4>1. Loading(m)
          BY <1>1, <3>3 DEF Loading, FramesOf, LoadAt, Positions
        <4>2. /\ m \in DOMAIN modules' /\ modules'[m].path = modules[m].path
              /\ modules'[m].locator = modules[m].locator
              /\ modules[m].life = "up" => modules'[m].life = "down"
              /\ modules[m].life # "up" => modules'[m].life = modules[m].life
              /\ modules'[m].connected = modules[m].connected
              /\ modules'[m].early
          BY <3>1, <4>1, TerminatedChanges DEF Changes
        <4>3. /\ k \in DOMAIN modules' /\ modules'[k].path = modules[k].path
              /\ modules'[k].locator = modules[k].locator
              /\ modules[k].life = "up" => modules'[k].life \in {"up", "down"}
              /\ modules[k].life # "up" => modules'[k].life = modules[k].life
              /\ modules'[k].connected /\ modules'[k].early
          BY <2>1, <3>3, <4>2
        <4> QED
          BY <2>1, <4>3, LoadKept
      <3> QED
        BY <3>2, <3>3
    <2> QED
      BY <2>2, <2>3
  <1> QED
    BY <1>1, LoadsStay

LEMMA ConnectLoads ==
    ASSUME TypeOK, LoadsOK, NEW t \in Threads, LoadConnect(t)
    PROVE  LoadsOK'
  <1> PICK n : n = Len(frames[t])
    OBVIOUS
  <1> PICK m : m = Len(modules) + 1
    OBVIOUS
  <1>1. /\ Disturbs(t, n) /\ n \in Positions(t)'
        /\ frames'[t][n].op = "load" /\ frames'[t][n].at = "connected"
        /\ frames'[t][n].path = frames[t][n].path
        /\ frames'[t][n].locator = frames[t][n].locator /\ frames'[t][n].module = m
        /\ DOMAIN modules' = 1 .. m
        /\ \A k \in DOMAIN modules : modules'[k] = modules[k]
        /\ UNCHANGED registered
    BY LoadConnects
  <1>2. /\ modules'[m].path = frames[t][n].path /\ modules'[m].locator = frames[t][n].locator
        /\ modules'[m].connected /\ modules'[m].life = "new" /\ modules'[m].terminated = 0
    BY LoadConnects
  <1>3. DOMAIN modules = 1 .. Len(modules) /\ Len(modules) \in Nat
    BY ModuleFields
  <1>4. \A l \in Locators, p \in Paths : registered[l][p] # m
    <2>1. \A l \in Locators, p \in Paths : registered[l][p] \in 0 .. Len(modules)
      BY DEF TypeOK
    <2> QED
      BY <1>3, <2>1
  <1>5. LoadOK(t, n)'
    <2>1. m \in DOMAIN modules' /\ ~(modules'[m].terminated > 0)
      BY <1>1, <1>2, <1>3
    <2> QED
      BY <1>1, <1>2, <1>4, <2>1 DEF LoadOK
  <1>6. ASSUME NEW u \in Threads, NEW i \in Positions(u)', LoadAt(u, i)', u # t \/ i # n
        PROVE  /\ i \in Positions(u) /\ LoadAt(u, i) /\ frames'[u][i] = frames[u][i]
               /\ LoadOK(u, i)' /\ frames[u][i].module # m
    <2> PICK k : k = frames[u][i].module
      OBVIOUS
    <2>1. i \in Positions(u) /\ frames'[u][i] = frames[u][i]
      BY <1>1, <1>6 DEF Disturbs, Kept
    <2>2. LoadAt(u, i)
      BY <1>6, <2>1 DEF LoadAt
    <2>3. LoadOK(u, i)
      BY <2>1, <2>2 DEF LoadsOK
    <2>4. k \in DOMAIN modules /\ \A l \in Locators, p \in Paths : registered[l][p] # k
      BY <2>3 DEF LoadOK
    <2>5. k \in DOMAIN modules' /\ k # m
      BY <1>1, <1>3, <2>4
    <2>6. modules'[k] = modules[k]
      BY <1>1, <2>4
    <2>7. \A l \in Locators, p \in Paths : registered'[l][p] # k
      BY <1>1, <2>4
    <2>8. LoadOK(u, i)'
      BY <2>1, <2>3, <2>5, <2>6, <2>7, LoadUntouched
    <2> QED
      BY <2>1, <2>2, <2>5, <2>8
  <1>7. OneLoad'
    <2> SUFFICES ASSUME NEW u \in Threads, NEW v \in Threads,
                        NEW i \in Positions(u)', NEW j \in Positions(v)',
                        LoadAt(u, i)', LoadAt(v, j)', frames'[u][i].module = frames'[v][j].module
                 PROVE  u = v /\ i = j
      BY DEF OneLoad
    <2>1. CASE u = t /\ i = n
      BY <1>1, <1>6, <2>1
    <2>2. CASE v = t /\ j = n
      BY <1>1, <1>6, <2>2
    <2>3. CASE (u # t \/ i # n) /\ (v # t \/ j # n)
      BY <1>6, <2>3 DEF LoadsOK, OneLoad
    <2> QED
      BY <2>1, <2>2, <2>3
  <1> QED
    BY <1>5, <1>6, <1>7 DEF LoadsOK

LEMMA NextLoadsOK ==
    ASSUME TypeOK, LoadsOK, CleanupsOK, [Next]_vars
    PROVE  LoadsOK'
  <1>1. ASSUME SameLoads, UNCHANGED <<modules, registered>> PROVE LoadsOK'
    <2>1. ASSUME NEW u \in Threads, NEW i \in Positions(u), LoadAt(u, i) PROVE LoadOK(u, i)'
      <3>1. LoadOK(u, i)
        BY <2>1 DEF LoadsOK
      <3>2. frames'[u][i] = frames[u][i]
        BY <1>1, <2>1 DEF SameLoads, Kept
      <3> QED
        BY <1>1, <3>1, <3>2 DEF LoadOK
    <2> QED
      BY <1>1, <2>1, LoadsStay
  <1>2. CASE (\E t \in Threads : QuietStep(t)) \/ UNCHANGED vars
    BY <1>1, <1>2, QuietSteps DEF Quiet
  <1>3. ASSUME NEW t \in Threads, LoadConnect(t) PROVE LoadsOK'
    BY <1>3, ConnectLoads
  <1>4. ASSUME NEW t \in Threads, LoadInitialize(t) PROVE LoadsOK'
    <2> PICK n : n = Len(frames[t])
      OBVIOUS
    <2>1. /\ Disturbs(t, n) /\ n \in Positions(t)
          /\ frames[t][n].op = "load" /\ frames[t][n].at = "connected"
          /\ UNCHANGED <<modules, registered>>
      BY <1>4, LoadInitializes
    <2>2. n \in Positions(t)' =>
            /\ frames'[t][n].at = "inside" /\ frames'[t][n].path = frames[t][n].path
            /\ frames'[t][n].locator = frames[t][n].locator
            /\ frames'[t][n].module = frames[t][n].module
      BY <1>4, LoadInitializes
    <2>3. LoadAt(t, n) /\ LoadOK(t, n)
      BY <2>1 DEF LoadAt, LoadsOK
    <2>4. n \in Positions(t)' => LoadOK(t, n)'
      BY <2>1, <2>2, <2>3 DEF LoadOK
    <2>5. ASSUME NEW u \in Threads, NEW i \in Positions(u),
                 LoadAt(u, i), frames'[u][i] = frames[u][i]
          PROVE  LoadOK(u, i)'
      <3>1. LoadOK(u, i)
        BY <2>5 DEF LoadsOK
      <3> QED
        BY <2>1, <2>5, <3>1 DEF LoadOK
    <2> QED
      BY <2>1, <2>2, <2>3, <2>4, <2>5, LoadGoesOn
  <1>5. ASSUME NEW t \in Threads, InitializeFails(t) \/ InitializeWorks(t) PROVE LoadsOK'
    <2> PICK n : n = Len(frames[t])
      OBVIOUS
    <2> PICK m : m = frames[t][n].module
      OBVIOUS
    <2>1. m \in DOMAIN modules
      BY <1>5, TopModule DEF InitializeFails, InitializeWorks
    <2>2. /\ Disturbs(t, n) /\ n \in Positions(t)
          /\ frames[t][n].op = "load" /\ frames[t][n].at = "inside"
          /\ Changes(m) /\ UNCHANGED registered
          /\ modules'[m].connected = modules[m].connected
          /\ modules'[m].terminated = modules[m].terminated
          /\ modules'[m].early = modules[m].early
      BY <1>5, <2>1, InitializeEnds
    <2>3. n \in Positions(t)' =>
            /\ modules'[m].life = "up" /\ frames'[t][n].at = "add"
            /\ frames'[t][n].path = frames[t][n].path
            /\ frames'[t][n].locator = frames[t][n].locator /\ frames'[t][n].module = m
      BY <1>5, <2>1, InitializeEnds
    <2>4. LoadAt(t, n) /\ LoadOK(t, n)
      BY <2>2 DEF LoadAt, LoadsOK
    <2>5. n \in Positions(t)' => LoadOK(t, n)'
      <3> SUFFICES ASSUME n \in Positions(t)' PROVE LoadOK(t, n)'
        OBVIOUS
      <3>1. /\ modules[m].connected /\ modules[m].path = frames[t][n].path
            /\ modules[m].locator = frames[t][n].locator
            /\ modules[m].terminated > 0 => modules[m].early
            /\ \A l \in Locators, p \in Paths : registered[l][p] # m
        BY <2>4 DEF LoadOK
      <3>2. /\ m \in DOMAIN modules' /\ modules'[m].connected
            /\ modules'[m].path = frames[t][n].path /\ modules'[m].locator = frames[t][n].locator
            /\ modules'[m].terminated > 0 => modules'[m].early
            /\ \A l \in Locators, p \in Paths : registered'[l][p] # m
        BY <2>1, <2>2, <3>1 DEF Changes
      <3> QED
        BY <2>3, <3>2 DEF LoadOK
    <2>6. ASSUME NEW u \in Threads, NEW i \in Positions(u), LoadAt(u, i),
                 frames[u][i].module # m, frames'[u][i] = frames[u][i]
          PROVE  LoadOK(u, i)'
      <3> PICK k : k = frames[u][i].module
        OBVIOUS
      <3>1. LoadOK(u, i)
        BY <2>6 DEF LoadsOK
      <3>2. k \in DOMAIN modules /\ \A l \in Locators, p \in Paths : registered[l][p] # k
        BY <3>1 DEF LoadOK
      <3>3. k \in DOMAIN modules' /\ modules'[k] = modules[k]
        BY <2>2, <2>6, <3>2 DEF Changes
      <3> QED
        BY <2>2, <2>6, <3>1, <3>2, <3>3, LoadUntouched
    <2>7. \A u \in Threads : \A i \in Positions(u) :
             LoadAt(u, i) /\ frames[u][i].module # frames[t][n].module
                          /\ frames'[u][i] = frames[u][i]  => LoadOK(u, i)'
      BY <2>6
    <2>8. n \in Positions(t)' => LoadOK(t, n)' /\ frames'[t][n].module = frames[t][n].module
      BY <2>3, <2>5
    <2> QED
      BY <2>2, <2>4, <2>7, <2>8, LoadGoesOn
  <1>6. ASSUME NEW t \in Threads, LoadAdd(t) PROVE LoadsOK'
    <2> PICK n : n = Len(frames[t])
      OBVIOUS
    <2> PICK m : m = frames[t][n].module
      OBVIOUS
    <2>1. m \in DOMAIN modules
      BY <1>6, TopModule DEF LoadAdd
    <2>2. /\ Disturbs(t, n) /\ n \in Positions(t) /\ n \notin Positions(t)'
          /\ frames[t][n].op = "load" /\ frames[t][n].at = "add" /\ UNCHANGED modules
          /\ \A l \in Locators, p \in Paths :
                registered'[l][p] = registered[l][p] \/ registered'[l][p] = m
      BY <1>6, <2>1, LoadAdds
    <2>3. LoadAt(t, n)
      BY <2>2 DEF LoadAt
    <2>4. ASSUME NEW u \in Threads, NEW i \in Positions(u), LoadAt(u, i),
                 frames[u][i].module # m, frames'[u][i] = frames[u][i]
          PROVE  LoadOK(u, i)'
      <3> PICK k : k = frames[u][i].module
        OBVIOUS
      <3>1. LoadOK(u, i)
        BY <2>4 DEF LoadsOK
      <3>2. k \in DOMAIN modules /\ \A l \in Locators, p \in Paths : registered[l][p] # k
        BY <3>1 DEF LoadOK
      <3>3. k # m
        BY <2>4
      <3>4. \A l \in Locators, p \in Paths : registered'[l][p] # k
        BY <2>2, <3>2, <3>3
      <3> QED
        BY <2>2, <2>4, <3>1, <3>2, <3>4, LoadUntouched
    <2> QED
      BY <2>2, <2>3, <2>4, LoadGoesOn
  <1>7. ASSUME NEW t \in Threads, AllLock(t) \/ AllTerminated(t) \/ AllReturn(t) PROVE LoadsOK'
    BY <1>1, <1>7, AllLocks, AllGoesOn, AllReturns
  <1>8. ASSUME NEW t \in Threads, AllTerminate(t) PROVE LoadsOK'
    <2> PICK n : n = Len(frames[t])
      OBVIOUS
    <2>1. /\ SameLoads /\ UNCHANGED registered
          /\ \E p \in Paths : Enters(t, n, registered["own"][p]) \/ PassesOver(registered["own"][p])
      BY <1>8, AllTerminates
    <2>2. PICK p \in Paths : Enters(t, n, registered["own"][p]) \/ PassesOver(registered["own"][p])
      BY <2>1
    <2>3. registered["own"][p] \in Nat
      BY DEF TypeOK, Locators
    <2> QED
      BY <2>1, <2>2, <2>3, EntersLoads
  <1>9. ASSUME NEW t \in Threads, AllDisconnect(t) PROVE LoadsOK'
    <2> PICK n : n = Len(frames[t])
      OBVIOUS
    <2>1. SameLoads
      BY <1>9, AllDisconnects
    <2>2. PICK p \in Paths :
             /\ registered'["own"][p] = 0
             /\ \A l \in Locators, q \in Paths :
                   l # "own" \/ q # p => registered'[l][q] = registered[l][q]
             /\ \/ (registered["own"][p] = 0 \/ p \in Nested) /\ UNCHANGED modules
                \/ /\ registered["own"][p] \in DOMAIN modules /\ p \notin Nested
                   /\ modules' = [modules EXCEPT ![registered["own"][p]].connected = FALSE]
      BY <1>9, AllDisconnects
    <2>3. ASSUME NEW u \in Threads, NEW i \in Positions(u), LoadAt(u, i) PROVE LoadOK(u, i)'
      <3> PICK k : k = frames[u][i].module
        OBVIOUS
      <3>a. LoadOK(u, i)
        BY <2>3 DEF LoadsOK
      <3>b. frames'[u][i] = frames[u][i]
        BY <2>1, <2>3 DEF SameLoads, Kept
      <3>1. /\ LoadOK(u, i) /\ frames'[u][i] = frames[u][i] /\ k \in DOMAIN modules
            /\ modules[k].connected /\ (modules[k].terminated > 0 => modules[k].early)
            /\ \A l \in Locators, q \in Paths : registered[l][q] # k
        BY <3>a, <3>b DEF LoadOK
      <3>2. k \in DOMAIN modules' /\ modules'[k] = modules[k]
        <4>1. registered["own"][p] # k
          BY <3>1 DEF Locators
        <4> PICK m : m = registered["own"][p]
          OBVIOUS
        <4>2. CASE m \in DOMAIN modules /\ modules' = [modules EXCEPT ![m].connected = FALSE]
          BY <3>1, <4>1, <4>2, DisconnectChanges DEF Changes
        <4> QED
          BY <2>2, <3>1, <4>2
      <3>3. \A l \in Locators, q \in Paths : registered'[l][q] # k
        <4>1. k # 0
          BY <3>1, ModuleFields
        <4> QED
          BY <2>2, <3>1, <4>1
      <3> QED
        BY <3>1, <3>2, <3>3, LoadKept
    <2> QED
      BY <2>1, <2>3, LoadsStay
  <1>10. ASSUME NEW t \in Threads, CloseNext(t) PROVE LoadsOK'
    <2>1. SameLoads /\ UNCHANGED <<modules, registered>>
      BY <1>10, CloseCalls
    <2> QED
      BY <1>1, <2>1
  <1>11. ASSUME NEW t \in Threads, CleanTerminate(t) PROVE LoadsOK'
    <2> PICK n : n = Len(frames[t])
      OBVIOUS
    <2> PICK m : m = frames[t][n].module
      OBVIOUS
    <2>1. m \in DOMAIN modules /\ m \in Nat
      BY <1>11, TopModule, ModuleFields DEF CleanTerminate
    <2>2. SameLoads /\ UNCHANGED registered /\ (Enters(t, n, m) \/ PassesOver(m))
      BY <1>11, <2>1, CleanTerminates
    <2> QED
      BY <2>1, <2>2, EntersLoads
  <1>12. ASSUME NEW t \in Threads, CleanTerminated(t) PROVE LoadsOK'
    BY <1>1, <1>12, CleanGoesOn
  <1>13. ASSUME NEW t \in Threads, CleanDelete(t) PROVE LoadsOK'
    <2> PICK n : n = Len(frames[t])
      OBVIOUS
    <2> PICK m : m = frames[t][n].module
      OBVIOUS
    <2>1. m \in DOMAIN modules
      BY <1>13, TopModule DEF CleanDelete
    <2>2. /\ SameLoads /\ UNCHANGED modules
          /\ \A l \in Locators, p \in Paths :
                registered'[l][p] = registered[l][p] \/ registered'[l][p] = 0
      BY <1>13, <2>1, CleanDeletes
    <2>3. \A k \in DOMAIN modules : k # 0
      BY ModuleFields
    <2>4. ASSUME NEW u \in Threads, NEW i \in Positions(u), LoadAt(u, i) PROVE LoadOK(u, i)'
      <3> PICK k : k = frames[u][i].module
        OBVIOUS
      <3>1. LoadOK(u, i)
        BY <2>4 DEF LoadsOK
      <3>2. k \in DOMAIN modules /\ \A l \in Locators, p \in Paths : registered[l][p] # k
        BY <3>1 DEF LoadOK
      <3>3. frames'[u][i] = frames[u][i]
        BY <2>2, <2>4 DEF SameLoads, Kept
      <3>4. \A l \in Locators, p \in Paths : registered'[l][p] # k
        BY <2>2, <2>3, <3>2
      <3> QED
        BY <2>2, <3>1, <3>2, <3>3, <3>4, LoadUntouched
    <2> QED
      BY <2>2, <2>4, LoadsStay
  <1> QED
    BY <1>2, <1>3, <1>4, <1>5, <1>6, <1>7, <1>8, <1>9, <1>10, <1>11, <1>12, <1>13
       DEF Next, QuietStep

-----------------------------------------------------------------------------
(* Names *)

LEMMA EntersModules ==
    ASSUME TypeOK, NEW t, NEW n, NEW m, Enters(t, n, m) \/ PassesOver(m)
    PROVE  /\ DOMAIN modules' = DOMAIN modules
           /\ \A k \in DOMAIN modules :
                 /\ modules'[k].path = modules[k].path
                 /\ modules'[k].locator = modules[k].locator
                 /\ modules'[k].cleanup = modules[k].cleanup
                 /\ modules'[k].connected = modules[k].connected
                 /\ modules[k].life = "up" => modules'[k].life \in {"up", "down"}
                 /\ modules[k].life # "up" => modules'[k].life = modules[k].life
                 /\ modules[k].early => modules'[k].early
                 /\ Enters(t, n, m) /\ k # m => modules'[k] = modules[k]
                 /\ ~Enters(t, n, m) => modules'[k] = modules[k]
  <1>1. CASE PassesOver(m) /\ ~Enters(t, n, m)
    BY <1>1 DEF PassesOver
  <1>2. CASE Enters(t, n, m)
    <2>1. m \in DOMAIN modules /\ Terminated(m)
      BY <1>2 DEF Enters
    <2>2. /\ Changes(m)
          /\ modules[m].life = "up" => modules'[m].life = "down"
          /\ modules[m].life # "up" => modules'[m].life = modules[m].life
          /\ modules'[m].connected = modules[m].connected
          /\ modules[m].early => modules'[m].early
      BY <2>1, TerminatedChanges
    <2> QED
      BY <1>2, <2>2 DEF Changes
  <1> QED
    BY <1>1, <1>2

\* Steps that give no name.
LEMMA NamesStay ==
    ASSUME TypeOK, NamesOK,
           \A l \in Locators, p \in Paths :
              registered'[l][p] = registered[l][p] \/ registered'[l][p] = 0,
           \A l \in Locators, p \in Paths, k \in DOMAIN modules : registered[l][p] = k =>
              /\ modules'[k].path = modules[k].path
              /\ modules'[k].locator = modules[k].locator
              /\ modules[k].life \in {"up", "down"} => modules'[k].life \in {"up", "down"}
    PROVE  NamesOK'
  <1> SUFFICES ASSUME NEW l \in Locators, NEW p \in Paths, NEW k, k = registered'[l][p], k # 0
               PROVE  /\ modules'[k].locator = l /\ modules'[k].path = p
                      /\ modules'[k].life \in {"up", "down"}
    BY DEF NamesOK
  <1>1. registered[l][p] = k
    OBVIOUS
  <1>2. k \in DOMAIN modules
    BY <1>1, ModuleFields
  <1>3. modules[k].locator = l /\ modules[k].path = p /\ modules[k].life \in {"up", "down"}
    BY <1>1 DEF NamesOK
  <1> QED
    BY <1>1, <1>2, <1>3

LEMMA NextNamesOK ==
    ASSUME TypeOK, LoadsOK, CleanupsOK, NamesOK, [Next]_vars
    PROVE  NamesOK'
  <1>1. ASSUME UNCHANGED <<modules, registered>> PROVE NamesOK'
    BY <1>1 DEF NamesOK
  <1>2. CASE (\E t \in Threads : QuietStep(t)) \/ UNCHANGED vars
    BY <1>1, <1>2, QuietSteps DEF Quiet
  <1>3. ASSUME NEW t \in Threads, LoadConnect(t) PROVE NamesOK'
    <2>1. UNCHANGED registered /\ \A k \in DOMAIN modules : modules'[k] = modules[k]
      BY <1>3, LoadConnects
    <2> QED
      BY <2>1, NamesStay
  <1>4. ASSUME NEW t \in Threads, InitializeFails(t) \/ InitializeWorks(t) PROVE NamesOK'
    <2> PICK n : n = Len(frames[t])
      OBVIOUS
    <2> PICK m : m = frames[t][n].module
      OBVIOUS
    <2>1. m \in DOMAIN modules
      BY <1>4, TopModule DEF InitializeFails, InitializeWorks
    <2>2. /\ n \in Positions(t) /\ frames[t][n].op = "load" /\ frames[t][n].at = "inside"
          /\ Changes(m) /\ UNCHANGED registered
      BY <1>4, <2>1, InitializeEnds
    <2>3. \A l \in Locators, p \in Paths : registered[l][p] # m
      BY <2>2 DEF LoadsOK, LoadOK, LoadAt
    <2> QED
      BY <2>2, <2>3, NamesStay DEF Changes
  <1>5. ASSUME NEW t \in Threads, LoadAdd(t) PROVE NamesOK'
    <2> PICK n : n = Len(frames[t])
      OBVIOUS
    <2> PICK m : m = frames[t][n].module
      OBVIOUS
    <2>1. m \in DOMAIN modules
      BY <1>5, TopModule DEF LoadAdd
    <2>2. /\ n \in Positions(t) /\ frames[t][n].op = "load" /\ frames[t][n].at = "add"
          /\ UNCHANGED modules
          /\ \A l \in Locators, p \in Paths : registered'[l][p] # registered[l][p] =>
                /\ l = frames[t][n].locator /\ p = frames[t][n].path
                /\ registered[l][p] = 0 /\ registered'[l][p] = m
      BY <1>5, <2>1, LoadAdds
    <2>3. /\ modules[m].path = frames[t][n].path /\ modules[m].locator = frames[t][n].locator
          /\ modules[m].life \in {"up", "down"}
      BY <2>2 DEF LoadsOK, LoadOK, LoadAt
    <2> SUFFICES ASSUME NEW l \in Locators, NEW p \in Paths, NEW k, k = registered'[l][p], k # 0
                 PROVE  /\ modules[k].locator = l /\ modules[k].path = p
                        /\ modules[k].life \in {"up", "down"}
      BY <2>2 DEF NamesOK
    <2>4. CASE registered[l][p] = k
      BY <2>4 DEF NamesOK
    <2> QED
      BY <2>2, <2>3, <2>4
  <1>6. ASSUME NEW t \in Threads,
               \/ LoadInitialize(t) \/ AllLock(t) \/ AllTerminated(t) \/ AllReturn(t)
               \/ CleanTerminated(t)
        PROVE  NamesOK'
    <2>1. UNCHANGED <<modules, registered>>
      BY <1>6, LoadInitializes, AllLocks, AllGoesOn, AllReturns, CleanGoesOn
    <2> QED
      BY <1>1, <2>1
  <1>7. ASSUME NEW t, NEW n, NEW m, Enters(t, n, m) \/ PassesOver(m), UNCHANGED registered
        PROVE  NamesOK'
    <2>1. \A k \in DOMAIN modules :
             /\ modules'[k].path = modules[k].path
             /\ modules'[k].locator = modules[k].locator
             /\ modules[k].life \in {"up", "down"} => modules'[k].life \in {"up", "down"}
      BY <1>7, EntersModules
    <2> QED
      BY <1>7, <2>1, NamesStay
  <1>8. ASSUME NEW t \in Threads, AllTerminate(t) PROVE NamesOK'
    <2> PICK n : n = Len(frames[t])
      OBVIOUS
    <2>1. /\ UNCHANGED registered
          /\ \E p \in Paths : Enters(t, n, registered["own"][p]) \/ PassesOver(registered["own"][p])
      BY <1>8, AllTerminates
    <2>2. PICK p \in Paths : Enters(t, n, registered["own"][p]) \/ PassesOver(registered["own"][p])
      BY <2>1
    <2> PICK m : m = registered["own"][p]
      OBVIOUS
    <2> QED
      BY <1>7, <2>1, <2>2
  <1>9. ASSUME NEW t \in Threads, AllDisconnect(t) PROVE NamesOK'
    <2> PICK n : n = Len(frames[t])
      OBVIOUS
    <2>1. PICK p \in Paths :
             /\ registered'["own"][p] = 0
             /\ \A l \in Locators, q \in Paths :
                   l # "own" \/ q # p => registered'[l][q] = registered[l][q]
             /\ \/ (registered["own"][p] = 0 \/ p \in Nested) /\ UNCHANGED modules
                \/ /\ registered["own"][p] \in DOMAIN modules /\ p \notin Nested
                   /\ modules' = [modules EXCEPT ![registered["own"][p]].connected = FALSE]
      BY <1>9, AllDisconnects
    <2>2. \A l \in Locators, q \in Paths :
             registered'[l][q] = registered[l][q] \/ registered'[l][q] = 0
      BY <2>1
    <2> PICK m : m = registered["own"][p]
      OBVIOUS
    <2>3. \A k \in DOMAIN modules :
             /\ modules'[k].path = modules[k].path
             /\ modules'[k].locator = modules[k].locator
             /\ modules'[k].life = modules[k].life
      <3>1. CASE m \in DOMAIN modules /\ modules' = [modules EXCEPT ![m].connected = FALSE]
        BY <3>1, DisconnectChanges DEF Changes
      <3> QED
        BY <2>1, <3>1
    <2> QED
      BY <2>2, <2>3, NamesStay
  <1>10. ASSUME NEW t \in Threads, CloseNext(t) PROVE NamesOK'
    <2>1. UNCHANGED <<modules, registered>>
      BY <1>10, CloseCalls
    <2> QED
      BY <1>1, <2>1
  <1>11. ASSUME NEW t \in Threads, CleanTerminate(t) PROVE NamesOK'
    <2> PICK n : n = Len(frames[t])
      OBVIOUS
    <2> PICK m : m = frames[t][n].module
      OBVIOUS
    <2>1. m \in DOMAIN modules
      BY <1>11, TopModule DEF CleanTerminate
    <2>2. UNCHANGED registered /\ (Enters(t, n, m) \/ PassesOver(m))
      BY <1>11, <2>1, CleanTerminates
    <2> QED
      BY <1>7, <2>2
  <1>12. ASSUME NEW t \in Threads, CleanDelete(t) PROVE NamesOK'
    <2> PICK n : n = Len(frames[t])
      OBVIOUS
    <2> PICK m : m = frames[t][n].module
      OBVIOUS
    <2>1. m \in DOMAIN modules
      BY <1>12, TopModule DEF CleanDelete
    <2>2. /\ UNCHANGED modules
          /\ \A l \in Locators, p \in Paths :
                registered'[l][p] = registered[l][p] \/ registered'[l][p] = 0
      BY <1>12, <2>1, CleanDeletes
    <2> QED
      BY <2>2, NamesStay
  <1> QED
    BY <1>2, <1>3, <1>4, <1>5, <1>6, <1>8, <1>9, <1>10, <1>11, <1>12 DEF Next, QuietStep

-----------------------------------------------------------------------------
(* The manager's lock *)

\* The frames behind the predicates of the specification.
LEMMA ReadingIs == \A t \in Threads : Reading(t) <=> \E i \in Positions(t) : AllAt(t, i)
  BY DEF Reading, FramesOf, Positions, AllAt

LEMMA ReadingWillBe ==
    \A t \in Threads : Reading(t)' <=> \E i \in Positions(t)' : AllAt(t, i)'
  BY DEF Reading, FramesOf, Positions, AllAt

LEMMA WritingIs == \A t \in Threads : \A i \in Positions(t) : LoadAt(t, i) => Writing(t)
  BY DEF Writing, FramesOf, Positions, LoadAt

\* Steps that take no guard and connect nothing.
LEMMA LocksStay ==
    ASSUME LocksOK, NoNewWrite,
           \A u \in Threads : \A i \in Positions(u)' : LoadAt(u, i)' =>
              i \in Positions(u) /\ LoadAt(u, i),
           \A u \in Threads : \A i \in Positions(u)' : AllAt(u, i)' =>
              i \in Positions(u) /\ AllAt(u, i)
    PROVE  LocksOK'
  <1>1. \A u \in Threads : Reading(u)' => Reading(u)
    BY ReadingIs, ReadingWillBe
  <1>2. ASSUME NEW t \in Threads, NEW u \in Threads, Writing(t)', Writing(u)' PROVE t = u
    BY <1>2 DEF NoNewWrite, LocksOK
  <1>3. ASSUME NEW t \in Threads, Reading(t)', NEW u \in Threads, NEW j \in Positions(u)'
        PROVE  ~LoadAt(u, j)'
    <2>1. Reading(t)
      BY <1>1, <1>3
    <2>2. \A i \in Positions(u) : ~LoadAt(u, i)
      BY <2>1 DEF LocksOK
    <2> QED
      BY <2>2
  <1> QED
    BY <1>2, <1>3 DEF LocksOK

LEMMA SameOnes ==
    /\ SameLoads => \A u \in Threads : \A i \in Positions(u)' : LoadAt(u, i)' =>
                       i \in Positions(u) /\ LoadAt(u, i)
    /\ SameAlls => \A u \in Threads : \A i \in Positions(u)' : AllAt(u, i)' =>
                       i \in Positions(u) /\ AllAt(u, i)
  BY DEF SameLoads, SameAlls, Kept, LoadAt, AllAt

\* One position changes, and the frame there was of the kind before.
LEMMA LoadOnes ==
    ASSUME NEW t \in Threads, NEW n, Disturbs(t, n), n \in Positions(t), LoadAt(t, n)
    PROVE  /\ NoNewWrite
           /\ \A u \in Threads : \A i \in Positions(u)' : LoadAt(u, i)' =>
                 i \in Positions(u) /\ LoadAt(u, i)
  <1>1. WriteAt(t, n)
    BY DEF LoadAt, WriteAt
  <1>2. NoNewWrite
    BY <1>1, NoWriteIfOther
  <1> QED
    BY <1>2 DEF Disturbs, Kept, LoadAt

LEMMA AllOnes ==
    ASSUME NEW t \in Threads, NEW n, Disturbs(t, n), n \in Positions(t), AllAt(t, n),
           n \in Positions(t)' => frames'[t][n].op # "load"
    PROVE  /\ NoNewWrite
           /\ \A u \in Threads : \A i \in Positions(u)' : AllAt(u, i)' =>
                 i \in Positions(u) /\ AllAt(u, i)
  <1>1. n \in Positions(t)' => ~WriteAt(t, n)'
    BY DEF WriteAt
  <1>2. NoNewWrite
    BY <1>1, NoWriteIfOther
  <1> QED
    BY <1>2 DEF Disturbs, Kept, AllAt

LEMMA NextLocksOK ==
    ASSUME TypeOK, Stacked, LoadsOK, CleanupsOK, LocksOK, [Next]_vars
    PROVE  LocksOK'
  <1>1. CASE UNCHANGED vars
    BY <1>1 DEF vars, LocksOK, Writing, Reading, FramesOf, Positions, LoadAt
  <1>2. ASSUME NEW t \in Threads, NoNewWrite, Quiet PROVE LocksOK'
    BY <1>2, SameOnes, LocksStay DEF Quiet
  <1>3. ASSUME NEW t \in Threads, QuietStep(t) PROVE LocksOK'
    <2>1. CASE LoadLock(t)
      <3> PICK n : n = Len(frames[t])
        OBVIOUS
      <3>1. Quiet /\ Disturbs(t, n) /\ CsWriteFree(t)
        BY <2>1, WaitsToLoad
      <3>2. ASSUME NEW u \in Threads, u # t PROVE Writing(u)' => Writing(u)
        BY <3>1, <3>2 DEF Disturbs, Kept, Writing, FramesOf, Positions
      <3>3. \A u \in Threads : Writing(u)' => u = t
        BY <3>1, <3>2 DEF CsWriteFree
      <3>4. \A u, v \in Threads : Writing(u)' /\ Writing(v)' => u = v
        BY <3>3
      <3>5. ASSUME NEW u \in Threads, Reading(u)', NEW v \in Threads, NEW j \in Positions(v)'
            PROVE  ~LoadAt(v, j)'
        <4>1. Reading(u)
          BY <3>1, <3>5, SameOnes, ReadingIs, ReadingWillBe DEF Quiet
        <4>2. \A i \in Positions(v) : ~LoadAt(v, i)
          BY <4>1 DEF LocksOK
        <4> QED
          BY <3>1, <4>2, SameOnes DEF Quiet
      <3> QED
        BY <3>4, <3>5 DEF LocksOK
    <2>2. CASE LoadModule(t)
      BY <1>2, <2>2, CallsLoad
    <2>3. CASE FindModule(t) \/ TerminateAllPlugins(t) \/ TerminateVEILSystem(t)
      BY <1>2, <2>3, CallsOther
    <2>4. CASE LoadNothing(t) \/ FindReturn(t) \/ CloseReturn(t)
      BY <1>2, <2>4, ReturnsFromOther
    <2> QED
      BY <1>3, <2>1, <2>2, <2>3, <2>4 DEF QuietStep
  <1>4. ASSUME NEW t \in Threads, LoadConnect(t) PROVE LocksOK'
    <2> PICK n : n = Len(frames[t])
      OBVIOUS
    <2>1. /\ SameAlls /\ Disturbs(t, n) /\ n \in Positions(t)
          /\ frames[t][n].op = "load" /\ frames[t][n].at = "wait"
      BY <1>4, LoadConnects
    <2>2. NoNewWrite
      <3>1. WriteAt(t, n)
        BY <2>1 DEF WriteAt
      <3> QED
        BY <2>1, <3>1, NoWriteIfOther
    <2>3. NobodyReads
      BY <1>4 DEF LoadConnect
    <2>4. \A u \in Threads : ~Reading(u)'
      BY <2>1, <2>3, SameOnes, ReadingIs, ReadingWillBe DEF NobodyReads
    <2> QED
      BY <2>2, <2>4 DEF NoNewWrite, LocksOK
  <1>5. ASSUME NEW t \in Threads,
               \/ LoadInitialize(t) \/ InitializeFails(t) \/ InitializeWorks(t) \/ LoadAdd(t)
        PROVE  LocksOK'
    <2> PICK n : n = Len(frames[t])
      OBVIOUS
    <2> PICK m : m = frames[t][n].module
      OBVIOUS
    <2>1. m \in DOMAIN modules
      BY <1>5, TopModule
         DEF LoadInitialize, InitializeFails, InitializeWorks, LoadAdd
    <2>2. SameAlls /\ Disturbs(t, n) /\ n \in Positions(t) /\ LoadAt(t, n)
      BY <1>5, <2>1, LoadInitializes, InitializeEnds, LoadAdds DEF LoadAt
    <2> QED
      BY <2>2, LoadOnes, SameOnes, LocksStay
  <1>6. ASSUME NEW t \in Threads, AllLock(t) PROVE LocksOK'
    <2> PICK n : n = Len(frames[t])
      OBVIOUS
    <2>1. /\ SameLoads /\ Disturbs(t, n) /\ n \in Positions(t) /\ n \in Positions(t)'
          /\ frames[t][n].op = "all" /\ frames'[t][n].op = "all" /\ CsWriteFree(t)
      BY <1>6, AllLocks
    <2>2. NoNewWrite
      <3>1. ~WriteAt(t, n)'
        BY <2>1 DEF WriteAt
      <3> QED
        BY <2>1, <3>1, NoWriteIfOther
    <2>3. \A i \in Positions(t) : ~LoadAt(t, i)
      <3>1. Positions(t) = 1 .. n /\ n \in Nat
        BY PositionsBefore DEF TypeOK, StacksOK
      <3>2. n = 1 \/ (n = 2 /\ frames[t][1].op = "close")
        BY <2>1 DEF Stacked
      <3> QED
        BY <2>1, <3>1, <3>2 DEF LoadAt
    <2>4. \A u \in Threads : \A i \in Positions(u) : ~LoadAt(u, i)
      BY <2>1, <2>3, WritingIs DEF CsWriteFree
    <2>5. \A u \in Threads : \A i \in Positions(u)' : ~LoadAt(u, i)'
      BY <2>1, <2>4, SameOnes
    <2> QED
      BY <2>2, <2>5 DEF NoNewWrite, LocksOK
  <1>7. ASSUME NEW t \in Threads,
               AllTerminate(t) \/ AllTerminated(t) \/ AllDisconnect(t) \/ AllReturn(t)
        PROVE  LocksOK'
    <2> PICK n : n = Len(frames[t])
      OBVIOUS
    <2>1. /\ SameLoads /\ Disturbs(t, n) /\ n \in Positions(t) /\ AllAt(t, n)
          /\ n \in Positions(t)' => frames'[t][n].op # "load"
      BY <1>7, AllTerminates, AllGoesOn, AllDisconnects, AllReturns DEF AllAt
    <2> QED
      BY <2>1, AllOnes, SameOnes, LocksStay
  <1>8. ASSUME NEW t \in Threads, CloseNext(t) PROVE LocksOK'
    <2> PICK n : n = Len(frames[t]) + 1
      OBVIOUS
    <2>1. SameLoads /\ SameAlls /\ Disturbs(t, n)
      BY <1>8, CloseCalls
    <2>2. n \in Positions(t)' => ~WriteAt(t, n)'
      <3>1. CASE CleanStarts(t, n)
        BY <3>1 DEF CleanStarts, WriteAt
      <3>2. CASE cleanups[Len(cleanups)] = 0
        <4>1. Push(t, All) /\ StacksOK
          BY <1>8, <3>2 DEF CloseNext, TypeOK, StacksOK
        <4>2. All \in Frames /\ All.op = "all"
          BY DEF All, Frames, AllFrames
        <4>3. frames'[t][n] = All
          BY <4>1, <4>2, Pushed
        <4> QED
          BY <4>2, <4>3 DEF WriteAt
      <3> QED
        BY <1>8, <3>1, <3>2, CloseCalls
    <2>3. NoNewWrite
      BY <2>1, <2>2, NoWriteIfOther
    <2> QED
      BY <2>1, <2>3, SameOnes, LocksStay
  <1>9. ASSUME NEW t \in Threads, CleanTerminate(t) \/ CleanTerminated(t) \/ CleanDelete(t)
        PROVE  LocksOK'
    <2> PICK n : n = Len(frames[t])
      OBVIOUS
    <2> PICK m : m = frames[t][n].module
      OBVIOUS
    <2>1. m \in DOMAIN modules \/ CleanTerminated(t)
      BY <1>9, TopModule DEF CleanTerminate, CleanDelete
    <2>2. /\ SameLoads /\ SameAlls /\ Disturbs(t, n)
          /\ n \in Positions(t)' => frames'[t][n].op = "clean"
      BY <1>9, <2>1, CleanTerminates, CleanGoesOn, CleanDeletes
    <2>3. NoNewWrite
      BY <2>2, NoWriteIfOther DEF WriteAt
    <2> QED
      BY <2>2, <2>3, SameOnes, LocksStay
  <1> QED
    BY <1>1, <1>3, <1>4, <1>5, <1>6, <1>7, <1>8, <1>9 DEF Next, QuietStep

-----------------------------------------------------------------------------
(* TerminateAllPlugins *)

\* Steps that bring nothing up under the names of a TerminateAllPlugins.
LEMMA AllsStay ==
    ASSUME TypeOK, AllOK, NEW t \in Threads, NEW n, Disturbs(t, n),
           DOMAIN modules \subseteq DOMAIN modules',
           \A p \in Paths : \/ registered'["own"][p] = 0
                            \/ registered'["own"][p] = registered["own"][p],
           \A k \in DOMAIN modules : modules[k].life # "up" => modules'[k].life # "up",
           n \in Positions(t)' /\ AllAt(t, n)' => AllGood(t, n)'
    PROVE  AllOK'
  <1> SUFFICES ASSUME NEW u \in Threads, NEW i \in Positions(u)', AllAt(u, i)', u # t \/ i # n
               PROVE  AllGood(u, i)'
    BY DEF AllOK
  <1>1. i \in Positions(u) /\ frames'[u][i] = frames[u][i]
    BY DEF Disturbs, Kept
  <1> PICK f : f = frames[u][i]
    OBVIOUS
  <1>2. AllGood(u, i) /\ f \in Frames /\ f.op = "all"
    <2>1. AllAt(u, i)
      BY <1>1 DEF AllAt
    <2>2. StacksOK
      BY DEF TypeOK, StacksOK
    <2> QED
      BY <1>1, <2>1, <2>2, StackTypes DEF AllOK, AllAt
  <1>3. ASSUME NEW p \in (f.names \ Nested) \ f.left, NEW k, k = registered'["own"][p], k # 0
        PROVE  modules'[k].life # "up"
    <2>1. p \in Paths
      BY <1>2, FrameFields
    <2>2. k = registered["own"][p] /\ k \in DOMAIN modules
      BY <1>3, <2>1, ModuleFields DEF Locators
    <2>3. modules[k].life # "up"
      BY <1>2, <1>3, <2>2 DEF AllGood
    <2> QED
      BY <2>2, <2>3
  <1> QED
    BY <1>1, <1>2, <1>3 DEF AllGood

LEMMA NextAllOK ==
    ASSUME TypeOK, LoadsOK, CleanupsOK, LocksOK, NamesOK, AllOK, DisconnectedIsDown,
           [Next]_vars
    PROVE  AllOK'
  <1>1. ASSUME SameAlls, UNCHANGED <<modules, registered>> PROVE AllOK'
    BY <1>1 DEF SameAlls, Kept, AllOK, AllGood, AllAt
  <1>2. CASE (\E t \in Threads : QuietStep(t)) \/ UNCHANGED vars
    BY <1>1, <1>2, QuietSteps DEF Quiet
  <1>3. ASSUME SameAlls, \A u \in Threads : ~Reading(u) PROVE AllOK'
    BY <1>3, SameOnes, ReadingIs DEF AllOK
  <1>4. ASSUME NEW t \in Threads, LoadConnect(t) PROVE AllOK'
    <2>1. SameAlls
      BY <1>4, LoadConnects
    <2>2. \A u \in Threads : ~Reading(u)
      BY <1>4 DEF LoadConnect, NobodyReads
    <2> QED
      BY <1>3, <2>1, <2>2
  <1>5. ASSUME NEW t \in Threads, InitializeFails(t) \/ InitializeWorks(t) \/ LoadAdd(t)
        PROVE  AllOK'
    <2> PICK n : n = Len(frames[t])
      OBVIOUS
    <2> PICK m : m = frames[t][n].module
      OBVIOUS
    <2>1. m \in DOMAIN modules
      BY <1>5, TopModule DEF InitializeFails, InitializeWorks, LoadAdd
    <2>2. SameAlls /\ n \in Positions(t) /\ LoadAt(t, n)
      BY <1>5, <2>1, InitializeEnds, LoadAdds DEF LoadAt
    <2>3. \A u \in Threads : ~Reading(u)
      BY <2>2 DEF LocksOK
    <2> QED
      BY <1>3, <2>2, <2>3
  <1>6. ASSUME NEW t \in Threads, LoadInitialize(t) PROVE AllOK'
    BY <1>1, <1>6, LoadInitializes
  <1>7. ASSUME NEW t \in Threads, AllLock(t) PROVE AllOK'
    <2> PICK n : n = Len(frames[t])
      OBVIOUS
    <2>1. /\ Disturbs(t, n) /\ UNCHANGED <<modules, registered>>
          /\ frames'[t][n].at = "next" /\ frames'[t][n].left = frames'[t][n].names \ Nested
      BY <1>7, AllLocks
    <2>2. AllGood(t, n)'
      BY <2>1 DEF AllGood
    <2> QED
      BY <2>1, <2>2, AllsStay
  <1>8. ASSUME NEW t \in Threads, AllTerminate(t) PROVE AllOK'
    <2> PICK n : n = Len(frames[t])
      OBVIOUS
    <2>1. /\ Disturbs(t, n) /\ n \in Positions(t)
          /\ frames[t][n].op = "all" /\ frames[t][n].at = "next"
          /\ frames'[t][n].names = frames[t][n].names /\ UNCHANGED registered
      BY <1>8, AllTerminates
    <2>2. PICK p \in Paths :
             /\ frames'[t][n].left = frames[t][n].left \ {p}
             /\ \/ Enters(t, n, registered["own"][p])
                \/ frames'[t][n].at = "next" /\ PassesOver(registered["own"][p])
      BY <1>8, AllTerminates
    <2> PICK m : m = registered["own"][p]
      OBVIOUS
    <2>3. /\ DOMAIN modules' = DOMAIN modules
          /\ \A k \in DOMAIN modules : modules[k].life # "up" => modules'[k].life # "up"
      BY <2>2, EntersModules
    <2>4. AllGood(t, n)
      BY <2>1 DEF AllOK, AllAt
    <2>5. m # 0 => m \in DOMAIN modules /\ modules'[m].life # "up"
      <3>1. m # 0 => m \in DOMAIN modules
        BY ModuleFields DEF Locators
      <3>2. CASE Enters(t, n, m)
        BY <3>1, <3>2, TerminatedChanges DEF Enters
      <3>3. CASE PassesOver(m)
        BY <3>1, <3>3 DEF PassesOver, DisconnectedIsDown
      <3> QED
        BY <2>2, <3>2, <3>3
    <2>6. frames'[t][n].at = "inside" => frames'[t][n].module \in DOMAIN modules'
      BY <2>2, <2>3, <2>5 DEF Enters
    <2>7. frames[t][n].names \subseteq Paths
      <3>1. StacksOK
        BY DEF TypeOK, StacksOK
      <3> QED
        BY <2>1, <3>1, StackTypes, FrameFields
    <2>8. ASSUME NEW q \in (frames'[t][n].names \ Nested) \ frames'[t][n].left,
                 NEW k, k = registered'["own"][q], k # 0
          PROVE  modules'[k].life # "up"
      <3>1. CASE q = p
        BY <2>1, <2>5, <2>8, <3>1
      <3>2. CASE q # p
        <4>1. q \in (frames[t][n].names \ Nested) \ frames[t][n].left /\ q \in Paths
          BY <2>1, <2>2, <2>7, <2>8, <3>2
        <4>2. k \in DOMAIN modules
          BY <2>1, <2>8, <4>1, ModuleFields DEF Locators
        <4>3. modules[k].life # "up"
          BY <2>1, <2>4, <2>8, <4>1 DEF AllGood
        <4> QED
          BY <2>3, <4>2, <4>3
      <3> QED
        BY <3>1, <3>2
    <2>9. AllGood(t, n)'
      <3>1. frames'[t][n].left \subseteq frames'[t][n].names \ Nested
        BY <2>1, <2>2, <2>4 DEF AllGood
      <3> QED
        BY <2>6, <2>8, <3>1 DEF AllGood
    <2> QED
      BY <2>1, <2>3, <2>9, AllsStay
  <1>9. ASSUME NEW t \in Threads, AllTerminated(t) PROVE AllOK'
    <2> PICK n : n = Len(frames[t])
      OBVIOUS
    <2>1. /\ Disturbs(t, n) /\ n \in Positions(t) /\ UNCHANGED <<modules, registered>>
          /\ frames[t][n].op = "all" /\ frames[t][n].at = "inside"
          /\ frames'[t][n].at = "next" /\ frames'[t][n].left = frames[t][n].left
          /\ frames'[t][n].names = frames[t][n].names
      BY <1>9, AllGoesOn
    <2>2. AllGood(t, n)
      BY <2>1 DEF AllOK, AllAt
    <2>3. AllGood(t, n)'
      BY <2>1, <2>2 DEF AllGood
    <2> QED
      BY <2>1, <2>3, AllsStay
  <1>10. ASSUME NEW t \in Threads, AllDisconnect(t) PROVE AllOK'
    <2> PICK n : n = Len(frames[t])
      OBVIOUS
    <2>1. /\ Disturbs(t, n) /\ n \in Positions(t)
          /\ frames[t][n].op = "all" /\ frames[t][n].at = "next" /\ frames[t][n].left = {}
          /\ frames'[t][n].at = "next" /\ frames'[t][n].left = {}
      BY <1>10, AllDisconnects
    <2>2. PICK p \in Paths :
             /\ frames'[t][n].names = frames[t][n].names \ {p}
             /\ registered'["own"][p] = 0
             /\ \A l \in Locators, q \in Paths :
                   l # "own" \/ q # p => registered'[l][q] = registered[l][q]
             /\ \/ (registered["own"][p] = 0 \/ p \in Nested) /\ UNCHANGED modules
                \/ /\ registered["own"][p] \in DOMAIN modules /\ p \notin Nested
                   /\ modules' = [modules EXCEPT ![registered["own"][p]].connected = FALSE]
      BY <1>10, AllDisconnects
    <2> PICK m : m = registered["own"][p]
      OBVIOUS
    <2>3. /\ DOMAIN modules' = DOMAIN modules
          /\ \A k \in DOMAIN modules : modules'[k].life = modules[k].life
      <3>1. CASE m \in DOMAIN modules /\ modules' = [modules EXCEPT ![m].connected = FALSE]
        BY <3>1, DisconnectChanges DEF Changes
      <3> QED
        BY <2>2, <3>1
    <2>4. AllGood(t, n)
      BY <2>1 DEF AllOK, AllAt
    <2>5. frames[t][n].names \subseteq Paths
      <3>1. StacksOK
        BY DEF TypeOK, StacksOK
      <3> QED
        BY <2>1, <3>1, StackTypes, FrameFields
    <2>6. \A q \in Paths : \/ registered'["own"][q] = 0
                           \/ registered'["own"][q] = registered["own"][q]
      BY <2>2 DEF Locators
    <2>7. ASSUME NEW q \in frames'[t][n].names \ Nested, NEW k, k = registered'["own"][q], k # 0
          PROVE  modules'[k].life # "up"
      <3>1. q \in frames[t][n].names \ Nested /\ q \in Paths /\ k = registered["own"][q]
        BY <2>2, <2>5, <2>6, <2>7
      <3>2. k \in DOMAIN modules
        BY <2>7, <3>1, ModuleFields DEF Locators
      <3>3. modules[k].life # "up"
        BY <2>1, <2>4, <2>7, <3>1 DEF AllGood
      <3> QED
        BY <2>3, <3>2, <3>3
    <2>8. AllGood(t, n)'
      BY <2>1, <2>7 DEF AllGood
    <2> QED
      BY <2>1, <2>3, <2>6, <2>8, AllsStay
  <1>11. ASSUME NEW t \in Threads, AllReturn(t) PROVE AllOK'
    <2> PICK n : n = Len(frames[t])
      OBVIOUS
    <2>1. Disturbs(t, n) /\ n \notin Positions(t)' /\ UNCHANGED <<modules, registered>>
      BY <1>11, AllReturns
    <2> QED
      BY <2>1, AllsStay
  <1>12. ASSUME NEW t \in Threads, CloseNext(t) PROVE AllOK'
    <2>1. SameAlls /\ UNCHANGED <<modules, registered>>
      BY <1>12, CloseCalls
    <2> QED
      BY <1>1, <2>1
  <1>13. ASSUME NEW t \in Threads, CleanTerminate(t) PROVE AllOK'
    <2> PICK n : n = Len(frames[t])
      OBVIOUS
    <2> PICK m : m = frames[t][n].module
      OBVIOUS
    <2>1. m \in DOMAIN modules
      BY <1>13, TopModule DEF CleanTerminate
    <2>2. /\ Disturbs(t, n) /\ UNCHANGED registered /\ (Enters(t, n, m) \/ PassesOver(m))
          /\ frames'[t][n].op = "clean"
      BY <1>13, <2>1, CleanTerminates
    <2>3. /\ DOMAIN modules' = DOMAIN modules
          /\ \A k \in DOMAIN modules : modules[k].life # "up" => modules'[k].life # "up"
      BY <2>2, EntersModules
    <2> QED
      BY <2>2, <2>3, AllsStay DEF AllAt
  <1>14. ASSUME NEW t \in Threads, CleanTerminated(t) PROVE AllOK'
    BY <1>1, <1>14, CleanGoesOn
  <1>15. ASSUME NEW t \in Threads, CleanDelete(t) PROVE AllOK'
    <2> PICK n : n = Len(frames[t])
      OBVIOUS
    <2> PICK m : m = frames[t][n].module
      OBVIOUS
    <2>1. m \in DOMAIN modules
      BY <1>15, TopModule DEF CleanDelete
    <2>2. /\ Disturbs(t, n) /\ n \notin Positions(t)' /\ UNCHANGED modules
          /\ \A l \in Locators, p \in Paths :
                registered'[l][p] = registered[l][p] \/ registered'[l][p] = 0
      BY <1>15, <2>1, CleanDeletes
    <2> QED
      BY <2>2, AllsStay DEF Locators
  <1> QED
    BY <1>2, <1>4, <1>5, <1>6, <1>7, <1>8, <1>9, <1>10, <1>11, <1>12, <1>13, <1>14, <1>15
       DEF Next, QuietStep

-----------------------------------------------------------------------------
(* Cleanups *)

\* The modules that were connected stay, and so do most of the cleanups.
LEMMA ModulesStay ==
    ASSUME TypeOK, LoadsOK, CleanupsOK, [Next]_vars
    PROVE  /\ \A k \in DOMAIN modules :
                 /\ k \in DOMAIN modules'
                 /\ modules'[k].path = modules[k].path
                 /\ modules'[k].locator = modules[k].locator
                 /\ modules'[k].cleanup = modules[k].cleanup
                 /\ modules[k].early => modules'[k].early
           /\ overlapped => overlapped'
           /\ \/ UNCHANGED cleanups
              \/ \E t \in Threads : LoadConnect(t) \/ CloseNext(t)
  <1> DEFINE Stay == \A k \in DOMAIN modules :
                        /\ k \in DOMAIN modules'
                        /\ modules'[k].path = modules[k].path
                        /\ modules'[k].locator = modules[k].locator
                        /\ modules'[k].cleanup = modules[k].cleanup
                        /\ modules[k].early => modules'[k].early
  <1>1. CASE (\E t \in Threads : QuietStep(t)) \/ UNCHANGED vars
    BY <1>1, QuietSteps DEF Quiet
  <1>2. ASSUME NEW t \in Threads, LoadConnect(t)
        PROVE  Stay /\ UNCHANGED overlapped
    <2> PICK n : n = Len(frames[t])
      OBVIOUS
    <2>1. /\ DOMAIN modules' = 1 .. Len(modules) + 1 /\ UNCHANGED overlapped
          /\ \A k \in DOMAIN modules : modules'[k] = modules[k]
      BY <1>2, LoadConnects
    <2>2. DOMAIN modules = 1 .. Len(modules) /\ Len(modules) \in Nat
      BY ModuleFields
    <2> QED
      BY <2>1, <2>2
  <1>3. ASSUME NEW t \in Threads,
               \/ LoadInitialize(t) \/ AllTerminated(t) \/ AllReturn(t) \/ CleanTerminated(t)
        PROVE  Stay /\ UNCHANGED <<overlapped, cleanups>>
    BY <1>3, LoadInitializes, AllGoesOn, AllReturns, CleanGoesOn
  <1>4. ASSUME NEW t \in Threads, AllLock(t)
        PROVE  Stay /\ (overlapped => overlapped') /\ UNCHANGED cleanups
    BY <1>4 DEF AllLock, Overlaps
  <1>9. ASSUME NEW t \in Threads, CloseNext(t)
        PROVE  Stay /\ (overlapped => overlapped')
    <2> PICK n : n = Len(frames[t]) + 1
      OBVIOUS
    <2>1. UNCHANGED modules /\ (UNCHANGED overlapped \/ (overlapped' <=> Overlaps(t)))
      BY <1>9, CloseCalls DEF CleanStarts
    <2> QED
      BY <2>1 DEF Overlaps
  <1>5. ASSUME NEW t \in Threads,
               \/ InitializeFails(t) \/ InitializeWorks(t) \/ LoadAdd(t)
               \/ CleanTerminate(t) \/ CleanDelete(t)
        PROVE  Stay /\ UNCHANGED <<overlapped, cleanups>>
    <2> PICK n : n = Len(frames[t])
      OBVIOUS
    <2> PICK m : m = frames[t][n].module
      OBVIOUS
    <2>1. m \in DOMAIN modules
      BY <1>5, TopModule DEF InitializeFails, InitializeWorks, LoadAdd, CleanTerminate, CleanDelete
    <2>2. CASE InitializeFails(t) \/ InitializeWorks(t)
      <3>1. Changes(m) /\ modules'[m].early = modules[m].early /\ UNCHANGED <<overlapped, cleanups>>
        BY <2>1, <2>2, InitializeEnds
      <3> QED
        BY <3>1 DEF Changes
    <2>3. CASE LoadAdd(t) \/ CleanDelete(t)
      BY <2>1, <2>3, LoadAdds, CleanDeletes
    <2>4. CASE CleanTerminate(t)
      <3>1. (Enters(t, n, m) \/ PassesOver(m)) /\ UNCHANGED <<overlapped, cleanups>>
        BY <2>1, <2>4, CleanTerminates
      <3> QED
        BY <3>1, EntersModules
    <2> QED
      BY <1>5, <2>2, <2>3, <2>4
  <1>6. ASSUME NEW t \in Threads, AllTerminate(t)
        PROVE  Stay /\ UNCHANGED <<overlapped, cleanups>>
    <2> PICK n : n = Len(frames[t])
      OBVIOUS
    <2>1. /\ UNCHANGED <<overlapped, cleanups>>
          /\ \E p \in Paths : Enters(t, n, registered["own"][p]) \/ PassesOver(registered["own"][p])
      BY <1>6, AllTerminates
    <2>2. PICK p \in Paths : Enters(t, n, registered["own"][p]) \/ PassesOver(registered["own"][p])
      BY <2>1
    <2> PICK m : m = registered["own"][p]
      OBVIOUS
    <2> QED
      BY <2>1, <2>2, EntersModules
  <1>7. ASSUME NEW t \in Threads, AllDisconnect(t)
        PROVE  Stay /\ UNCHANGED <<overlapped, cleanups>>
    <2>1. UNCHANGED <<overlapped, cleanups>>
      BY <1>7, AllDisconnects
    <2>2. PICK p \in Paths :
             \/ UNCHANGED modules
             \/ /\ registered["own"][p] \in DOMAIN modules
                /\ modules' = [modules EXCEPT ![registered["own"][p]].connected = FALSE]
      BY <1>7, AllDisconnects
    <2> PICK m : m = registered["own"][p]
      OBVIOUS
    <2>3. CASE m \in DOMAIN modules /\ modules' = [modules EXCEPT ![m].connected = FALSE]
      BY <2>1, <2>3, DisconnectChanges DEF Changes
    <2> QED
      BY <2>1, <2>2, <2>3
  <1> HIDE DEF Stay
  <1>8. /\ Stay /\ (overlapped => overlapped')
        /\ UNCHANGED cleanups \/ \E t \in Threads : LoadConnect(t) \/ CloseNext(t)
    <2>1. CASE (\E t \in Threads : QuietStep(t)) \/ UNCHANGED vars
      BY <1>1, <2>1 DEF Stay
    <2> QED
      BY <1>2, <1>3, <1>4, <1>5, <1>6, <1>7, <1>9, <2>1 DEF Next, QuietStep
  <1> QED
    BY <1>8 DEF Stay

\* Steps that keep the modules of the cleanups, at most one of them changed.
LEMMA CleansStay ==
    ASSUME CleanupsOK, UNCHANGED cleanups,
           \A k \in DOMAIN modules : k \in DOMAIN modules',
           \A u \in Threads : \A i \in Positions(u)' : CleanAt(u, i)' =>
              i \in Positions(u) /\ CleanAt(u, i) /\ frames'[u][i].module = frames[u][i].module
    PROVE  CleanupsOK'
  BY DEF CleanupsOK

LEMMA SameCleanOnes ==
    ASSUME SameCleans, NEW u \in Threads, NEW i \in Positions(u)', CleanAt(u, i)'
    PROVE  i \in Positions(u) /\ CleanAt(u, i) /\ frames'[u][i] = frames[u][i]
  BY DEF SameCleans, Kept, CleanAt

LEMMA NextCleanupsOK ==
    ASSUME TypeOK, LoadsOK, CleanupsOK, [Next]_vars
    PROVE  CleanupsOK'
  <1>1. ASSUME SameCleans, UNCHANGED cleanups PROVE CleanupsOK'
    BY <1>1, ModulesStay, SameCleanOnes, CleansStay
  <1>2. CASE (\E t \in Threads : QuietStep(t)) \/ UNCHANGED vars
    BY <1>1, <1>2, QuietSteps DEF Quiet
  <1>3. ASSUME NEW t \in Threads, LoadConnect(t) PROVE CleanupsOK'
    <2> PICK m : m = Len(modules) + 1
      OBVIOUS
    <2> PICK n : n = Len(frames[t])
      OBVIOUS
    <2>0. /\ DOMAIN modules' = 1 .. Len(modules) + 1 /\ SameCleans
          /\ \A k \in DOMAIN cleanups : k \in DOMAIN cleanups' /\ cleanups'[k] = cleanups[k]
          /\ \A k \in DOMAIN cleanups' : \/ k \in DOMAIN cleanups
                                         \/ k = Len(cleanups) + 1 /\ cleanups'[k] = m
      BY <1>3, LoadConnects
    <2>1. /\ SameCleans
          /\ \A k \in DOMAIN cleanups' : k \in DOMAIN cleanups \/ cleanups'[k] = m
          /\ \A k \in DOMAIN cleanups' : k \in DOMAIN cleanups \/ k = Len(cleanups) + 1
          /\ \A k \in DOMAIN cleanups : cleanups'[k] = cleanups[k]
          /\ \A k \in DOMAIN modules : k \in DOMAIN modules'
      BY <2>0, ModuleFields
    <2>2. \A k \in DOMAIN cleanups : cleanups[k] # m
      <3>1. cleanups \in Seq(0 .. Len(modules))
        BY DEF TypeOK
      <3>2. \A k \in DOMAIN cleanups : cleanups[k] \in 0 .. Len(modules)
        BY <3>1, ElementOfSeq, LenProperties
      <3> QED
        BY <3>2, ModuleFields
    <2>3. \A k \in DOMAIN modules : k # m
      BY ModuleFields
    <2>4. \A i, j \in DOMAIN cleanups' : cleanups'[i] = cleanups'[j] => i = j
      BY <2>1, <2>2 DEF CleanupsOK
    <2>5. ASSUME NEW u \in Threads, NEW i \in Positions(u)', CleanAt(u, i)'
          PROVE  /\ frames'[u][i].module \in DOMAIN modules'
                 /\ \A k \in DOMAIN cleanups' : cleanups'[k] # frames'[u][i].module
      <3>1. i \in Positions(u) /\ CleanAt(u, i) /\ frames'[u][i] = frames[u][i]
        BY <2>1, <2>5, SameCleanOnes
      <3>2. /\ frames[u][i].module \in DOMAIN modules
            /\ \A k \in DOMAIN cleanups : cleanups[k] # frames[u][i].module
        BY <3>1 DEF CleanupsOK
      <3> QED
        BY <2>1, <2>3, <3>1, <3>2
    <2> QED
      BY <2>4, <2>5 DEF CleanupsOK
  <1>4. ASSUME NEW t \in Threads,
               \/ LoadInitialize(t) \/ AllLock(t) \/ AllTerminate(t) \/ AllTerminated(t)
               \/ AllDisconnect(t) \/ AllReturn(t)
        PROVE  CleanupsOK'
    <2>1. SameCleans /\ UNCHANGED cleanups
      BY <1>4, LoadInitializes, AllLocks, AllTerminates, AllGoesOn, AllDisconnects, AllReturns
    <2> QED
      BY <1>1, <2>1
  <1>5. ASSUME NEW t \in Threads, InitializeFails(t) \/ InitializeWorks(t) \/ LoadAdd(t)
        PROVE  CleanupsOK'
    <2> PICK n : n = Len(frames[t])
      OBVIOUS
    <2> PICK m : m = frames[t][n].module
      OBVIOUS
    <2>1. m \in DOMAIN modules
      BY <1>5, TopModule DEF InitializeFails, InitializeWorks, LoadAdd
    <2>2. SameCleans /\ UNCHANGED cleanups
      BY <1>5, <2>1, InitializeEnds, LoadAdds
    <2> QED
      BY <1>1, <2>2
  <1>6. ASSUME NEW t \in Threads, CloseNext(t) PROVE CleanupsOK'
    <2> PICK n : n = Len(frames[t]) + 1
      OBVIOUS
    <2> PICK last : last = Len(cleanups)
      OBVIOUS
    <2>1. /\ Disturbs(t, n) /\ last \in Nat \ {0} /\ DOMAIN cleanups = 1 .. last
          /\ DOMAIN cleanups' = 1 .. (last - 1)
          /\ \A k \in DOMAIN cleanups' : cleanups'[k] = cleanups[k]
          /\ UNCHANGED modules
          /\ (cleanups[last] = 0 /\ SameCleans) \/ CleanStarts(t, n)
      BY <1>6, CloseCalls
    <2>2. \A k \in DOMAIN cleanups' : k \in DOMAIN cleanups /\ k # last
      BY <2>1
    <2>3. \A i, j \in DOMAIN cleanups' : cleanups'[i] = cleanups'[j] => i = j
      BY <2>1, <2>2 DEF CleanupsOK
    <2>4. \A k \in DOMAIN cleanups' : cleanups'[k] # cleanups[last]
      <3>1. last \in DOMAIN cleanups
        BY <2>1
      <3> QED
        BY <2>1, <2>2, <3>1 DEF CleanupsOK
    <2>5. ASSUME NEW u \in Threads, NEW i \in Positions(u)', CleanAt(u, i)'
          PROVE  /\ frames'[u][i].module \in DOMAIN modules'
                 /\ \A k \in DOMAIN cleanups' : cleanups'[k] # frames'[u][i].module
      <3>1. CASE i \in Positions(u) /\ CleanAt(u, i) /\ frames'[u][i] = frames[u][i]
        BY <2>1, <2>2, <3>1 DEF CleanupsOK
      <3>2. CASE u = t /\ i = n /\ CleanStarts(t, n)
        BY <2>1, <2>4, <3>2 DEF CleanStarts
      <3>3. CASE SameCleans
        BY <2>5, <3>1, <3>3, SameCleanOnes
      <3>4. CASE CleanStarts(t, n) /\ (u # t \/ i # n)
        <4>1. i \in Positions(u) /\ frames'[u][i] = frames[u][i]
          BY <2>1, <2>5, <3>4 DEF Disturbs, Kept
        <4>2. CleanAt(u, i)
          BY <2>5, <4>1 DEF CleanAt
        <4> QED
          BY <3>1, <4>1, <4>2
      <3> QED
        BY <2>1, <3>2, <3>3, <3>4
    <2> QED
      BY <2>3, <2>5 DEF CleanupsOK
  <1>7. ASSUME NEW t \in Threads, CleanTerminate(t) \/ CleanTerminated(t) \/ CleanDelete(t)
        PROVE  CleanupsOK'
    <2> PICK n : n = Len(frames[t])
      OBVIOUS
    <2> PICK m : m = frames[t][n].module
      OBVIOUS
    <2>1. m \in DOMAIN modules \/ CleanTerminated(t)
      BY <1>7, TopModule DEF CleanTerminate, CleanDelete
    <2>2. /\ Disturbs(t, n) /\ n \in Positions(t) /\ CleanAt(t, n) /\ UNCHANGED cleanups
          /\ n \in Positions(t)' => frames'[t][n].module = m
      BY <1>7, <2>1, CleanTerminates, CleanGoesOn, CleanDeletes DEF CleanAt
    <2>3. \A u \in Threads : \A i \in Positions(u)' : CleanAt(u, i)' =>
             i \in Positions(u) /\ CleanAt(u, i) /\ frames'[u][i].module = frames[u][i].module
      BY <2>2 DEF Disturbs, Kept, CleanAt
    <2> QED
      BY <2>2, <2>3, ModulesStay, CleansStay
  <1> QED
    BY <1>2, <1>3, <1>4, <1>5, <1>6, <1>7 DEF Next, QuietStep

-----------------------------------------------------------------------------
(* Terminations *)

EndAt(t, i) == AllAt(t, i) \/ CleanAt(t, i)

LEMMA TerminatingIs == \A t \in Threads : Terminating(t) <=> \E i \in Positions(t) : EndAt(t, i)
  BY DEF Terminating, FramesOf, Positions, EndAt, AllAt, CleanAt

LEMMA TerminatingWillBe ==
    \A t \in Threads : Terminating(t)' <=> \E i \in Positions(t)' : EndAt(t, i)'
  BY DEF Terminating, FramesOf, Positions, EndAt, AllAt, CleanAt

\* A thread is in one termination at a time, and all threads together if they take turns.
LEMMA OneEnd ==
    ASSUME TypeOK, Stacked, NEW t \in Threads, NEW i \in Positions(t), NEW j \in Positions(t),
           EndAt(t, i), EndAt(t, j)
    PROVE  i = j
  <1>1. frames[t][i].op \in {"all", "clean"} /\ frames[t][j].op \in {"all", "clean"}
    BY DEF EndAt, AllAt, CleanAt
  <1>2. /\ i = 1 \/ (i = 2 /\ frames[t][1].op = "close")
        /\ j = 1 \/ (j = 2 /\ frames[t][1].op = "close")
    BY <1>1 DEF Stacked
  <1> QED
    BY <1>1, <1>2

LEMMA OnlyEnd ==
    ASSUME TypeOK, Stacked, OneTerminator, ~overlapped,
           NEW t \in Threads, NEW i \in Positions(t), NEW u \in Threads, NEW j \in Positions(u),
           EndAt(t, i), EndAt(u, j)
    PROVE  u = t /\ j = i
  <1>1. u = t
    BY TerminatingIs DEF OneTerminator
  <1> QED
    BY <1>1, OneEnd

LEMMA EndsStay ==
    ASSUME OneTerminator, overlapped => overlapped',
           \A u \in Threads : \A i \in Positions(u)' : EndAt(u, i)' =>
              i \in Positions(u) /\ EndAt(u, i)
    PROVE  OneTerminator'
  <1>1. \A u \in Threads : Terminating(u)' => Terminating(u)
    BY TerminatingIs, TerminatingWillBe
  <1> QED
    BY <1>1 DEF OneTerminator

LEMMA EndStarts ==
    ASSUME NEW t \in Threads, NEW n, Disturbs(t, n), overlapped' <=> Overlaps(t)
    PROVE  OneTerminator'
  <1>1. \A u \in Threads \ {t} : Terminating(u)' => Terminating(u)
    BY DEF Disturbs, Kept, Terminating, FramesOf, Positions
  <1> QED
    BY <1>1 DEF OneTerminator, Overlaps

LEMMA NextOneTerminator ==
    ASSUME TypeOK, LoadsOK, CleanupsOK, OneTerminator, [Next]_vars
    PROVE  OneTerminator'
  <1>1. overlapped => overlapped'
    BY ModulesStay
  <1>2. ASSUME SameAlls, SameCleans PROVE OneTerminator'
    <2>1. \A u \in Threads : \A i \in Positions(u)' : EndAt(u, i)' =>
             i \in Positions(u) /\ EndAt(u, i)
      BY <1>2 DEF SameAlls, SameCleans, Kept, EndAt, AllAt, CleanAt
    <2> QED
      BY <1>1, <2>1, EndsStay
  <1>3. ASSUME NEW t \in Threads, NEW n, Disturbs(t, n), n \in Positions(t), EndAt(t, n)
        PROVE  OneTerminator'
    <2>1. \A u \in Threads : \A i \in Positions(u)' : EndAt(u, i)' =>
             i \in Positions(u) /\ EndAt(u, i)
      BY <1>3 DEF Disturbs, Kept, EndAt, AllAt, CleanAt
    <2> QED
      BY <1>1, <2>1, EndsStay
  <1>4. CASE (\E t \in Threads : QuietStep(t)) \/ UNCHANGED vars
    BY <1>2, <1>4, QuietSteps DEF Quiet
  <1>5. ASSUME NEW t \in Threads, LoadConnect(t) \/ LoadInitialize(t) PROVE OneTerminator'
    <2> PICK n : n = Len(frames[t])
      OBVIOUS
    <2>1. SameAlls /\ SameCleans
      BY <1>5, LoadConnects, LoadInitializes
    <2> QED
      BY <1>2, <2>1
  <1>6. ASSUME NEW t \in Threads, InitializeFails(t) \/ InitializeWorks(t) \/ LoadAdd(t)
        PROVE  OneTerminator'
    <2> PICK n : n = Len(frames[t])
      OBVIOUS
    <2> PICK m : m = frames[t][n].module
      OBVIOUS
    <2>1. m \in DOMAIN modules
      BY <1>6, TopModule DEF InitializeFails, InitializeWorks, LoadAdd
    <2>2. SameCleans /\ SameAlls
      BY <1>6, <2>1, InitializeEnds, LoadAdds
    <2> QED
      BY <1>2, <2>2
  <1>7. ASSUME NEW t \in Threads, AllLock(t) PROVE OneTerminator'
    <2> PICK n : n = Len(frames[t])
      OBVIOUS
    <2>1. Disturbs(t, n) /\ (overlapped' <=> Overlaps(t))
      BY <1>7, AllLocks
    <2> QED
      BY <2>1, EndStarts
  <1>8. ASSUME NEW t \in Threads,
               AllTerminate(t) \/ AllTerminated(t) \/ AllDisconnect(t) \/ AllReturn(t)
        PROVE  OneTerminator'
    <2> PICK n : n = Len(frames[t])
      OBVIOUS
    <2>1. Disturbs(t, n) /\ n \in Positions(t) /\ EndAt(t, n)
      BY <1>8, AllTerminates, AllGoesOn, AllDisconnects, AllReturns DEF EndAt, AllAt
    <2> QED
      BY <1>3, <2>1
  <1>9. ASSUME NEW t \in Threads, CloseNext(t) PROVE OneTerminator'
    <2> PICK n : n = Len(frames[t]) + 1
      OBVIOUS
    <2>1. Disturbs(t, n) /\ SameAlls /\ (SameCleans \/ CleanStarts(t, n))
      BY <1>9, CloseCalls
    <2>2. CASE CleanStarts(t, n)
      BY <2>1, <2>2, EndStarts DEF CleanStarts
    <2> QED
      BY <1>2, <2>1, <2>2
  <1>10. ASSUME NEW t \in Threads, CleanTerminate(t) \/ CleanTerminated(t) \/ CleanDelete(t)
         PROVE  OneTerminator'
    <2> PICK n : n = Len(frames[t])
      OBVIOUS
    <2> PICK m : m = frames[t][n].module
      OBVIOUS
    <2>1. m \in DOMAIN modules \/ CleanTerminated(t)
      BY <1>10, TopModule DEF CleanTerminate, CleanDelete
    <2>2. Disturbs(t, n) /\ n \in Positions(t) /\ EndAt(t, n)
      BY <1>10, <2>1, CleanTerminates, CleanGoesOn, CleanDeletes DEF EndAt, CleanAt
    <2> QED
      BY <1>3, <2>2
  <1> QED
    BY <1>4, <1>5, <1>6, <1>7, <1>8, <1>9, <1>10 DEF Next, QuietStep

-----------------------------------------------------------------------------
(* Names of modules that were terminated *)

\* Steps that give no name, terminate no named module and end no deletion.
LEMMA NamesWorkStay ==
    ASSUME NamesWork,
           \A p \in Paths : \A m : registered'["own"][p] = m /\ m # 0 =>
              /\ registered["own"][p] = m
              /\ modules'[m].terminated > 0 => modules[m].terminated > 0 \/ AboutToDelete(p, m)'
              /\ modules[m].early => modules'[m].early
              /\ AboutToDelete(p, m) => AboutToDelete(p, m)'
    PROVE  NamesWork'
  <1> SUFFICES ASSUME NEW p \in Paths, NEW m, m = registered'["own"][p], m # 0,
                      modules'[m].terminated > 0
               PROVE  modules'[m].early \/ AboutToDelete(p, m)'
    BY DEF NamesWork
  <1>1. /\ registered["own"][p] = m
        /\ modules[m].terminated > 0 \/ AboutToDelete(p, m)'
        /\ modules[m].early => modules'[m].early
        /\ AboutToDelete(p, m) => AboutToDelete(p, m)'
    OBVIOUS
  <1>2. modules[m].terminated > 0 => modules[m].early \/ AboutToDelete(p, m)
    BY <1>1 DEF NamesWork
  <1> QED
    BY <1>1, <1>2

LEMMA DeletionsStay ==
    ASSUME SameAlls, SameCleans, NEW p, NEW m, AboutToDelete(p, m)
    PROVE  AboutToDelete(p, m)'
  BY DEF SameAlls, SameCleans, Kept, AboutToDelete, AllAt, CleanAt

\* Only the deletion at position n of t may be over.
LEMMA OtherDeletionsStay ==
    ASSUME NEW t \in Threads, NEW n, Disturbs(t, n), NEW p, NEW m, AboutToDelete(p, m)
    PROVE  \/ AboutToDelete(p, m)'
           \/ /\ n \in Positions(t)
              /\ \/ CleanAt(t, n) /\ frames[t][n].module = m
                 \/ AllAt(t, n) /\ p \in frames[t][n].names
  BY DEF Disturbs, Kept, AboutToDelete, AllAt, CleanAt

LEMMA NextNamesWork ==
    ASSUME TypeOK, LoadsOK, CleanupsOK, NamesOK, AllOK, NamesWork, [Next]_vars
    PROVE  NamesWork'
  <1> DEFINE Same(k) == /\ modules'[k].terminated = modules[k].terminated
                        /\ modules[k].early => modules'[k].early
  <1>0. \A p \in Paths : registered["own"][p] # 0 => registered["own"][p] \in DOMAIN modules
    BY ModuleFields DEF Locators
  <1>1. ASSUME SameAlls, SameCleans,
               \A p \in Paths : registered'["own"][p] # 0 =>
                  /\ registered'["own"][p] = registered["own"][p]
                  /\ Same(registered["own"][p])
        PROVE  NamesWork'
    BY <1>1, DeletionsStay, NamesWorkStay
  <1>2. CASE (\E t \in Threads : QuietStep(t)) \/ UNCHANGED vars
    BY <1>1, <1>2, QuietSteps DEF Quiet
  <1>3. ASSUME NEW t \in Threads, LoadConnect(t) PROVE NamesWork'
    <2> PICK n : n = Len(frames[t])
      OBVIOUS
    <2>1. /\ SameAlls /\ SameCleans /\ UNCHANGED registered
          /\ \A k \in DOMAIN modules : modules'[k] = modules[k]
      BY <1>3, LoadConnects
    <2> QED
      BY <1>0, <1>1, <2>1
  <1>4. ASSUME NEW t \in Threads, LoadInitialize(t) PROVE NamesWork'
    <2> PICK n : n = Len(frames[t])
      OBVIOUS
    <2>1. SameAlls /\ SameCleans /\ UNCHANGED <<modules, registered>>
      BY <1>4, LoadInitializes
    <2> QED
      BY <1>1, <2>1
  <1>5. ASSUME NEW t \in Threads, InitializeFails(t) \/ InitializeWorks(t) PROVE NamesWork'
    <2> PICK n : n = Len(frames[t])
      OBVIOUS
    <2> PICK m : m = frames[t][n].module
      OBVIOUS
    <2>1. m \in DOMAIN modules
      BY <1>5, TopModule DEF InitializeFails, InitializeWorks
    <2>2. /\ SameAlls /\ SameCleans /\ UNCHANGED registered /\ Changes(m)
          /\ modules'[m].terminated = modules[m].terminated
          /\ modules'[m].early = modules[m].early
      BY <1>5, <2>1, InitializeEnds
    <2>3. \A k \in DOMAIN modules : Same(k)
      BY <2>2 DEF Changes
    <2> QED
      BY <1>0, <1>1, <2>2, <2>3
  <1>6. ASSUME NEW t \in Threads, LoadAdd(t) PROVE NamesWork'
    <2> PICK n : n = Len(frames[t])
      OBVIOUS
    <2> PICK m : m = frames[t][n].module
      OBVIOUS
    <2>1. m \in DOMAIN modules
      BY <1>6, TopModule DEF LoadAdd
    <2>2. /\ SameAlls /\ SameCleans /\ UNCHANGED modules /\ n \in Positions(t)
          /\ frames[t][n].op = "load" /\ frames[t][n].at = "add"
          /\ \A l \in Locators, p \in Paths :
                registered'[l][p] = registered[l][p] \/ registered'[l][p] = m
      BY <1>6, <2>1, LoadAdds
    <2>3. modules[m].terminated > 0 => modules[m].early
      BY <2>2 DEF LoadsOK, LoadOK, LoadAt
    <2> SUFFICES ASSUME NEW p \in Paths, NEW k, k = registered'["own"][p], k # 0,
                        modules[k].terminated > 0
                 PROVE  modules[k].early \/ AboutToDelete(p, k)'
      BY <2>2 DEF NamesWork
    <2>4. CASE registered["own"][p] = k
      BY <2>2, <2>4, DeletionsStay DEF NamesWork
    <2> QED
      BY <2>2, <2>3, <2>4 DEF Locators
  <1>7. ASSUME NEW t \in Threads, AllLock(t) PROVE NamesWork'
    <2> PICK n : n = Len(frames[t])
      OBVIOUS
    <2>1. /\ Disturbs(t, n) /\ UNCHANGED <<modules, registered>>
          /\ frames[t][n].op = "all" /\ frames[t][n].at = "lock"
      BY <1>7, AllLocks
    <2>2. \A p, m : AboutToDelete(p, m) => AboutToDelete(p, m)'
      BY <2>1, OtherDeletionsStay DEF AllAt, CleanAt
    <2> QED
      BY <2>1, <2>2, NamesWorkStay
  <1>8. ASSUME NEW t \in Threads, AllTerminate(t) PROVE NamesWork'
    <2> PICK n : n = Len(frames[t])
      OBVIOUS
    <2>1. /\ Disturbs(t, n) /\ n \in Positions(t) /\ n \in Positions(t)'
          /\ frames[t][n].op = "all" /\ frames[t][n].at = "next"
          /\ frames'[t][n].op = "all" /\ UNCHANGED registered
          /\ frames'[t][n].names = frames[t][n].names
      BY <1>8, AllTerminates
    <2>2. PICK q \in frames[t][n].left :
             /\ q \in Paths
             /\ \/ Enters(t, n, registered["own"][q])
                \/ frames'[t][n].at = "next" /\ PassesOver(registered["own"][q])
      BY <1>8, AllTerminates
    <2> PICK m : m = registered["own"][q]
      OBVIOUS
    <2>3. AllAt(t, n)'
      BY <2>1, <2>2 DEF AllAt, Enters
    <2>4. \A p, k : p \in frames[t][n].names => AboutToDelete(p, k)'
      BY <2>1, <2>3 DEF AboutToDelete
    <2>5. \A p, k : AboutToDelete(p, k) => AboutToDelete(p, k)'
      BY <2>1, <2>4, OtherDeletionsStay DEF CleanAt
    <2>6. q \in frames[t][n].names
      BY <2>1, <2>2 DEF AllOK, AllAt, AllGood
    <2>7. ASSUME NEW p \in Paths, NEW k, registered["own"][p] = k, k # 0
          PROVE  /\ modules'[k].terminated > 0 =>
                       modules[k].terminated > 0 \/ AboutToDelete(p, k)'
                 /\ modules[k].early => modules'[k].early
      <3>1. k \in DOMAIN modules
        BY <1>0, <2>7
      <3>2. CASE k = m
        <4>1. p = q
          BY <2>2, <2>7, <3>2 DEF NamesOK, Locators
        <4> QED
          BY <2>2, <2>4, <2>6, <3>1, <4>1, EntersModules
      <3>3. CASE k # m
        <4>1. modules'[k] = modules[k]
          BY <2>2, <3>1, <3>3, EntersModules
        <4> QED
          BY <4>1
      <3> QED
        BY <3>2, <3>3
    <2> QED
      BY <2>1, <2>5, <2>7, NamesWorkStay
  <1>9. ASSUME NEW t \in Threads, AllTerminated(t) PROVE NamesWork'
    <2> PICK n : n = Len(frames[t])
      OBVIOUS
    <2>1. /\ Disturbs(t, n) /\ n \in Positions(t) /\ n \in Positions(t)'
          /\ frames[t][n].op = "all" /\ frames'[t][n].op = "all" /\ frames'[t][n].at = "next"
          /\ frames'[t][n].names = frames[t][n].names /\ UNCHANGED <<modules, registered>>
      BY <1>9, AllGoesOn
    <2>2. \A p, k : p \in frames[t][n].names => AboutToDelete(p, k)'
      BY <2>1 DEF AboutToDelete, AllAt
    <2>3. \A p, k : AboutToDelete(p, k) => AboutToDelete(p, k)'
      BY <2>1, <2>2, OtherDeletionsStay DEF CleanAt
    <2> QED
      BY <2>1, <2>3, NamesWorkStay
  <1>10. ASSUME NEW t \in Threads, AllDisconnect(t) PROVE NamesWork'
    <2> PICK n : n = Len(frames[t])
      OBVIOUS
    <2>1. /\ Disturbs(t, n) /\ n \in Positions(t) /\ n \in Positions(t)'
          /\ frames[t][n].op = "all" /\ frames'[t][n].op = "all" /\ frames'[t][n].at = "next"
      BY <1>10, AllDisconnects
    <2>2. PICK q \in frames[t][n].names :
             /\ q \in Paths /\ frames'[t][n].names = frames[t][n].names \ {q}
             /\ registered'["own"][q] = 0
             /\ \A l \in Locators, p \in Paths :
                   l # "own" \/ p # q => registered'[l][p] = registered[l][p]
             /\ \/ (registered["own"][q] = 0 \/ q \in Nested) /\ UNCHANGED modules
                \/ /\ registered["own"][q] \in DOMAIN modules /\ q \notin Nested
                   /\ modules' = [modules EXCEPT ![registered["own"][q]].connected = FALSE]
      BY <1>10, AllDisconnects, SMTT(30)
    <2> PICK m : m = registered["own"][q]
      OBVIOUS
    <2>3. \A k \in DOMAIN modules : Same(k)
      <3>1. CASE m \in DOMAIN modules /\ modules' = [modules EXCEPT ![m].connected = FALSE]
        BY <3>1, DisconnectChanges DEF Changes
      <3> QED
        BY <2>2, <3>1
    <2>4. \A p, k : p \in frames[t][n].names /\ p # q => AboutToDelete(p, k)'
      BY <2>1, <2>2 DEF AboutToDelete, AllAt
    <2>5. \A p, k : p # q /\ AboutToDelete(p, k) => AboutToDelete(p, k)'
      BY <2>1, <2>4, OtherDeletionsStay DEF CleanAt
    <2>6. ASSUME NEW p \in Paths, NEW k, registered'["own"][p] = k, k # 0
          PROVE  p # q /\ registered["own"][p] = k /\ k \in DOMAIN modules
      <3>1. p # q
        BY <2>2, <2>6
      <3> QED
        BY <1>0, <2>2, <2>6, <3>1 DEF Locators
    <2> HIDE DEF Same
    <2>7. \A p \in Paths : \A k : registered'["own"][p] = k /\ k # 0 =>
             /\ registered["own"][p] = k /\ Same(k)
             /\ AboutToDelete(p, k) => AboutToDelete(p, k)'
      BY <2>3, <2>5, <2>6
    <2> QED
      BY <2>7, NamesWorkStay DEF Same
  <1>11. ASSUME NEW t \in Threads, AllReturn(t) PROVE NamesWork'
    <2> PICK n : n = Len(frames[t])
      OBVIOUS
    <2>1. /\ Disturbs(t, n) /\ UNCHANGED <<modules, registered>>
          /\ frames[t][n].op = "all" /\ frames[t][n].names = {}
      BY <1>11, AllReturns
    <2>2. \A p, m : AboutToDelete(p, m) => AboutToDelete(p, m)'
      BY <2>1, OtherDeletionsStay DEF CleanAt
    <2> QED
      BY <2>1, <2>2, NamesWorkStay
  <1>12. ASSUME NEW t \in Threads, CloseNext(t) PROVE NamesWork'
    <2> PICK n : n = Len(frames[t]) + 1
      OBVIOUS
    <2>1. /\ Disturbs(t, n) /\ SameAlls /\ UNCHANGED <<modules, registered>>
          /\ SameCleans \/ n \notin Positions(t)
      BY <1>12, CloseCalls DEF CleanStarts
    <2>2. \A p, m : AboutToDelete(p, m) => AboutToDelete(p, m)'
      BY <2>1, DeletionsStay, OtherDeletionsStay
    <2> QED
      BY <2>1, <2>2, NamesWorkStay
  <1>13. ASSUME NEW t \in Threads, CleanTerminate(t) PROVE NamesWork'
    <2> PICK n : n = Len(frames[t])
      OBVIOUS
    <2> PICK m : m = frames[t][n].module
      OBVIOUS
    <2>1. m \in DOMAIN modules
      BY <1>13, TopModule DEF CleanTerminate
    <2>2. /\ Disturbs(t, n) /\ n \in Positions(t)' /\ frames[t][n].op = "clean"
          /\ frames'[t][n].op = "clean" /\ frames'[t][n].module = m
          /\ (Enters(t, n, m) \/ PassesOver(m)) /\ UNCHANGED registered
      BY <1>13, <2>1, CleanTerminates
    <2>3. \A p : AboutToDelete(p, m)'
      BY <2>2 DEF AboutToDelete, CleanAt
    <2>4. \A p, k : AboutToDelete(p, k) => AboutToDelete(p, k)'
      BY <2>2, <2>3, OtherDeletionsStay DEF AllAt
    <2>5. ASSUME NEW p \in Paths, NEW k, registered["own"][p] = k, k # 0
          PROVE  /\ modules'[k].terminated > 0 =>
                       modules[k].terminated > 0 \/ AboutToDelete(p, k)'
                 /\ modules[k].early => modules'[k].early
      <3>1. k \in DOMAIN modules
        BY <1>0, <2>5
      <3>2. CASE k = m
        BY <2>2, <2>3, <3>1, <3>2, EntersModules
      <3>3. CASE k # m
        <4>1. modules'[k] = modules[k]
          BY <2>2, <3>1, <3>3, EntersModules
        <4> QED
          BY <4>1
      <3> QED
        BY <3>2, <3>3
    <2> QED
      BY <2>2, <2>4, <2>5, NamesWorkStay
  <1>14. ASSUME NEW t \in Threads, CleanTerminated(t) PROVE NamesWork'
    <2> PICK n : n = Len(frames[t])
      OBVIOUS
    <2>1. /\ Disturbs(t, n) /\ n \in Positions(t)' /\ frames[t][n].op = "clean"
          /\ frames'[t][n].op = "clean" /\ frames'[t][n].module = frames[t][n].module
          /\ UNCHANGED <<modules, registered>>
      BY <1>14, CleanGoesOn
    <2>2. \A p : AboutToDelete(p, frames[t][n].module)'
      BY <2>1 DEF AboutToDelete, CleanAt
    <2>3. \A p, k : AboutToDelete(p, k) => AboutToDelete(p, k)'
      BY <2>1, <2>2, OtherDeletionsStay DEF AllAt
    <2> QED
      BY <2>1, <2>3, NamesWorkStay
  <1>15. ASSUME NEW t \in Threads, CleanDelete(t) PROVE NamesWork'
    <2> PICK n : n = Len(frames[t])
      OBVIOUS
    <2> PICK m : m = frames[t][n].module
      OBVIOUS
    <2>1. m \in DOMAIN modules
      BY <1>15, TopModule DEF CleanDelete
    <2>2. /\ Disturbs(t, n) /\ frames[t][n].op = "clean" /\ UNCHANGED modules
          /\ registered'[modules[m].locator][modules[m].path] = 0
          /\ \A l \in Locators, p \in Paths :
                registered'[l][p] = registered[l][p] \/ registered'[l][p] = 0
      BY <1>15, <2>1, CleanDeletes
    <2>3. ASSUME NEW p \in Paths, NEW k, registered'["own"][p] = k, k # 0
          PROVE  registered["own"][p] = k /\ k # m
      <3>1. registered["own"][p] = k
        BY <2>2, <2>3 DEF Locators
      <3>2. modules[k].locator = "own" /\ modules[k].path = p
        BY <2>3, <3>1 DEF NamesOK, Locators
      <3>3. k # m
        <4>1. ASSUME k = m PROVE registered'["own"][p] = 0
          BY <2>2, <3>2, <4>1
        <4> QED
          BY <2>3, <4>1
      <3> QED
        BY <3>1, <3>3
    <2>4. ASSUME NEW p, NEW k, k # m, AboutToDelete(p, k) PROVE AboutToDelete(p, k)'
      <3>1. ~AllAt(t, n)
        BY <2>2 DEF AllAt
      <3> QED
        BY <2>2, <2>4, <3>1, OtherDeletionsStay
    <2>5. ASSUME NEW p \in Paths, NEW k, registered'["own"][p] = k, k # 0
          PROVE  /\ registered["own"][p] = k
                 /\ modules'[k].terminated > 0 => modules[k].terminated > 0
                 /\ modules[k].early => modules'[k].early
                 /\ AboutToDelete(p, k) => AboutToDelete(p, k)'
      BY <2>2, <2>3, <2>4, <2>5
    <2> QED
      BY <2>5, NamesWorkStay
  <1> QED
    BY <1>2, <1>3, <1>4, <1>5, <1>6, <1>7, <1>8, <1>9, <1>10, <1>11, <1>12, <1>13, <1>14, <1>15
       DEF Next, QuietStep

-----------------------------------------------------------------------------
(* DisconnectedIsDown *)

InsideAt(t, i, m) == frames[t][i].at = "inside" /\ frames[t][i].module = m

LEMMA InsideIs ==
    \A t \in Threads : \A m : Inside(t, m) <=> \E i \in Positions(t) : InsideAt(t, i, m)
  BY DEF Inside, FramesOf, Positions, InsideAt

LEMMA InsideWillBe ==
    \A t \in Threads : \A m : Inside(t, m)' <=> \E i \in Positions(t)' : InsideAt(t, i, m)'
  BY DEF Inside, FramesOf, Positions, InsideAt

\* A step that leaves loads, terminations and cleanups alone lets nobody in.
LEMMA SameInsides ==
    ASSUME TypeOK', SameLoads, SameAlls, SameCleans,
           NEW u \in Threads, NEW i \in Positions(u)', NEW m, InsideAt(u, i, m)'
    PROVE  i \in Positions(u) /\ InsideAt(u, i, m)
  <1>1. StacksOK'
    BY DEF TypeOK, StacksOK
  <1>2. frames'[u][i] \in Frames
    BY <1>1, StackTypes, ElementOfSeq, PositionsAfter DEF StacksOK
  <1>3. LoadAt(u, i)' \/ AllAt(u, i)' \/ CleanAt(u, i)'
    <2>1. frames'[u][i].at = "inside"
      BY DEF InsideAt
    <2>2. frames'[u][i].op \in {"load", "all", "clean"}
      BY <1>2, <2>1, FrameFields, FrameKinds
    <2> QED
      BY <2>1, <2>2 DEF LoadAt, AllAt, CleanAt
  <1>4. Kept(u, i)
    BY <1>3 DEF SameLoads, SameAlls, SameCleans
  <1> QED
    BY <1>4 DEF Kept, InsideAt

LEMMA DroppedStay ==
    ASSUME DisconnectedIsDown, overlapped => overlapped',
           \A m \in DOMAIN modules' : ~modules'[m].connected =>
              /\ m \in DOMAIN modules /\ ~modules[m].connected
              /\ modules[m].life # "up" => modules'[m].life # "up",
           \A u \in Threads : \A i \in Positions(u)' : \A m \in DOMAIN modules' :
              InsideAt(u, i, m)' /\ ~modules'[m].connected =>
                 i \in Positions(u) /\ InsideAt(u, i, m)
    PROVE  DisconnectedIsDown'
  <1> SUFFICES ASSUME NEW m \in DOMAIN modules', ~modules'[m].connected
               PROVE  /\ modules'[m].life # "up"
                      /\ overlapped' \/ \A u \in Threads : ~Inside(u, m)'
    BY DEF DisconnectedIsDown
  <1>1. /\ m \in DOMAIN modules /\ ~modules[m].connected /\ modules[m].life # "up"
        /\ modules'[m].life # "up"
    BY DEF DisconnectedIsDown
  <1>2. overlapped \/ \A u \in Threads : ~Inside(u, m)
    BY <1>1 DEF DisconnectedIsDown
  <1>3. ASSUME \A u \in Threads : ~Inside(u, m), NEW u \in Threads PROVE ~Inside(u, m)'
    BY <1>3, InsideIs, InsideWillBe
  <1> QED
    BY <1>1, <1>2, <1>3

\* The modules keep their handles, and the frame that changes is in none without one.
LEMMA DroppedStayOne ==
    ASSUME DisconnectedIsDown, overlapped => overlapped',
           NEW t \in Threads, NEW n, Disturbs(t, n), DOMAIN modules' = DOMAIN modules,
           \A m \in DOMAIN modules :
              /\ modules'[m].connected = modules[m].connected
              /\ ~modules[m].connected /\ modules[m].life # "up" => modules'[m].life # "up",
           n \in Positions(t)' /\ frames'[t][n].at = "inside" =>
              (frames'[t][n].module \in DOMAIN modules => modules[frames'[t][n].module].connected)
    PROVE  DisconnectedIsDown'
  <1>1. \A m \in DOMAIN modules' : ~modules'[m].connected =>
              /\ m \in DOMAIN modules /\ ~modules[m].connected
              /\ modules[m].life # "up" => modules'[m].life # "up"
    OBVIOUS
  <1>2. ASSUME NEW u \in Threads, NEW i \in Positions(u)', NEW m \in DOMAIN modules',
               InsideAt(u, i, m)', ~modules'[m].connected
        PROVE  i \in Positions(u) /\ InsideAt(u, i, m)
    <2>1. Kept(u, i) \/ (u = t /\ i = n)
      BY DEF Disturbs
    <2>2. ~(u = t /\ i = n)
      BY <1>1, <1>2 DEF InsideAt
    <2> QED
      BY <1>2, <2>1, <2>2 DEF Kept, InsideAt
  <1> QED
    BY <1>1, <1>2, DroppedStay

LEMMA NextDropped ==
    ASSUME TypeOK, TypeOK', Stacked, LoadsOK, CleanupsOK, AllOK, OneTerminator,
           DisconnectedIsDown, [Next]_vars
    PROVE  DisconnectedIsDown'
  <1>0. DOMAIN modules = 1 .. Len(modules) /\ Len(modules) \in Nat
    BY ModuleFields
  <1>1. CASE (\E t \in Threads : QuietStep(t)) \/ UNCHANGED vars
    <2>1. Quiet
      BY <1>1, QuietSteps
    <2> QED
      BY <2>1, SameInsides, DroppedStay DEF Quiet
  <1>2. ASSUME NEW t \in Threads, LoadConnect(t) PROVE DisconnectedIsDown'
    <2> PICK n : n = Len(frames[t])
      OBVIOUS
    <2>1. /\ Disturbs(t, n) /\ frames'[t][n].at = "connected" /\ UNCHANGED overlapped
          /\ DOMAIN modules' = 1 .. Len(modules) + 1
          /\ \A k \in DOMAIN modules : modules'[k] = modules[k]
          /\ modules'[Len(modules) + 1].connected
      BY <1>2, LoadConnects
    <2>2. \A m \in DOMAIN modules' : ~modules'[m].connected =>
              /\ m \in DOMAIN modules /\ ~modules[m].connected
              /\ modules[m].life # "up" => modules'[m].life # "up"
      BY <1>0, <2>1
    <2>3. \A u \in Threads : \A i \in Positions(u)' : \A m :
             InsideAt(u, i, m)' => i \in Positions(u) /\ InsideAt(u, i, m)
      BY <2>1 DEF Disturbs, Kept, InsideAt
    <2> QED
      BY <2>1, <2>2, <2>3, DroppedStay
  <1>3. ASSUME NEW t \in Threads, LoadInitialize(t) PROVE DisconnectedIsDown'
    <2> PICK n : n = Len(frames[t])
      OBVIOUS
    <2>1. /\ Disturbs(t, n) /\ UNCHANGED <<modules, overlapped>>
          /\ n \in Positions(t)' => /\ modules[frames[t][n].module].connected
                                    /\ frames'[t][n].module = frames[t][n].module
      BY <1>3, LoadInitializes
    <2> QED
      BY <2>1, DroppedStayOne
  <1>4. ASSUME NEW t \in Threads, InitializeFails(t) \/ InitializeWorks(t)
        PROVE  DisconnectedIsDown'
    <2> PICK n : n = Len(frames[t])
      OBVIOUS
    <2> PICK m : m = frames[t][n].module
      OBVIOUS
    <2>1. m \in DOMAIN modules
      BY <1>4, TopModule DEF InitializeFails, InitializeWorks
    <2>2. /\ Disturbs(t, n) /\ n \in Positions(t) /\ UNCHANGED overlapped
          /\ frames[t][n].op = "load" /\ frames[t][n].at = "inside"
          /\ n \in Positions(t)' => frames'[t][n].at = "add"
          /\ Changes(m) /\ modules'[m].connected = modules[m].connected
      BY <1>4, <2>1, InitializeEnds
    <2>3. modules[m].connected
      BY <2>2 DEF LoadsOK, LoadAt, LoadOK
    <2>4. /\ DOMAIN modules' = DOMAIN modules
          /\ \A k \in DOMAIN modules :
                /\ modules'[k].connected = modules[k].connected
                /\ ~modules[k].connected /\ modules[k].life # "up" => modules'[k].life # "up"
      BY <2>2, <2>3 DEF Changes
    <2> QED
      BY <2>2, <2>4, DroppedStayOne
  <1>5. ASSUME NEW t \in Threads, LoadAdd(t) PROVE DisconnectedIsDown'
    <2> PICK n : n = Len(frames[t])
      OBVIOUS
    <2> PICK m : m = frames[t][n].module
      OBVIOUS
    <2>1. m \in DOMAIN modules
      BY <1>5, TopModule DEF LoadAdd
    <2>2. Disturbs(t, n) /\ n \notin Positions(t)' /\ UNCHANGED <<modules, overlapped>>
      BY <1>5, <2>1, LoadAdds
    <2> QED
      BY <2>2, DroppedStayOne
  <1>6. ASSUME NEW t \in Threads, AllLock(t) PROVE DisconnectedIsDown'
    <2> PICK n : n = Len(frames[t])
      OBVIOUS
    <2>1. /\ Disturbs(t, n) /\ frames'[t][n].at = "next" /\ UNCHANGED modules
          /\ overlapped' <=> Overlaps(t)
      BY <1>6, AllLocks
    <2> QED
      BY <2>1, DroppedStayOne DEF Overlaps
  <1>7. ASSUME NEW t \in Threads, AllTerminate(t) PROVE DisconnectedIsDown'
    <2> PICK n : n = Len(frames[t])
      OBVIOUS
    <2>1. Disturbs(t, n) /\ UNCHANGED overlapped
      BY <1>7, AllTerminates
    <2>2. PICK p \in frames[t][n].left :
             \/ Enters(t, n, registered["own"][p])
             \/ frames'[t][n].at = "next" /\ PassesOver(registered["own"][p])
      BY <1>7, AllTerminates
    <2> PICK m : m = registered["own"][p]
      OBVIOUS
    <2>3. Enters(t, n, m) \/ PassesOver(m)
      BY <2>2
    <2>4. /\ DOMAIN modules' = DOMAIN modules
          /\ \A k \in DOMAIN modules :
                /\ modules'[k].connected = modules[k].connected
                /\ ~modules[k].connected /\ modules[k].life # "up" => modules'[k].life # "up"
      BY <2>3, EntersModules
    <2>5. frames'[t][n].at = "inside" => modules[frames'[t][n].module].connected
      BY <2>2 DEF Enters
    <2> QED
      BY <2>1, <2>4, <2>5, DroppedStayOne
  <1>8. ASSUME NEW t \in Threads, AllTerminated(t) \/ AllReturn(t) PROVE DisconnectedIsDown'
    <2> PICK n : n = Len(frames[t])
      OBVIOUS
    <2>1. /\ Disturbs(t, n) /\ UNCHANGED <<modules, overlapped>>
          /\ n \in Positions(t)' => frames'[t][n].at = "next"
      BY <1>8, AllGoesOn, AllReturns
    <2> QED
      BY <2>1, DroppedStayOne
  <1>9. ASSUME NEW t \in Threads, AllDisconnect(t) PROVE DisconnectedIsDown'
    <2> PICK n : n = Len(frames[t])
      OBVIOUS
    <2>1. /\ Disturbs(t, n) /\ n \in Positions(t) /\ UNCHANGED overlapped
          /\ frames[t][n].op = "all" /\ frames[t][n].at = "next" /\ frames[t][n].left = {}
          /\ frames'[t][n].at = "next"
      BY <1>9, AllDisconnects
    <2>2. PICK q \in frames[t][n].names :
             /\ q \in Paths /\ frames'[t][n].names = frames[t][n].names \ {q}
             /\ registered'["own"][q] = 0
             /\ \A l \in Locators, p \in Paths :
                   l # "own" \/ p # q => registered'[l][p] = registered[l][p]
             /\ \/ (registered["own"][q] = 0 \/ q \in Nested) /\ UNCHANGED modules
                \/ /\ registered["own"][q] \in DOMAIN modules /\ q \notin Nested
                   /\ modules' = [modules EXCEPT ![registered["own"][q]].connected = FALSE]
      BY <1>9, AllDisconnects
    <2> PICK m : m = registered["own"][q]
      OBVIOUS
    <2>3. \A u \in Threads : \A i \in Positions(u)' : \A k :
             InsideAt(u, i, k)' => i \in Positions(u) /\ InsideAt(u, i, k)
      BY <2>1 DEF Disturbs, Kept, InsideAt
    <2>4. CASE UNCHANGED modules
      BY <2>1, <2>3, <2>4, DroppedStay
    <2>5. CASE /\ m \in DOMAIN modules /\ q \notin Nested
               /\ modules' = [modules EXCEPT ![m].connected = FALSE]
      <3>1. /\ Changes(m) /\ modules'[m].life = modules[m].life
        BY <2>5, DisconnectChanges
      <3>2. m # 0
        BY <1>0, <2>5
      <3>3. modules[m].life # "up"
        <4>1. AllGood(t, n)
          BY <2>1 DEF AllOK, AllAt
        <4> QED
          BY <2>1, <2>2, <2>5, <3>2, <4>1 DEF AllGood
      <3>4. ASSUME ~overlapped, NEW u \in Threads, NEW i \in Positions(u), InsideAt(u, i, m)
            PROVE  FALSE
        <4>1. frames[u][i] \in Frames
          BY StackTypes DEF TypeOK, StacksOK
        <4>2. frames[u][i].at = "inside" /\ frames[u][i].module = m
          BY <3>4 DEF InsideAt
        <4>3. frames[u][i].op \in {"load", "all", "clean"}
          BY <4>1, <4>2, FrameFields, FrameKinds
        <4>4. CASE frames[u][i].op = "load"
          <5>1. LoadAt(u, i)
            BY <4>2, <4>4 DEF LoadAt
          <5>2. LoadOK(u, i)
            BY <5>1 DEF LoadsOK
          <5>3. registered["own"][q] # m
            BY <2>2, <4>2, <5>2 DEF LoadOK, Locators
          <5> QED
            BY <5>3
        <4>5. CASE frames[u][i].op \in {"all", "clean"}
          <5>1. EndAt(u, i) /\ EndAt(t, n)
            BY <2>1, <4>2, <4>5 DEF EndAt, AllAt, CleanAt
          <5>2. u = t /\ i = n
            BY <2>1, <3>4, <5>1, OnlyEnd
          <5> QED
            BY <2>1, <4>2, <5>2
        <4> QED
          BY <4>3, <4>4, <4>5
      <3>5. overlapped' \/ \A u \in Threads : ~Inside(u, m)'
        BY <2>1, <2>3, <3>4, InsideWillBe
      <3>6. ASSUME NEW k \in DOMAIN modules', ~modules'[k].connected
            PROVE  /\ modules'[k].life # "up"
                   /\ overlapped' \/ \A u \in Threads : ~Inside(u, k)'
        <4>1. CASE k = m
          BY <3>1, <3>3, <3>5, <4>1
        <4>2. CASE k # m
          <5>1. k \in DOMAIN modules /\ modules'[k] = modules[k]
            BY <3>1, <3>6, <4>2 DEF Changes
          <5>2. /\ modules[k].life # "up"
                /\ overlapped \/ \A u \in Threads : ~Inside(u, k)
            BY <3>6, <5>1 DEF DisconnectedIsDown
          <5>3. ASSUME \A u \in Threads : ~Inside(u, k), NEW u \in Threads PROVE ~Inside(u, k)'
            BY <2>3, <5>3, InsideIs, InsideWillBe
          <5> QED
            BY <2>1, <5>1, <5>2, <5>3
        <4> QED
          BY <4>1, <4>2
      <3> QED
        BY <3>6 DEF DisconnectedIsDown
    <2> QED
      BY <2>2, <2>4, <2>5
  <1>10. ASSUME NEW t \in Threads, CloseNext(t) PROVE DisconnectedIsDown'
    <2> PICK n : n = Len(frames[t]) + 1
      OBVIOUS
    <2>1. /\ Disturbs(t, n) /\ SameLoads /\ SameAlls /\ UNCHANGED modules
          /\ \/ SameCleans /\ UNCHANGED overlapped
             \/ CleanStarts(t, n)
      BY <1>10, CloseCalls
    <2>2. CASE SameCleans /\ UNCHANGED overlapped
      BY <2>1, <2>2, SameInsides, DroppedStay
    <2>3. CASE CleanStarts(t, n)
      <3>1. frames'[t][n].at = "terminate" /\ (overlapped' <=> Overlaps(t))
        BY <2>3 DEF CleanStarts
      <3> QED
        BY <2>1, <3>1, DroppedStayOne DEF Overlaps
    <2> QED
      BY <2>1, <2>2, <2>3
  <1>11. ASSUME NEW t \in Threads, CleanTerminate(t) PROVE DisconnectedIsDown'
    <2> PICK n : n = Len(frames[t])
      OBVIOUS
    <2> PICK m : m = frames[t][n].module
      OBVIOUS
    <2>1. m \in DOMAIN modules
      BY <1>11, TopModule DEF CleanTerminate
    <2>2. /\ Disturbs(t, n) /\ UNCHANGED overlapped
          /\ \/ Enters(t, n, m)
             \/ frames'[t][n].at = "delete" /\ PassesOver(m)
      BY <1>11, <2>1, CleanTerminates
    <2>3. /\ DOMAIN modules' = DOMAIN modules
          /\ \A k \in DOMAIN modules :
                /\ modules'[k].connected = modules[k].connected
                /\ ~modules[k].connected /\ modules[k].life # "up" => modules'[k].life # "up"
      BY <2>2, EntersModules
    <2>4. frames'[t][n].at = "inside" => modules[frames'[t][n].module].connected
      BY <2>2 DEF Enters
    <2> QED
      BY <2>2, <2>3, <2>4, DroppedStayOne
  <1>12. ASSUME NEW t \in Threads, CleanTerminated(t) PROVE DisconnectedIsDown'
    <2> PICK n : n = Len(frames[t])
      OBVIOUS
    <2>1. Disturbs(t, n) /\ frames'[t][n].at = "delete" /\ UNCHANGED <<modules, overlapped>>
      BY <1>12, CleanGoesOn
    <2> QED
      BY <2>1, DroppedStayOne
  <1>13. ASSUME NEW t \in Threads, CleanDelete(t) PROVE DisconnectedIsDown'
    <2> PICK n : n = Len(frames[t])
      OBVIOUS
    <2> PICK m : m = frames[t][n].module
      OBVIOUS
    <2>1. m \in DOMAIN modules
      BY <1>13, TopModule DEF CleanDelete
    <2>2. Disturbs(t, n) /\ n \notin Positions(t)' /\ UNCHANGED <<modules, overlapped>>
      BY <1>13, <2>1, CleanDeletes
    <2> QED
      BY <2>2, DroppedStayOne
  <1> QED
    BY <1>1, <1>2, <1>3, <1>4, <1>5, <1>6, <1>7, <1>8, <1>9, <1>10, <1>11, <1>12, <1>13
       DEF Next, QuietStep

-----------------------------------------------------------------------------
(* What there is of a module *)

LEMMA LoadingIs ==
    ASSUME TypeOK, NEW m, m # 0
    PROVE  Loading(m) <=> \E t \in Threads : \E i \in Positions(t) :
                             LoadAt(t, i) /\ frames[t][i].module = m
  <1>1. StacksOK
    BY DEF TypeOK, StacksOK
  <1>2. ASSUME NEW t \in Threads, NEW i \in Positions(t)
        PROVE  LoadAt(t, i) /\ frames[t][i].module = m <=>
                  frames[t][i].op = "load" /\ frames[t][i].module = m
    <2>1. frames[t][i] \in Frames
      BY <1>1, StackTypes
    <2> QED
      BY <2>1, FrameFields DEF LoadAt
  <1>3. Loading(m) <=> \E t \in Threads : \E i \in Positions(t) :
                          frames[t][i].op = "load" /\ frames[t][i].module = m
    BY DEF Loading, FramesOf, Positions
  <1> QED
    BY <1>2, <1>3

LEMMA LoadingWillBe ==
    ASSUME TypeOK', NEW m, m # 0
    PROVE  Loading(m)' <=> \E t \in Threads : \E i \in Positions(t)' :
                              LoadAt(t, i)' /\ frames'[t][i].module = m
  <1>1. StacksOK'
    BY DEF TypeOK, StacksOK
  <1>2. ASSUME NEW t \in Threads, NEW i \in Positions(t)'
        PROVE  LoadAt(t, i)' /\ frames'[t][i].module = m <=>
                  frames'[t][i].op = "load" /\ frames'[t][i].module = m
    <2>1. frames'[t][i] \in Frames
      BY <1>1, ElementOfSeq, PositionsAfter DEF StacksOK
    <2> QED
      BY <2>1, FrameFields DEF LoadAt
  <1>3. Loading(m)' <=> \E t \in Threads : \E i \in Positions(t)' :
                          frames'[t][i].op = "load" /\ frames'[t][i].module = m
    BY DEF Loading, FramesOf, Positions
  <1> QED
    BY <1>2, <1>3

LEMMA SameLoadings ==
    ASSUME TypeOK, TypeOK', SameLoads, NEW m, m # 0
    PROVE  Loading(m)' <=> Loading(m)
  <1>1. ASSUME Loading(m) PROVE Loading(m)'
    BY <1>1, LoadingIs, LoadingWillBe DEF SameLoads, Kept, LoadAt
  <1>2. ASSUME Loading(m)' PROVE Loading(m)
    BY <1>2, LoadingIs, LoadingWillBe DEF SameLoads, Kept, LoadAt
  <1> QED
    BY <1>1, <1>2

\* A load that goes on or returns starts no other.
LEMMA LoadingStays ==
    ASSUME TypeOK, TypeOK', NEW t \in Threads, NEW n, Disturbs(t, n),
           NEW m, m # 0, Loading(m)',
           n \in Positions(t)' => \/ frames'[t][n].module # m
                                  \/ /\ n \in Positions(t) /\ LoadAt(t, n)
                                     /\ frames[t][n].module = frames'[t][n].module
    PROVE  Loading(m)
  <1>0. PICK u \in Threads :
            \E i \in Positions(u)' : LoadAt(u, i)' /\ frames'[u][i].module = m
    BY LoadingWillBe
  <1>1. PICK i \in Positions(u)' : LoadAt(u, i)' /\ frames'[u][i].module = m
    BY <1>0
  <1>2. i \in Positions(u) /\ LoadAt(u, i) /\ frames[u][i].module = m
    <2>1. Kept(u, i) \/ (u = t /\ i = n)
      BY DEF Disturbs
    <2> QED
      BY <1>1, <2>1 DEF Kept, LoadAt
  <1> QED
    BY <1>2, LoadingIs

LEMMA SameCleaning ==
    ASSUME SameCleans, NEW m
    PROVE  (CleaningUp(m)' <=> CleaningUp(m)) /\ (CleanupStarted(m)' <=> CleanupStarted(m))
  BY DEF SameCleans, Kept, CleaningUp, CleanupStarted, CleanAt

\* A cleanup that goes on is one of the same module.
LEMMA CleaningGoesOn ==
    ASSUME NEW t \in Threads, NEW n, Disturbs(t, n), n \in Positions(t)', CleanAt(t, n)',
           n \in Positions(t) => frames'[t][n].module = frames[t][n].module,
           NEW m, CleaningUp(m)
    PROVE  CleaningUp(m)'
  <1>0. PICK u \in Threads : \E i \in Positions(u) : CleanAt(u, i) /\ frames[u][i].module = m
    BY DEF CleaningUp
  <1>1. PICK i \in Positions(u) : CleanAt(u, i) /\ frames[u][i].module = m
    BY <1>0
  <1>2. Kept(u, i) \/ (u = t /\ i = n)
    BY DEF Disturbs
  <1>3. i \in Positions(u)' /\ CleanAt(u, i)' /\ frames'[u][i].module = m
    BY <1>1, <1>2 DEF Kept, CleanAt
  <1> QED
    BY <1>3 DEF CleaningUp

LEMMA StartedStays ==
    ASSUME NEW t \in Threads, NEW n, Disturbs(t, n), NEW m,
           n \in Positions(t)' => frames'[t][n].module # m \/ frames'[t][n].at # "terminate",
           CleanupStarted(m)'
    PROVE  CleanupStarted(m)
  <1>0. PICK u \in Threads : \E i \in Positions(u)' :
            CleanAt(u, i)' /\ frames'[u][i].module = m /\ frames'[u][i].at = "terminate"
    BY DEF CleanupStarted
  <1>1. PICK i \in Positions(u)' :
            CleanAt(u, i)' /\ frames'[u][i].module = m /\ frames'[u][i].at = "terminate"
    BY <1>0
  <1>2. Kept(u, i)
    BY <1>1 DEF Disturbs
  <1> QED
    BY <1>1, <1>2 DEF Kept, CleanAt, CleanupStarted

LEMMA NamedStays ==
    ASSUME \A l \in Locators, p \in Paths :
              registered'[l][p] = registered[l][p] \/ registered'[l][p] = 0,
           NEW m, m # 0, Named(m)'
    PROVE  Named(m)
  BY DEF Named

LEMMA CleanedUpStays ==
    ASSUME NEW m, CleanedUp(m), Loading(m)' => Loading(m), CleanupLeft(m)' => CleanupLeft(m),
           CleanupStarted(m)' => CleanupStarted(m), Named(m)' => Named(m),
           Named(m)' /\ CleaningUp(m) => CleaningUp(m)'
    PROVE  CleanedUp(m)'
  BY DEF CleanedUp

\* TerminateAllPlugins keeps what it has terminated in mind.
LEMMA ToBeDroppedStays ==
    ASSUME NEW m, ToBeDropped(m), modules'[m].path = modules[m].path,
           registered["own"][modules[m].path] = m => registered'["own"][modules[m].path] = m,
           NEW t \in Threads, NEW n, Disturbs(t, n),
           n \in Positions(t) /\ AllAt(t, n)
              /\ modules[m].path \in frames[t][n].names \ frames[t][n].left =>
                    /\ n \in Positions(t)' /\ AllAt(t, n)'
                    /\ modules[m].path \in frames'[t][n].names \ frames'[t][n].left
    PROVE  ToBeDropped(m)'
  <1>0. PICK u \in Threads : \E i \in Positions(u) :
           /\ AllAt(u, i) /\ modules[m].path \in (frames[u][i].names \ Nested) \ frames[u][i].left
           /\ registered["own"][modules[m].path] = m
    BY DEF ToBeDropped
  <1>1. PICK i \in Positions(u) :
           /\ AllAt(u, i) /\ modules[m].path \in (frames[u][i].names \ Nested) \ frames[u][i].left
           /\ registered["own"][modules[m].path] = m
    BY <1>0
  <1>2. Kept(u, i) \/ (u = t /\ i = n)
    BY DEF Disturbs
  <1>3. /\ i \in Positions(u)' /\ AllAt(u, i)'
        /\ modules'[m].path \in (frames'[u][i].names \ Nested) \ frames'[u][i].left
        /\ registered'["own"][modules'[m].path] = m
    BY <1>1, <1>2 DEF Kept, AllAt
  <1> QED
    BY <1>3 DEF ToBeDropped

LEMMA SameToBeDropped ==
    ASSUME SameAlls, UNCHANGED registered, NEW m, ToBeDropped(m),
           modules'[m].path = modules[m].path
    PROVE  ToBeDropped(m)'
  BY DEF SameAlls, Kept, ToBeDropped, AllAt

LEMMA OnceStays ==
    ASSUME NEW m, OnceOK(m), modules[m].early => modules'[m].early,
           modules'[m].terminated = modules[m].terminated,
           modules'[m].connected => modules[m].connected,
           ~modules'[m].early /\ modules'[m].terminated > 0 /\ modules'[m].connected =>
              /\ CleanedUp(m) => CleanedUp(m)'
              /\ ToBeDropped(m) => ToBeDropped(m)'
    PROVE  OnceOK(m)'
  BY DEF OnceOK

-----------------------------------------------------------------------------
(* TerminatedOK *)

\* A module that is neither terminated nor dropped stays as it was.
LEMMA OnceStaysIfSame ==
    ASSUME TypeOK, TypeOK', NEW m, m # 0, OnceOK(m), modules'[m].path = modules[m].path,
           modules[m].early => modules'[m].early,
           modules'[m].terminated = modules[m].terminated,
           modules'[m].connected => modules[m].connected,
           UNCHANGED <<registered, cleanups>>,
           SameLoads, SameCleans,
           ToBeDropped(m) => ToBeDropped(m)'
    PROVE  OnceOK(m)'
  <1>1. (Loading(m)' <=> Loading(m)) /\ (CleaningUp(m)' <=> CleaningUp(m))
        /\ (CleanupStarted(m)' <=> CleanupStarted(m))
    BY SameLoadings, SameCleaning
  <1>2. (CleanupLeft(m)' <=> CleanupLeft(m)) /\ (Named(m)' <=> Named(m))
    BY DEF CleanupLeft, Named
  <1>3. CleanedUp(m) => CleanedUp(m)'
    BY <1>1, <1>2, CleanedUpStays
  <1> QED
    BY <1>3, OnceStays

LEMMA AllTerminateOnce ==
    ASSUME TypeOK, TypeOK', Stacked, LoadsOK, NamesOK, AllOK, OneTerminator, TerminatedOK,
           NEW t \in Threads, AllTerminate(t)
    PROVE  TerminatedOK'
  <1> PICK n : n = Len(frames[t])
    OBVIOUS
  <1>1. /\ Disturbs(t, n) /\ SameLoads /\ SameCleans
        /\ n \in Positions(t) /\ n \in Positions(t)'
        /\ frames[t][n].op = "all" /\ frames[t][n].at = "next" /\ frames'[t][n].op = "all"
        /\ frames'[t][n].names = frames[t][n].names
        /\ UNCHANGED <<registered, cleanups, overlapped>>
    BY AllTerminates
  <1>2. PICK p \in frames[t][n].left :
           /\ p \in Paths /\ frames'[t][n].left = frames[t][n].left \ {p}
           /\ \/ Enters(t, n, registered["own"][p])
              \/ frames'[t][n].at = "next" /\ PassesOver(registered["own"][p])
    BY AllTerminates
  <1> PICK m : m = registered["own"][p]
    OBVIOUS
  <1>3. Enters(t, n, m) \/ PassesOver(m)
    BY <1>2
  <1>4. DOMAIN modules = 1 .. Len(modules) /\ Len(modules) \in Nat
    BY ModuleFields
  <1>5. EndAt(t, n) /\ AllAt(t, n)' /\ p \in frames[t][n].names \ Nested
    <2>1. AllAt(t, n) /\ AllAt(t, n)'
      BY <1>1, <1>2 DEF AllAt, Enters
    <2>2. AllGood(t, n)
      BY <1>1, <2>1 DEF AllOK
    <2> QED
      BY <1>2, <2>1, <2>2 DEF EndAt, AllGood
  <1>6. ASSUME NEW k, modules'[k].path = modules[k].path, ToBeDropped(k)
        PROVE  ToBeDropped(k)'
    BY <1>1, <1>2, <1>5, <1>6, ToBeDroppedStays
  <1>7. ASSUME ~overlapped, NEW k \in DOMAIN modules, OnceOK(k), modules'[k] = modules[k]
        PROVE  OnceOK(k)'
    BY <1>1, <1>4, <1>6, <1>7, OnceStaysIfSame
  <1>8. ASSUME ~overlapped, Enters(t, n, m), OnceOK(m)
        PROVE  OnceOK(m)'
    <2> SUFFICES ASSUME ~modules'[m].early
                 PROVE  modules'[m].terminated = 1 /\ ToBeDropped(m)'
      BY DEF OnceOK
    <2>0. m \in DOMAIN modules /\ m # 0
      BY <1>4, <1>8 DEF Enters
    <2>1. /\ modules[m].connected /\ modules'[m].terminated = modules[m].terminated + 1
          /\ modules'[m].path = modules[m].path /\ ~modules[m].early
          /\ modules[m].terminated \in Nat
      BY <1>8, <2>0, TerminatedChanges, ModuleFields DEF Enters, Changes
    <2>2. modules[m].path = p
      BY <1>2, <2>0 DEF NamesOK, Locators
    <2>3. ~CleanedUp(m)
      <3> SUFFICES ASSUME CleanedUp(m) PROVE FALSE
        OBVIOUS
      <3>1. Named(m)
        BY <1>2 DEF Named, Locators
      <3>2. PICK u \in Threads :
               \E i \in Positions(u) : CleanAt(u, i) /\ frames[u][i].module = m
        BY <3>1 DEF CleanedUp, CleaningUp
      <3>3. PICK i \in Positions(u) : CleanAt(u, i)
        BY <3>2
      <3>4. u = t /\ i = n
        <4>1. EndAt(u, i)
          BY <3>3 DEF EndAt
        <4> QED
          BY <1>1, <1>5, <1>8, <3>3, <4>1, OnlyEnd
      <3> QED
        BY <1>1, <3>3, <3>4 DEF CleanAt
    <2>4. ~ToBeDropped(m)
      <3> SUFFICES ASSUME ToBeDropped(m) PROVE FALSE
        OBVIOUS
      <3>1. PICK u \in Threads : \E i \in Positions(u) :
               AllAt(u, i) /\ modules[m].path \in (frames[u][i].names \ Nested) \ frames[u][i].left
        BY DEF ToBeDropped
      <3>2. PICK i \in Positions(u) :
               AllAt(u, i) /\ modules[m].path \in (frames[u][i].names \ Nested) \ frames[u][i].left
        BY <3>1
      <3>3. u = t /\ i = n
        <4>1. EndAt(u, i)
          BY <3>2 DEF EndAt
        <4> QED
          BY <1>1, <1>5, <1>8, <3>2, <4>1, OnlyEnd
      <3> QED
        BY <1>2, <2>2, <3>2, <3>3
    <2>5. modules[m].terminated = 0
      BY <1>8, <2>1, <2>3, <2>4 DEF OnceOK
    <2>6. ToBeDropped(m)'
      BY <1>1, <1>2, <1>5, <2>1, <2>2 DEF ToBeDropped
    <2> QED
      BY <2>1, <2>5, <2>6
  <1>9. ASSUME ~overlapped', NEW k \in DOMAIN modules' PROVE OnceOK(k)'
    <2>1. k \in DOMAIN modules
      BY <1>3, EntersModules
    <2>2. ~overlapped /\ OnceOK(k)
      BY <1>1, <1>9, <2>1 DEF TerminatedOK
    <2>3. CASE Enters(t, n, m) /\ k = m
      BY <1>8, <2>2, <2>3
    <2>4. CASE ~(Enters(t, n, m) /\ k = m)
      <3>1. modules'[k] = modules[k]
        BY <1>3, <2>1, <2>4, EntersModules
      <3> QED
        BY <1>7, <2>1, <2>2, <3>1
    <2> QED
      BY <2>3, <2>4
  <1> QED
    BY <1>9 DEF TerminatedOK

LEMMA CleanTerminateOnce ==
    ASSUME TypeOK, TypeOK', Stacked, LoadsOK, CleanupsOK, OneTerminator, TerminatedOK,
           NEW t \in Threads, CleanTerminate(t)
    PROVE  TerminatedOK'
  <1> PICK n : n = Len(frames[t])
    OBVIOUS
  <1> PICK m : m = frames[t][n].module
    OBVIOUS
  <1>1. m \in DOMAIN modules
    BY TopModule DEF CleanTerminate
  <1>2. /\ Disturbs(t, n) /\ SameLoads /\ SameAlls
        /\ n \in Positions(t) /\ n \in Positions(t)'
        /\ frames[t][n].op = "clean" /\ frames[t][n].at = "terminate"
        /\ frames'[t][n].op = "clean" /\ frames'[t][n].module = m
        /\ UNCHANGED <<registered, cleanups, overlapped>>
    BY <1>1, CleanTerminates
  <1>3. \/ Enters(t, n, m)
        \/ frames'[t][n].at = "delete" /\ PassesOver(m)
    BY <1>1, CleanTerminates
  <1>4. DOMAIN modules = 1 .. Len(modules) /\ Len(modules) \in Nat
    BY ModuleFields
  <1>5. CleanAt(t, n) /\ EndAt(t, n) /\ CleanAt(t, n)' /\ frames'[t][n].at # "terminate"
    BY <1>2, <1>3 DEF CleanAt, EndAt, Enters
  <1>6. \A k \in DOMAIN modules : modules'[k].path = modules[k].path
    BY <1>3, EntersModules
  <1>7. ASSUME NEW k \in DOMAIN modules, CleanedUp(k) PROVE CleanedUp(k)'
    <2>1. Loading(k)' => Loading(k)
      BY <1>2, <1>4, SameLoadings
    <2>2. CleanupStarted(k)' => CleanupStarted(k)
      BY <1>2, <1>5, StartedStays
    <2>3. CleaningUp(k) => CleaningUp(k)'
      BY <1>2, <1>5, CleaningGoesOn
    <2>4. (CleanupLeft(k)' => CleanupLeft(k)) /\ (Named(k)' => Named(k))
      BY <1>2 DEF CleanupLeft, Named
    <2> QED
      BY <1>7, <2>1, <2>2, <2>3, <2>4, CleanedUpStays
  <1>8. ASSUME NEW k \in DOMAIN modules, OnceOK(k), modules'[k] = modules[k]
        PROVE  OnceOK(k)'
    BY <1>2, <1>7, <1>8, SameToBeDropped, OnceStays
  <1>9. ASSUME ~overlapped, Enters(t, n, m), OnceOK(m) PROVE OnceOK(m)'
    <2> SUFFICES ASSUME ~modules'[m].early
                 PROVE  modules'[m].terminated = 1 /\ CleanedUp(m)'
      BY DEF OnceOK
    <2>1. /\ modules[m].connected /\ modules'[m].terminated = modules[m].terminated + 1
          /\ ~modules[m].early /\ ~Loading(m) /\ modules[m].terminated \in Nat
      BY <1>1, <1>9, TerminatedChanges, ModuleFields DEF Enters
    <2>2. ~CleanedUp(m)
      BY <1>2, <1>5 DEF CleanedUp, CleanupStarted
    <2>3. ~ToBeDropped(m)
      <3> SUFFICES ASSUME ToBeDropped(m) PROVE FALSE
        OBVIOUS
      <3>1. PICK u \in Threads : \E i \in Positions(u) : AllAt(u, i)
        BY DEF ToBeDropped
      <3>2. PICK i \in Positions(u) : AllAt(u, i)
        BY <3>1
      <3>3. u = t /\ i = n
        <4>1. EndAt(u, i)
          BY <3>2 DEF EndAt
        <4> QED
          BY <1>2, <1>5, <1>9, <3>2, <4>1, OnlyEnd
      <3> QED
        BY <1>2, <3>2, <3>3 DEF AllAt
    <2>4. modules[m].terminated = 0
      BY <1>9, <2>1, <2>2, <2>3 DEF OnceOK
    <2>5. ~Loading(m)'
      BY <1>1, <1>2, <1>4, <2>1, SameLoadings
    <2>6. ~CleanupLeft(m)'
      BY <1>2, <1>5 DEF CleanupsOK, CleanupLeft
    <2>7. ~CleanupStarted(m)'
      <3> SUFFICES ASSUME CleanupStarted(m)' PROVE FALSE
        OBVIOUS
      <3>1. PICK u \in Threads : \E i \in Positions(u)' :
               CleanAt(u, i)' /\ frames'[u][i].at = "terminate"
        BY DEF CleanupStarted
      <3>2. PICK i \in Positions(u)' : CleanAt(u, i)' /\ frames'[u][i].at = "terminate"
        BY <3>1
      <3>3. Kept(u, i)
        BY <1>2, <1>5, <3>2 DEF Disturbs
      <3>4. i \in Positions(u) /\ EndAt(u, i)
        BY <3>2, <3>3 DEF Kept, CleanAt, EndAt
      <3>5. u = t /\ i = n
        BY <1>2, <1>5, <1>9, <3>4, OnlyEnd
      <3> QED
        BY <1>5, <3>2, <3>5
    <2>8. CleaningUp(m)'
      BY <1>2, <1>5 DEF CleaningUp
    <2>9. CleanedUp(m)'
      BY <2>5, <2>6, <2>7, <2>8 DEF CleanedUp
    <2> QED
      BY <2>1, <2>4, <2>9
  <1>10. ASSUME ~overlapped', NEW k \in DOMAIN modules' PROVE OnceOK(k)'
    <2>1. k \in DOMAIN modules
      BY <1>3, <1>10, EntersModules
    <2>2. ~overlapped /\ OnceOK(k)
      BY <1>2, <1>10, <2>1 DEF TerminatedOK
    <2>3. CASE Enters(t, n, m) /\ k = m
      BY <1>9, <2>2, <2>3
    <2>4. CASE ~(Enters(t, n, m) /\ k = m)
      BY <1>3, <1>8, <2>1, <2>2, <2>4, EntersModules
    <2> QED
      BY <2>3, <2>4
  <1> QED
    BY <1>10 DEF TerminatedOK

\* A load leaves what it says of the modules that are terminated already.
LEMMA LoadingsOnce ==
    ASSUME TypeOK, TypeOK', TerminatedOK, overlapped => overlapped',
           NEW t \in Threads, NEW n, Disturbs(t, n), SameAlls, SameCleans,
           UNCHANGED cleanups, DOMAIN modules' = DOMAIN modules,
           n \in Positions(t) /\ LoadAt(t, n),
           n \in Positions(t)' => frames'[t][n].module = frames[t][n].module,
           NEW m, 
           \A k \in DOMAIN modules :
              /\ modules'[k].path = modules[k].path
              /\ modules'[k].early = modules[k].early
              /\ modules'[k].terminated = modules[k].terminated
              /\ modules'[k].connected = modules[k].connected,
           m \in DOMAIN modules => OnceOK(m)',
           \A l \in Locators, p \in Paths : registered'[l][p] # registered[l][p] =>
              registered[l][p] = 0 /\ registered'[l][p] = m
    PROVE  TerminatedOK'
  <1>1. DOMAIN modules = 1 .. Len(modules) /\ Len(modules) \in Nat
    BY ModuleFields
  <1>2. ASSUME ~overlapped', NEW k \in DOMAIN modules', k # m PROVE OnceOK(k)'
    <2>1. k \in DOMAIN modules /\ k # 0 /\ OnceOK(k)
      BY <1>1, <1>2 DEF TerminatedOK
    <2>2. Loading(k)' => Loading(k)
      BY <2>1, LoadingStays
    <2>3. (CleaningUp(k)' <=> CleaningUp(k)) /\ (CleanupStarted(k)' <=> CleanupStarted(k))
      BY SameCleaning
    <2>4. (CleanupLeft(k)' => CleanupLeft(k)) /\ (Named(k)' => Named(k))
      BY <1>2 DEF CleanupLeft, Named
    <2>5. CleanedUp(k) => CleanedUp(k)'
      BY <2>2, <2>3, <2>4, CleanedUpStays
    <2>6. ToBeDropped(k) => ToBeDropped(k)'
      <3>1. n \in Positions(t) => ~AllAt(t, n)
        BY DEF LoadAt, AllAt
      <3>2. modules[k].path \in Paths
        BY <2>1, ModuleFields
      <3>3. registered["own"][modules[k].path] = k => registered'["own"][modules[k].path] = k
        BY <2>1, <3>2 DEF Locators
      <3> QED
        BY <2>1, <3>1, <3>3, ToBeDroppedStays
    <2> QED
      BY <2>1, <2>5, <2>6, OnceStays
  <1> QED
    BY <1>2 DEF TerminatedOK

LEMMA NextTerminatedOK ==
    ASSUME TypeOK, TypeOK', Stacked, LoadsOK, NamesOK, AllOK, CleanupsOK, OneTerminator,
           TerminatedOK, [Next]_vars
    PROVE  TerminatedOK'
  <1>0. /\ DOMAIN modules = 1 .. Len(modules) /\ Len(modules) \in Nat
        /\ \A k \in DOMAIN modules : k # 0
    BY ModuleFields
  <1>1. CASE (\E t \in Threads : QuietStep(t)) \/ UNCHANGED vars
    <2>1. Quiet
      BY <1>1, QuietSteps
    <2>2. ASSUME ~overlapped', NEW k \in DOMAIN modules' PROVE OnceOK(k)'
      <3>1. k \in DOMAIN modules /\ OnceOK(k) /\ k # 0
        BY <1>0, <2>1, <2>2 DEF Quiet, TerminatedOK
      <3>2. ToBeDropped(k) => ToBeDropped(k)'
        BY <2>1, SameToBeDropped DEF Quiet
      <3> QED
        BY <2>1, <3>1, <3>2, OnceStaysIfSame DEF Quiet
    <2> QED
      BY <2>2 DEF TerminatedOK
  <1>2. ASSUME NEW t \in Threads, LoadConnect(t) PROVE TerminatedOK'
    <2> PICK n : n = Len(frames[t])
      OBVIOUS
    <2>1. /\ Disturbs(t, n) /\ SameAlls /\ SameCleans /\ UNCHANGED <<registered, overlapped>>
          /\ frames'[t][n].module = Len(modules) + 1
          /\ DOMAIN modules' = 1 .. Len(modules) + 1
          /\ \A k \in DOMAIN modules : modules'[k] = modules[k]
          /\ modules'[Len(modules) + 1].terminated = 0
          /\ \A k \in DOMAIN cleanups' : \/ k \in DOMAIN cleanups
                                         \/ cleanups'[k] = Len(modules) + 1
          /\ \A k \in DOMAIN cleanups : k \in DOMAIN cleanups' /\ cleanups'[k] = cleanups[k]
      BY <1>2, LoadConnects
    <2>2. ASSUME ~overlapped', NEW k \in DOMAIN modules PROVE OnceOK(k)'
      <3>1. OnceOK(k) /\ k # 0 /\ k # Len(modules) + 1 /\ modules'[k] = modules[k]
        BY <1>0, <2>1, <2>2 DEF TerminatedOK
      <3>2. Loading(k)' => Loading(k)
        BY <2>1, <3>1, LoadingStays
      <3>3. (CleaningUp(k)' <=> CleaningUp(k)) /\ (CleanupStarted(k)' <=> CleanupStarted(k))
        BY <2>1, SameCleaning
      <3>4. CleanupLeft(k)' => CleanupLeft(k)
        BY <2>1, <3>1 DEF CleanupLeft
      <3>5. Named(k)' => Named(k)
        BY <2>1 DEF Named
      <3>6. CleanedUp(k) => CleanedUp(k)'
        BY <3>2, <3>3, <3>4, <3>5, CleanedUpStays
      <3>7. ToBeDropped(k) => ToBeDropped(k)'
        BY <2>1, <3>1, SameToBeDropped
      <3> QED
        BY <3>1, <3>6, <3>7, OnceStays
    <2> PICK g : g = Len(modules) + 1
      OBVIOUS
    <2>3. OnceOK(g)'
      BY <2>1 DEF OnceOK
    <2>4. \A k \in DOMAIN modules' : k \in DOMAIN modules \/ k = g
      BY <1>0, <2>1
    <2>5. ASSUME ~overlapped', NEW k \in DOMAIN modules' PROVE OnceOK(k)'
      BY <2>2, <2>3, <2>4, <2>5
    <2> QED
      BY <2>5 DEF TerminatedOK
  <1>3. ASSUME NEW t \in Threads, LoadInitialize(t) PROVE TerminatedOK'
    <2> PICK n : n = Len(frames[t])
      OBVIOUS
    <2>1. /\ Disturbs(t, n) /\ SameAlls /\ SameCleans
          /\ n \in Positions(t) /\ frames[t][n].op = "load" /\ frames[t][n].at = "connected"
          /\ n \in Positions(t)' => frames'[t][n].module = frames[t][n].module
          /\ UNCHANGED <<modules, registered, cleanups, overlapped>>
      BY <1>3, LoadInitializes
    <2>2. LoadAt(t, n)
      BY <2>1 DEF LoadAt
    <2> QED
      BY <1>0, <2>1, <2>2, LoadingsOnce
  <1>4. ASSUME NEW t \in Threads, InitializeFails(t) \/ InitializeWorks(t) PROVE TerminatedOK'
    <2> PICK n : n = Len(frames[t])
      OBVIOUS
    <2> PICK m : m = frames[t][n].module
      OBVIOUS
    <2>1. m \in DOMAIN modules
      BY <1>4, TopModule DEF InitializeFails, InitializeWorks
    <2>2. /\ Disturbs(t, n) /\ SameAlls /\ SameCleans /\ n \in Positions(t)
          /\ frames[t][n].op = "load" /\ frames[t][n].at = "inside"
          /\ n \in Positions(t)' => frames'[t][n].module = m
          /\ Changes(m) /\ modules'[m].connected = modules[m].connected
          /\ modules'[m].terminated = modules[m].terminated
          /\ modules'[m].early = modules[m].early
          /\ UNCHANGED <<registered, cleanups, overlapped>>
      BY <1>4, <2>1, InitializeEnds
    <2>3. LoadAt(t, n)
      BY <2>2 DEF LoadAt
    <2>4. /\ DOMAIN modules' = DOMAIN modules
          /\ \A k \in DOMAIN modules :
                /\ modules'[k].path = modules[k].path
                /\ modules'[k].early = modules[k].early
                /\ modules'[k].terminated = modules[k].terminated
                /\ modules'[k].connected = modules[k].connected
      BY <2>2 DEF Changes
    <2> QED
      BY <1>0, <2>2, <2>3, <2>4, LoadingsOnce
  <1>5. ASSUME NEW t \in Threads, LoadAdd(t) PROVE TerminatedOK'
    <2> PICK n : n = Len(frames[t])
      OBVIOUS
    <2> PICK m : m = frames[t][n].module
      OBVIOUS
    <2>1. m \in DOMAIN modules
      BY <1>5, TopModule DEF LoadAdd
    <2>2. /\ Disturbs(t, n) /\ SameAlls /\ SameCleans
          /\ n \in Positions(t) /\ n \notin Positions(t)'
          /\ frames[t][n].op = "load" /\ frames[t][n].at = "add"
          /\ \A l \in Locators, p \in Paths : registered'[l][p] # registered[l][p] =>
                registered[l][p] = 0 /\ registered'[l][p] = m
          /\ UNCHANGED <<modules, cleanups, overlapped>>
      BY <1>5, <2>1, LoadAdds
    <2>3. LoadAt(t, n)
      BY <2>2 DEF LoadAt
    <2>4. OnceOK(m)'
      <3>1. LoadOK(t, n)
        BY <2>2, <2>3 DEF LoadsOK
      <3> QED
        BY <2>2, <3>1 DEF LoadOK, OnceOK
    <2> QED
      BY <2>2, <2>3, <2>4, LoadingsOnce
  <1>6. ASSUME NEW t \in Threads, NEW n, Disturbs(t, n), SameLoads, SameCleans,
               UNCHANGED <<modules, registered, cleanups>>, overlapped => overlapped',
               \A p : n \in Positions(t) /\ AllAt(t, n)
                         /\ p \in frames[t][n].names \ frames[t][n].left =>
                      /\ n \in Positions(t)' /\ AllAt(t, n)'
                      /\ p \in frames'[t][n].names \ frames'[t][n].left
        PROVE  TerminatedOK'
    <2>1. ASSUME ~overlapped', NEW k \in DOMAIN modules' PROVE OnceOK(k)'
      <3>1. k \in DOMAIN modules /\ OnceOK(k) /\ k # 0
        BY <1>0, <1>6, <2>1 DEF TerminatedOK
      <3>2. ToBeDropped(k) => ToBeDropped(k)'
        BY <1>6, ToBeDroppedStays
      <3> QED
        BY <1>6, <3>1, <3>2, OnceStaysIfSame
    <2> QED
      BY <2>1 DEF TerminatedOK
  <1>7. ASSUME NEW t \in Threads, AllLock(t) \/ AllTerminated(t) \/ AllReturn(t)
        PROVE  TerminatedOK'
    <2> PICK n : n = Len(frames[t])
      OBVIOUS
    <2>1. CASE AllLock(t)
      <3>1. /\ Disturbs(t, n) /\ SameLoads /\ SameCleans /\ frames[t][n].at = "lock"
            /\ (overlapped' <=> Overlaps(t)) /\ UNCHANGED <<modules, registered, cleanups>>
        BY <2>1, AllLocks
      <3> QED
        BY <1>6, <3>1 DEF AllAt, Overlaps
    <2>2. CASE AllTerminated(t)
      <3>1. /\ Disturbs(t, n) /\ SameLoads /\ SameCleans /\ n \in Positions(t)'
            /\ frames'[t][n].op = "all" /\ frames'[t][n].at = "next"
            /\ frames'[t][n].left = frames[t][n].left
            /\ frames'[t][n].names = frames[t][n].names
            /\ UNCHANGED <<modules, registered, cleanups, overlapped>>
        BY <2>2, AllGoesOn
      <3> QED
        BY <1>6, <3>1 DEF AllAt
    <2>3. CASE AllReturn(t)
      <3>1. /\ Disturbs(t, n) /\ SameLoads /\ SameCleans /\ frames[t][n].names = {}
            /\ UNCHANGED <<modules, registered, cleanups, overlapped>>
        BY <2>3, AllReturns
      <3> QED
        BY <1>6, <3>1
    <2> QED
      BY <1>7, <2>1, <2>2, <2>3
  <1>8. ASSUME NEW t \in Threads, AllTerminate(t) PROVE TerminatedOK'
    BY <1>8, AllTerminateOnce
  <1>9. ASSUME NEW t \in Threads, AllDisconnect(t) PROVE TerminatedOK'
    <2> PICK n : n = Len(frames[t])
      OBVIOUS
    <2>1. /\ Disturbs(t, n) /\ SameLoads /\ SameCleans /\ n \in Positions(t)'
          /\ frames'[t][n].op = "all" /\ frames'[t][n].at = "next"
          /\ frames'[t][n].left = {} /\ UNCHANGED <<cleanups, overlapped>>
      BY <1>9, AllDisconnects
    <2>2. PICK q \in frames[t][n].names :
             /\ q \in Paths /\ frames'[t][n].names = frames[t][n].names \ {q}
             /\ registered'["own"][q] = 0
             /\ \A l \in Locators, p \in Paths :
                   l # "own" \/ p # q => registered'[l][p] = registered[l][p]
             /\ \/ (registered["own"][q] = 0 \/ q \in Nested) /\ UNCHANGED modules
                \/ /\ registered["own"][q] \in DOMAIN modules /\ q \notin Nested
                   /\ modules' = [modules EXCEPT ![registered["own"][q]].connected = FALSE]
      BY <1>9, AllDisconnects
    <2> PICK m : m = registered["own"][q]
      OBVIOUS
    <2>3. /\ DOMAIN modules' = DOMAIN modules
          /\ \A k \in DOMAIN modules :
                /\ modules'[k].path = modules[k].path /\ modules'[k].early = modules[k].early
                /\ modules'[k].terminated = modules[k].terminated
                /\ modules'[k].connected => modules[k].connected /\ (k # m \/ q \in Nested)
      <3>1. CASE m \in DOMAIN modules /\ modules' = [modules EXCEPT ![m].connected = FALSE]
        BY <3>1, DisconnectChanges DEF Changes
      <3>2. CASE (m = 0 \/ q \in Nested) /\ UNCHANGED modules
        BY <1>0, <3>2
      <3> QED
        BY <2>2, <3>1, <3>2
    <2>4. \A l \in Locators, p \in Paths :
             registered'[l][p] = registered[l][p] \/ registered'[l][p] = 0
      BY <2>2
    <2>5. ASSUME ~overlapped', NEW k \in DOMAIN modules' PROVE OnceOK(k)'
      <3>1. k \in DOMAIN modules /\ OnceOK(k) /\ k # 0
        BY <1>0, <2>1, <2>3, <2>5 DEF TerminatedOK
      <3>2. CleanedUp(k) => CleanedUp(k)'
        <4>1. (Loading(k)' <=> Loading(k)) /\ (CleaningUp(k)' <=> CleaningUp(k))
              /\ (CleanupStarted(k)' <=> CleanupStarted(k))
          BY <2>1, <3>1, SameLoadings, SameCleaning
        <4>2. CleanupLeft(k)' => CleanupLeft(k)
          BY <2>1 DEF CleanupLeft
        <4>3. Named(k)' => Named(k)
          BY <2>4, <3>1, NamedStays
        <4> QED
          BY <4>1, <4>2, <4>3, CleanedUpStays
      <3>3. ASSUME modules'[k].connected, ToBeDropped(k) PROVE ToBeDropped(k)'
        <4>1. (k # m \/ q \in Nested) /\ modules[k].path \in Paths
          BY <2>3, <3>1, <3>3, ModuleFields
        <4>2. registered["own"][modules[k].path] = k /\ modules[k].path \notin Nested
          BY <3>3 DEF ToBeDropped
        <4>3. modules[k].path # q
          BY <4>1, <4>2
        <4>4. registered'["own"][modules[k].path] = k
          BY <2>2, <4>1, <4>2, <4>3 DEF Locators
        <4> QED
          BY <2>1, <2>2, <2>3, <3>1, <3>3, <4>3, <4>4, ToBeDroppedStays DEF AllAt
      <3> QED
        BY <2>3, <3>1, <3>2, <3>3, OnceStays
    <2> QED
      BY <2>5 DEF TerminatedOK
  <1>10. ASSUME NEW t \in Threads, CloseNext(t) PROVE TerminatedOK'
    <2> PICK n : n = Len(frames[t]) + 1
      OBVIOUS
    <2>1. /\ Disturbs(t, n) /\ SameLoads /\ SameAlls
          /\ Len(cleanups) \in Nat \ {0} /\ DOMAIN cleanups = 1 .. Len(cleanups)
          /\ DOMAIN cleanups' = 1 .. (Len(cleanups) - 1)
          /\ \A k \in DOMAIN cleanups' : cleanups'[k] = cleanups[k]
          /\ \/ SameCleans /\ UNCHANGED overlapped
             \/ CleanStarts(t, n)
          /\ UNCHANGED <<modules, registered>>
      BY <1>10, CloseCalls
    <2>2. overlapped => overlapped'
      BY <2>1 DEF CleanStarts, Overlaps
    <2>3. ASSUME ~overlapped', NEW k \in DOMAIN modules' PROVE OnceOK(k)'
      <3>1. k \in DOMAIN modules /\ OnceOK(k) /\ k # 0
        BY <1>0, <2>1, <2>2, <2>3 DEF TerminatedOK
      <3>2. ASSUME CleanedUp(k) PROVE CleanedUp(k)'
        <4>1. Loading(k)' <=> Loading(k)
          BY <2>1, <3>1, SameLoadings
        <4>2. (CleanupLeft(k)' => CleanupLeft(k)) /\ (Named(k)' => Named(k))
          BY <2>1 DEF CleanupLeft, Named
        <4>3. (CleanupStarted(k)' => CleanupStarted(k)) /\ (CleaningUp(k) => CleaningUp(k)')
          <5>1. CASE SameCleans
            BY <5>1, SameCleaning
          <5>2. CASE CleanStarts(t, n)
            <6>1. frames'[t][n].module # k /\ n \notin Positions(t)
              BY <2>1, <3>2, <5>2 DEF CleanStarts, CleanedUp, CleanupLeft
            <6>2. CleanupStarted(k)' => CleanupStarted(k)
              BY <2>1, <6>1, StartedStays
            <6>3. CleaningUp(k) => CleaningUp(k)'
              BY <2>1, <5>2, <6>1, CleaningGoesOn DEF CleanStarts, CleanAt
            <6> QED
              BY <6>2, <6>3
          <5> QED
            BY <2>1, <5>1, <5>2
        <4> QED
          BY <3>2, <4>1, <4>2, <4>3, CleanedUpStays
      <3>3. ToBeDropped(k) => ToBeDropped(k)'
        BY <2>1, SameToBeDropped
      <3> QED
        BY <2>1, <3>1, <3>2, <3>3, OnceStays
    <2> QED
      BY <2>3 DEF TerminatedOK
  <1>11. ASSUME NEW t \in Threads, CleanTerminate(t) PROVE TerminatedOK'
    BY <1>11, CleanTerminateOnce
  <1>12. ASSUME NEW t \in Threads, CleanTerminated(t) PROVE TerminatedOK'
    <2> PICK n : n = Len(frames[t])
      OBVIOUS
    <2>1. /\ Disturbs(t, n) /\ SameLoads /\ SameAlls /\ n \in Positions(t)'
          /\ frames'[t][n].op = "clean" /\ frames'[t][n].at = "delete"
          /\ frames'[t][n].module = frames[t][n].module
          /\ UNCHANGED <<modules, registered, cleanups, overlapped>>
      BY <1>12, CleanGoesOn
    <2>2. ASSUME ~overlapped', NEW k \in DOMAIN modules' PROVE OnceOK(k)'
      <3>1. k \in DOMAIN modules /\ OnceOK(k) /\ k # 0
        BY <1>0, <2>1, <2>2 DEF TerminatedOK
      <3>2. ASSUME CleanedUp(k) PROVE CleanedUp(k)'
        <4>1. Loading(k)' <=> Loading(k)
          BY <2>1, <3>1, SameLoadings
        <4>2. (CleanupLeft(k)' => CleanupLeft(k)) /\ (Named(k)' => Named(k))
          BY <2>1 DEF CleanupLeft, Named
        <4>3. CleanupStarted(k)' => CleanupStarted(k)
          BY <2>1, StartedStays
        <4>4. CleaningUp(k) => CleaningUp(k)'
          BY <2>1, CleaningGoesOn DEF CleanAt
        <4> QED
          BY <3>2, <4>1, <4>2, <4>3, <4>4, CleanedUpStays
      <3>3. ToBeDropped(k) => ToBeDropped(k)'
        BY <2>1, SameToBeDropped
      <3> QED
        BY <2>1, <3>1, <3>2, <3>3, OnceStays
    <2> QED
      BY <2>2 DEF TerminatedOK
  <1>13. ASSUME NEW t \in Threads, CleanDelete(t) PROVE TerminatedOK'
    <2> PICK n : n = Len(frames[t])
      OBVIOUS
    <2> PICK m : m = frames[t][n].module
      OBVIOUS
    <2>1. m \in DOMAIN modules
      BY <1>13, TopModule DEF CleanDelete
    <2>2. /\ Disturbs(t, n) /\ SameLoads /\ n \in Positions(t) /\ n \notin Positions(t)'
          /\ frames[t][n].op = "clean"
          /\ registered'[modules[m].locator][modules[m].path] = 0
          /\ \A l \in Locators, p \in Paths :
                registered'[l][p] = registered[l][p] \/ registered'[l][p] = 0
          /\ UNCHANGED <<modules, cleanups, overlapped>>
      BY <1>13, <2>1, CleanDeletes
    <2>3. ASSUME ~overlapped', NEW k \in DOMAIN modules' PROVE OnceOK(k)'
      <3>1. k \in DOMAIN modules /\ OnceOK(k) /\ k # 0
        BY <1>0, <2>2, <2>3 DEF TerminatedOK
      <3>2. ASSUME CleanedUp(k) PROVE CleanedUp(k)'
        <4>1. Loading(k)' <=> Loading(k)
          BY <2>2, <3>1, SameLoadings
        <4>2. CleanupLeft(k)' => CleanupLeft(k)
          BY <2>2 DEF CleanupLeft
        <4>3. Named(k)' => Named(k)
          BY <2>2, <3>1, NamedStays
        <4>4. CleanupStarted(k)' => CleanupStarted(k)
          BY <2>2, StartedStays
        <4>5. ASSUME Named(k)', CleaningUp(k) PROVE CleaningUp(k)'
          <5>1. k # m
            <6> SUFFICES ASSUME k = m PROVE FALSE
              OBVIOUS
            <6>1. PICK l \in Locators, p \in Paths : registered'[l][p] = m
              BY <4>5 DEF Named
            <6>2. registered[l][p] = m
              BY <2>2, <3>1, <6>1
            <6>3. modules[m].locator = l /\ modules[m].path = p
              BY <3>1, <6>2 DEF NamesOK
            <6> QED
              BY <2>2, <3>1, <6>1, <6>3
          <5>2. PICK u \in Threads :
                   \E i \in Positions(u) : CleanAt(u, i) /\ frames[u][i].module = k
            BY <4>5 DEF CleaningUp
          <5>3. PICK i \in Positions(u) : CleanAt(u, i) /\ frames[u][i].module = k
            BY <5>2
          <5>4. Kept(u, i)
            BY <2>2, <5>1, <5>3 DEF Disturbs
          <5> QED
            BY <5>3, <5>4 DEF Kept, CleanAt, CleaningUp
        <4> QED
          BY <3>2, <4>1, <4>2, <4>3, <4>4, <4>5, CleanedUpStays
      <3>3. ~ToBeDropped(k)
        <4> SUFFICES ASSUME ToBeDropped(k) PROVE FALSE
          OBVIOUS
        <4>1. PICK u \in Threads : \E i \in Positions(u) : AllAt(u, i)
          BY DEF ToBeDropped
        <4>2. PICK i \in Positions(u) : AllAt(u, i)
          BY <4>1
        <4>3. EndAt(u, i) /\ EndAt(t, n)
          BY <2>2, <4>2 DEF EndAt, CleanAt
        <4>4. u = t /\ i = n
          BY <2>2, <2>3, <4>3, OnlyEnd
        <4> QED
          BY <2>2, <4>2, <4>4 DEF AllAt
      <3> QED
        BY <2>2, <3>1, <3>2, <3>3, OnceStays
    <2> QED
      BY <2>3 DEF TerminatedOK
  <1> QED
    BY <1>1, <1>2, <1>3, <1>4, <1>5, <1>7, <1>8, <1>9, <1>10, <1>11, <1>12, <1>13
       DEF Next, QuietStep

-----------------------------------------------------------------------------
(* CleanupIsDue *)

LEMMA DueStays ==
    ASSUME NEW m, DueOK(m), modules'[m].cleanup = modules[m].cleanup,
           modules[m].early => modules'[m].early,
           modules[m].life # "up" /\ ~Loading(m) => modules'[m].life # "up" /\ ~Loading(m)',
           CleanupLeft(m) => CleanupLeft(m)' \/ CleanupStarted(m)',
           CleanupStarted(m) =>
              CleanupStarted(m)' \/ modules'[m].early \/ (modules'[m].life # "up" /\ ~Loading(m)')
    PROVE  DueOK(m)'
  BY DEF DueOK

\* A cleanup that waits for its module stays, where it is another frame's turn.
LEMMA StartedKept ==
    ASSUME NEW t \in Threads, NEW n, Disturbs(t, n), NEW m, CleanupStarted(m),
           n \in Positions(t) => ~(CleanAt(t, n) /\ frames[t][n].module = m
                                   /\ frames[t][n].at = "terminate")
    PROVE  CleanupStarted(m)'
  <1>0. PICK u \in Threads : \E i \in Positions(u) :
            CleanAt(u, i) /\ frames[u][i].module = m /\ frames[u][i].at = "terminate"
    BY DEF CleanupStarted
  <1>1. PICK i \in Positions(u) :
            CleanAt(u, i) /\ frames[u][i].module = m /\ frames[u][i].at = "terminate"
    BY <1>0
  <1>2. Kept(u, i)
    BY <1>1 DEF Disturbs
  <1> QED
    BY <1>1, <1>2 DEF Kept, CleanAt, CleanupStarted

\* The step that ends a cleanup's wait: Terminate runs too early or takes the module down.
LEMMA CleanTerminateDue ==
    ASSUME TypeOK, TypeOK', LoadsOK, CleanupsOK, DisconnectedIsDown, CleanupIsDue,
           NEW t \in Threads, CleanTerminate(t)
    PROVE  CleanupIsDue'
  <1> PICK n : n = Len(frames[t])
    OBVIOUS
  <1> PICK m : m = frames[t][n].module
    OBVIOUS
  <1>1. m \in DOMAIN modules
    BY TopModule DEF CleanTerminate
  <1>2. /\ Disturbs(t, n) /\ SameLoads /\ n \in Positions(t) /\ n \in Positions(t)'
        /\ (Enters(t, n, m) \/ PassesOver(m)) /\ UNCHANGED cleanups
    BY <1>1, CleanTerminates
  <1>3. /\ DOMAIN modules = 1 .. Len(modules) /\ Len(modules) \in Nat
        /\ \A k \in DOMAIN modules : k # 0
    BY ModuleFields
  <1>4. ASSUME NEW k \in DOMAIN modules' PROVE DueOK(k)'
    <2>1. k \in DOMAIN modules /\ k # 0 /\ DueOK(k)
      BY <1>2, <1>3, <1>4, EntersModules DEF CleanupIsDue
    <2>2. /\ modules'[k].cleanup = modules[k].cleanup
          /\ modules[k].early => modules'[k].early
          /\ modules[k].life # "up" => modules'[k].life # "up"
      BY <1>2, <2>1, EntersModules
    <2>3. (Loading(k)' <=> Loading(k)) /\ (CleanupLeft(k)' <=> CleanupLeft(k))
      BY <1>2, <2>1, SameLoadings DEF CleanupLeft
    <2>4. CASE k # m
      <3>1. CleanupStarted(k) => CleanupStarted(k)'
        BY <1>2, <2>4, StartedKept
      <3> QED
        BY <2>1, <2>2, <2>3, <3>1, DueStays
    <2>5. CASE k = m
      <3>1. CASE Enters(t, n, m)
        <4>1. /\ modules'[m].early <=> modules[m].early \/ Loading(m)
              /\ modules'[m].life # "up"
          BY <1>1, <3>1, TerminatedChanges DEF Enters
        <4> QED
          BY <2>1, <2>2, <2>3, <2>5, <4>1, DueStays
      <3>2. CASE PassesOver(m)
        <4>1. ~modules[m].connected /\ UNCHANGED modules
          BY <1>1, <1>3, <3>2 DEF PassesOver
        <4>2. modules[m].life # "up"
          BY <1>1, <4>1 DEF DisconnectedIsDown
        <4>3. ~Loading(m)
          <5>1. \A u \in Threads : \A i \in Positions(u) :
                   LoadAt(u, i) => modules[frames[u][i].module].connected
            BY DEF LoadsOK, LoadOK
          <5> QED
            BY <1>1, <1>3, <4>1, <5>1, LoadingIs
        <4> QED
          BY <2>1, <2>2, <2>3, <2>5, <4>1, <4>2, <4>3, DueStays
      <3> QED
        BY <1>2, <3>1, <3>2
    <2> QED
      BY <2>4, <2>5
  <1> QED
    BY <1>4 DEF CleanupIsDue

LEMMA NextCleanupIsDue ==
    ASSUME TypeOK, TypeOK', LoadsOK, CleanupsOK, DisconnectedIsDown, CleanupIsDue,
           [Next]_vars
    PROVE  CleanupIsDue'
  <1>0. /\ DOMAIN modules = 1 .. Len(modules) /\ Len(modules) \in Nat
        /\ \A k \in DOMAIN modules : k # 0
    BY ModuleFields
  <1>1. ASSUME SameLoads, SameCleans, UNCHANGED cleanups, DOMAIN modules' = DOMAIN modules,
               \A k \in DOMAIN modules :
                  /\ modules'[k].cleanup = modules[k].cleanup
                  /\ modules[k].early => modules'[k].early
                  /\ modules[k].life # "up" => modules'[k].life # "up"
        PROVE  CleanupIsDue'
    <2>1. ASSUME NEW k \in DOMAIN modules' PROVE DueOK(k)'
      <3>1. k \in DOMAIN modules /\ k # 0 /\ DueOK(k)
        BY <1>0, <1>1, <2>1 DEF CleanupIsDue
      <3>2. (Loading(k)' <=> Loading(k)) /\ (CleanupLeft(k)' <=> CleanupLeft(k))
            /\ (CleanupStarted(k)' <=> CleanupStarted(k))
        BY <1>1, <3>1, SameLoadings, SameCleaning DEF CleanupLeft
      <3> QED
        BY <1>1, <3>1, <3>2, DueStays
    <2> QED
      BY <2>1 DEF CleanupIsDue
  <1>2. CASE (\E t \in Threads : QuietStep(t)) \/ UNCHANGED vars
    BY <1>1, <1>2, QuietSteps DEF Quiet
  <1>3. ASSUME NEW t \in Threads, LoadConnect(t) PROVE CleanupIsDue'
    <2> PICK n : n = Len(frames[t])
      OBVIOUS
    <2>1. /\ Disturbs(t, n) /\ SameCleans
          /\ frames'[t][n].module = Len(modules) + 1
          /\ DOMAIN modules' = 1 .. Len(modules) + 1
          /\ \A k \in DOMAIN modules : modules'[k] = modules[k]
          /\ modules'[Len(modules) + 1].cleanup =>
                /\ Len(cleanups) + 1 \in DOMAIN cleanups'
                /\ cleanups'[Len(cleanups) + 1] = Len(modules) + 1
          /\ \A k \in DOMAIN cleanups : k \in DOMAIN cleanups' /\ cleanups'[k] = cleanups[k]
      BY <1>3, LoadConnects
    <2>2. ASSUME NEW k \in DOMAIN modules PROVE DueOK(k)'
      <3>1. DueOK(k) /\ k # 0 /\ k # Len(modules) + 1 /\ modules'[k] = modules[k]
        BY <1>0, <2>1 DEF CleanupIsDue
      <3>2. Loading(k)' => Loading(k)
        BY <2>1, <3>1, LoadingStays
      <3>3. CleanupStarted(k)' <=> CleanupStarted(k)
        BY <2>1, SameCleaning
      <3>4. CleanupLeft(k) => CleanupLeft(k)'
        BY <2>1 DEF CleanupLeft
      <3> QED
        BY <3>1, <3>2, <3>3, <3>4, DueStays
    <2> PICK g : g = Len(modules) + 1
      OBVIOUS
    <2>3. DueOK(g)'
      BY <2>1 DEF DueOK, CleanupLeft
    <2>4. \A k \in DOMAIN modules' : k \in DOMAIN modules \/ k = g
      BY <1>0, <2>1
    <2>5. \A k \in DOMAIN modules' : DueOK(k)'
      BY <2>2, <2>3, <2>4
    <2> QED
      BY <2>5 DEF CleanupIsDue
  <1>4. ASSUME NEW t \in Threads, NEW n, Disturbs(t, n), SameCleans, UNCHANGED cleanups,
               n \in Positions(t), LoadAt(t, n), DOMAIN modules' = DOMAIN modules,
               n \in Positions(t)' => frames'[t][n].module = frames[t][n].module,
               \A k \in DOMAIN modules :
                  /\ modules'[k].cleanup = modules[k].cleanup
                  /\ modules[k].early => modules'[k].early
                  /\ k # frames[t][n].module => modules'[k] = modules[k]
        PROVE  CleanupIsDue'
    <2>1. ASSUME NEW k \in DOMAIN modules' PROVE DueOK(k)'
      <3>1. k \in DOMAIN modules /\ k # 0 /\ DueOK(k)
        BY <1>0, <1>4, <2>1 DEF CleanupIsDue
      <3>2. (CleanupLeft(k)' <=> CleanupLeft(k)) /\ (CleanupStarted(k)' <=> CleanupStarted(k))
        BY <1>4, SameCleaning DEF CleanupLeft
      <3>3. Loading(k)' => Loading(k)
        BY <1>4, <3>1, LoadingStays
      <3>4. k = frames[t][n].module => Loading(k)
        BY <1>4, <3>1, LoadingIs
      <3> QED
        BY <1>4, <3>1, <3>2, <3>3, <3>4, DueStays
    <2> QED
      BY <2>1 DEF CleanupIsDue
  <1>5. ASSUME NEW t \in Threads, LoadInitialize(t) PROVE CleanupIsDue'
    <2> PICK n : n = Len(frames[t])
      OBVIOUS
    <2>1. /\ Disturbs(t, n) /\ SameCleans
          /\ n \in Positions(t) /\ frames[t][n].op = "load" /\ frames[t][n].at = "connected"
          /\ n \in Positions(t)' => frames'[t][n].module = frames[t][n].module
          /\ UNCHANGED <<modules, cleanups>>
      BY <1>5, LoadInitializes
    <2> QED
      BY <1>4, <2>1 DEF LoadAt
  <1>6. ASSUME NEW t \in Threads, InitializeFails(t) \/ InitializeWorks(t) PROVE CleanupIsDue'
    <2> PICK n : n = Len(frames[t])
      OBVIOUS
    <2> PICK m : m = frames[t][n].module
      OBVIOUS
    <2>1. m \in DOMAIN modules
      BY <1>6, TopModule DEF InitializeFails, InitializeWorks
    <2>2. /\ Disturbs(t, n) /\ SameCleans /\ n \in Positions(t)
          /\ frames[t][n].op = "load" /\ frames[t][n].at = "inside"
          /\ n \in Positions(t)' => frames'[t][n].module = m
          /\ Changes(m) /\ modules'[m].early = modules[m].early /\ UNCHANGED cleanups
      BY <1>6, <2>1, InitializeEnds
    <2>3. /\ DOMAIN modules' = DOMAIN modules
          /\ \A k \in DOMAIN modules :
                /\ modules'[k].cleanup = modules[k].cleanup
                /\ modules[k].early => modules'[k].early
                /\ k # m => modules'[k] = modules[k]
      BY <2>2 DEF Changes
    <2> QED
      BY <1>4, <2>2, <2>3 DEF LoadAt
  <1>7. ASSUME NEW t \in Threads, LoadAdd(t) PROVE CleanupIsDue'
    <2> PICK n : n = Len(frames[t])
      OBVIOUS
    <2> PICK m : m = frames[t][n].module
      OBVIOUS
    <2>1. m \in DOMAIN modules
      BY <1>7, TopModule DEF LoadAdd
    <2>2. /\ Disturbs(t, n) /\ SameCleans /\ n \in Positions(t) /\ n \notin Positions(t)'
          /\ frames[t][n].op = "load" /\ frames[t][n].at = "add"
          /\ UNCHANGED <<modules, cleanups>>
      BY <1>7, <2>1, LoadAdds
    <2> QED
      BY <1>4, <2>2 DEF LoadAt
  <1>8. ASSUME NEW t \in Threads, AllLock(t) \/ AllTerminated(t) \/ AllReturn(t)
        PROVE  CleanupIsDue'
    <2>1. SameLoads /\ SameCleans /\ UNCHANGED <<modules, cleanups>>
      BY <1>8, AllLocks, AllGoesOn, AllReturns
    <2> QED
      BY <1>1, <2>1
  <1>9. ASSUME NEW t \in Threads, AllTerminate(t) PROVE CleanupIsDue'
    <2> PICK n : n = Len(frames[t])
      OBVIOUS
    <2>1. SameLoads /\ SameCleans /\ UNCHANGED cleanups
      BY <1>9, AllTerminates
    <2>2. PICK p \in frames[t][n].left :
             \/ Enters(t, n, registered["own"][p])
             \/ frames'[t][n].at = "next" /\ PassesOver(registered["own"][p])
      BY <1>9, AllTerminates
    <2> PICK m : m = registered["own"][p]
      OBVIOUS
    <2>3. Enters(t, n, m) \/ PassesOver(m)
      BY <2>2
    <2>4. /\ DOMAIN modules' = DOMAIN modules
          /\ \A k \in DOMAIN modules :
                  /\ modules'[k].cleanup = modules[k].cleanup
                  /\ modules[k].early => modules'[k].early
                  /\ modules[k].life # "up" => modules'[k].life # "up"
      BY <2>3, EntersModules
    <2> QED
      BY <1>1, <2>1, <2>4
  <1>10. ASSUME NEW t \in Threads, AllDisconnect(t) PROVE CleanupIsDue'
    <2> PICK n : n = Len(frames[t])
      OBVIOUS
    <2>1. SameLoads /\ SameCleans /\ UNCHANGED cleanups
      BY <1>10, AllDisconnects
    <2>2. PICK q \in frames[t][n].names :
             /\ q \in Paths /\ frames'[t][n].names = frames[t][n].names \ {q}
             /\ registered'["own"][q] = 0
             /\ \A l \in Locators, p \in Paths :
                   l # "own" \/ p # q => registered'[l][p] = registered[l][p]
             /\ \/ (registered["own"][q] = 0 \/ q \in Nested) /\ UNCHANGED modules
                \/ /\ registered["own"][q] \in DOMAIN modules /\ q \notin Nested
                   /\ modules' = [modules EXCEPT ![registered["own"][q]].connected = FALSE]
      BY <1>10, AllDisconnects
    <2> PICK m : m = registered["own"][q]
      OBVIOUS
    <2>3. CASE UNCHANGED modules
      BY <1>1, <2>1, <2>3
    <2>4. CASE m \in DOMAIN modules /\ modules' = [modules EXCEPT ![m].connected = FALSE]
      <3>1. /\ DOMAIN modules' = DOMAIN modules
            /\ \A k \in DOMAIN modules :
                  /\ modules'[k].cleanup = modules[k].cleanup
                  /\ modules[k].early => modules'[k].early
                  /\ modules[k].life # "up" => modules'[k].life # "up"
        BY <2>4, DisconnectChanges DEF Changes
      <3> QED
        BY <1>1, <2>1, <3>1
    <2> QED
      BY <2>2, <2>3, <2>4
  <1>11. ASSUME NEW t \in Threads, CloseNext(t) PROVE CleanupIsDue'
    <2> PICK n : n = Len(frames[t]) + 1
      OBVIOUS
    <2>1. /\ Disturbs(t, n) /\ SameLoads
          /\ Len(cleanups) \in Nat \ {0} /\ DOMAIN cleanups = 1 .. Len(cleanups)
          /\ DOMAIN cleanups' = 1 .. (Len(cleanups) - 1)
          /\ \A k \in DOMAIN cleanups' : cleanups'[k] = cleanups[k]
          /\ \/ cleanups[Len(cleanups)] = 0 /\ SameCleans
             \/ CleanStarts(t, n)
          /\ UNCHANGED modules
      BY <1>11, CloseCalls
    <2>2. ASSUME NEW k \in DOMAIN modules' PROVE DueOK(k)'
      <3>1. k \in DOMAIN modules /\ DueOK(k) /\ k # 0
        BY <1>0, <2>1, <2>2 DEF CleanupIsDue
      <3>2. Loading(k)' <=> Loading(k)
        BY <2>1, <3>1, SameLoadings
      <3>3. ASSUME CleanupLeft(k) PROVE CleanupLeft(k)' \/ CleanupStarted(k)'
        <4>1. PICK j \in DOMAIN cleanups : cleanups[j] = k
          BY <3>3 DEF CleanupLeft
        <4>2. CASE j = Len(cleanups)
          <5>1. CleanStarts(t, n)
            BY <2>1, <3>1, <4>1, <4>2
          <5>2. /\ n \in Positions(t)' /\ CleanAt(t, n)' /\ frames'[t][n].module = k
                /\ frames'[t][n].at = "terminate"
            BY <4>1, <4>2, <5>1 DEF CleanStarts, CleanAt
          <5> QED
            BY <5>2 DEF CleanupStarted
        <4>3. CASE j # Len(cleanups)
          <5>1. j \in DOMAIN cleanups' /\ cleanups'[j] = k
            BY <2>1, <4>1, <4>3
          <5> QED
            BY <5>1 DEF CleanupLeft
        <4> QED
          BY <4>2, <4>3
      <3>4. CleanupStarted(k) => CleanupStarted(k)'
        <4>1. CASE SameCleans
          BY <4>1, SameCleaning
        <4>2. CASE CleanStarts(t, n)
          BY <2>1, <4>2, StartedKept DEF CleanStarts
        <4> QED
          BY <2>1, <4>1, <4>2
      <3> QED
        BY <2>1, <3>1, <3>2, <3>3, <3>4, DueStays
    <2> QED
      BY <2>2 DEF CleanupIsDue
  <1>12. ASSUME NEW t \in Threads, CleanTerminate(t) PROVE CleanupIsDue'
    BY <1>12, CleanTerminateDue
  <1>13. ASSUME NEW t \in Threads, NEW n, Disturbs(t, n), SameLoads, frames[t][n].at # "terminate",
                UNCHANGED <<modules, cleanups>>
         PROVE  CleanupIsDue'
    <2>1. ASSUME NEW k \in DOMAIN modules' PROVE DueOK(k)'
      <3>1. k \in DOMAIN modules /\ k # 0 /\ DueOK(k)
        BY <1>0, <1>13, <2>1 DEF CleanupIsDue
      <3>2. (Loading(k)' <=> Loading(k)) /\ (CleanupLeft(k)' <=> CleanupLeft(k))
        BY <1>13, <3>1, SameLoadings DEF CleanupLeft
      <3>3. CleanupStarted(k) => CleanupStarted(k)'
        BY <1>13, StartedKept
      <3> QED
        BY <1>13, <3>1, <3>2, <3>3, DueStays
    <2> QED
      BY <2>1 DEF CleanupIsDue
  <1>14. ASSUME NEW t \in Threads, CleanTerminated(t) PROVE CleanupIsDue'
    <2> PICK n : n = Len(frames[t])
      OBVIOUS
    <2>1. /\ Disturbs(t, n) /\ SameLoads /\ frames[t][n].at = "inside"
          /\ UNCHANGED <<modules, cleanups>>
      BY <1>14, CleanGoesOn
    <2> QED
      BY <1>13, <2>1
  <1>15. ASSUME NEW t \in Threads, CleanDelete(t) PROVE CleanupIsDue'
    <2> PICK n : n = Len(frames[t])
      OBVIOUS
    <2> PICK m : m = frames[t][n].module
      OBVIOUS
    <2>1. m \in DOMAIN modules
      BY <1>15, TopModule DEF CleanDelete
    <2>2. /\ Disturbs(t, n) /\ SameLoads /\ frames[t][n].at = "delete"
          /\ UNCHANGED <<modules, cleanups>>
      BY <1>15, <2>1, CleanDeletes
    <2> QED
      BY <1>13, <2>2
  <1> QED
    BY <1>2, <1>3, <1>5, <1>6, <1>7, <1>8, <1>9, <1>10, <1>11, <1>12, <1>14, <1>15
       DEF Next, QuietStep

-----------------------------------------------------------------------------
(* No module is lost *)

\* What a cleanup leaves behind stays so.
LEMMA NextDone ==
    ASSUME TypeOK, TypeOK', LoadsOK, CleanupsOK, [Next]_vars,
           NEW k \in DOMAIN modules, DoneOK(k)
    PROVE  DoneOK(k)'
  <1>0. /\ DOMAIN modules = 1 .. Len(modules) /\ Len(modules) \in Nat
        /\ k # 0 /\ k # Len(modules) + 1
    BY ModuleFields
  <1>1. ASSUME SameLoads, modules[k].early => modules'[k].early,
               modules[k].life # "up" => modules'[k].life # "up"
        PROVE  DoneOK(k)'
    BY <1>0, <1>1, SameLoadings DEF DoneOK
  <1>2. CASE (\E t \in Threads : QuietStep(t)) \/ UNCHANGED vars
    BY <1>1, <1>2, QuietSteps DEF Quiet
  <1>3. ASSUME NEW t \in Threads, LoadConnect(t) PROVE DoneOK(k)'
    <2> PICK n : n = Len(frames[t])
      OBVIOUS
    <2>1. /\ Disturbs(t, n) /\ frames'[t][n].module = Len(modules) + 1
          /\ modules'[k] = modules[k]
      BY <1>3, LoadConnects
    <2>2. Loading(k)' => Loading(k)
      BY <1>0, <2>1, LoadingStays
    <2> QED
      BY <2>1, <2>2 DEF DoneOK
  <1>4. ASSUME NEW t \in Threads, NEW n, Disturbs(t, n), n \in Positions(t), LoadAt(t, n),
               n \in Positions(t)' => frames'[t][n].module = frames[t][n].module,
               modules[k].early => modules'[k].early,
               k # frames[t][n].module => modules'[k] = modules[k]
        PROVE  DoneOK(k)'
    <2>1. Loading(k)' => Loading(k)
      BY <1>0, <1>4, LoadingStays
    <2>2. k = frames[t][n].module => Loading(k)
      BY <1>0, <1>4, LoadingIs
    <2> QED
      BY <1>4, <2>1, <2>2 DEF DoneOK
  <1>5. ASSUME NEW t \in Threads, LoadInitialize(t) PROVE DoneOK(k)'
    <2> PICK n : n = Len(frames[t])
      OBVIOUS
    <2>1. /\ Disturbs(t, n) /\ n \in Positions(t) /\ UNCHANGED modules
          /\ frames[t][n].op = "load" /\ frames[t][n].at = "connected"
          /\ n \in Positions(t)' => frames'[t][n].module = frames[t][n].module
      BY <1>5, LoadInitializes
    <2> QED
      BY <1>4, <2>1 DEF LoadAt
  <1>6. ASSUME NEW t \in Threads, InitializeFails(t) \/ InitializeWorks(t) PROVE DoneOK(k)'
    <2> PICK n : n = Len(frames[t])
      OBVIOUS
    <2> PICK m : m = frames[t][n].module
      OBVIOUS
    <2>1. m \in DOMAIN modules
      BY <1>6, TopModule DEF InitializeFails, InitializeWorks
    <2>2. /\ Disturbs(t, n) /\ n \in Positions(t)
          /\ frames[t][n].op = "load" /\ frames[t][n].at = "inside"
          /\ n \in Positions(t)' => frames'[t][n].module = m
          /\ Changes(m) /\ modules'[m].early = modules[m].early
      BY <1>6, <2>1, InitializeEnds
    <2>3. /\ modules[k].early => modules'[k].early
          /\ k # m => modules'[k] = modules[k]
      BY <2>2 DEF Changes
    <2> QED
      BY <1>4, <2>2, <2>3 DEF LoadAt
  <1>7. ASSUME NEW t \in Threads, LoadAdd(t) PROVE DoneOK(k)'
    <2> PICK n : n = Len(frames[t])
      OBVIOUS
    <2> PICK m : m = frames[t][n].module
      OBVIOUS
    <2>1. m \in DOMAIN modules
      BY <1>7, TopModule DEF LoadAdd
    <2>2. /\ Disturbs(t, n) /\ n \in Positions(t) /\ n \notin Positions(t)'
          /\ frames[t][n].op = "load" /\ frames[t][n].at = "add" /\ UNCHANGED modules
      BY <1>7, <2>1, LoadAdds
    <2> QED
      BY <1>4, <2>2 DEF LoadAt
  <1>8. ASSUME NEW t, NEW n, NEW m, SameLoads, Enters(t, n, m) \/ PassesOver(m)
        PROVE  DoneOK(k)'
    <2>1. /\ modules[k].early => modules'[k].early
          /\ modules[k].life # "up" => modules'[k].life # "up"
      BY <1>8, EntersModules
    <2> QED
      BY <1>1, <1>8, <2>1
  <1>9. ASSUME NEW t \in Threads, AllTerminate(t) PROVE DoneOK(k)'
    <2> PICK n : n = Len(frames[t])
      OBVIOUS
    <2>1. /\ SameLoads
          /\ \E p \in Paths : Enters(t, n, registered["own"][p]) \/ PassesOver(registered["own"][p])
      BY <1>9, AllTerminates
    <2> QED
      BY <1>8, <2>1
  <1>10. ASSUME NEW t \in Threads, AllDisconnect(t) PROVE DoneOK(k)'
    <2> PICK n : n = Len(frames[t])
      OBVIOUS
    <2>1. SameLoads
      BY <1>10, AllDisconnects
    <2>2. \/ UNCHANGED modules
          \/ \E m \in DOMAIN modules : modules' = [modules EXCEPT ![m].connected = FALSE]
      BY <1>10, AllDisconnects
    <2>3. modules'[k].early = modules[k].early /\ modules'[k].life = modules[k].life
      BY <2>2, DisconnectChanges DEF Changes
    <2> QED
      BY <1>1, <2>1, <2>3
  <1>11. ASSUME NEW t \in Threads, CleanTerminate(t) PROVE DoneOK(k)'
    <2> PICK n : n = Len(frames[t])
      OBVIOUS
    <2> PICK m : m = frames[t][n].module
      OBVIOUS
    <2>1. m \in DOMAIN modules
      BY <1>11, TopModule DEF CleanTerminate
    <2>2. SameLoads /\ (Enters(t, n, m) \/ PassesOver(m))
      BY <1>11, <2>1, CleanTerminates
    <2> QED
      BY <1>8, <2>2
  <1>12. ASSUME NEW t \in Threads, CleanDelete(t) PROVE DoneOK(k)'
    <2> PICK n : n = Len(frames[t])
      OBVIOUS
    <2> PICK m : m = frames[t][n].module
      OBVIOUS
    <2>1. m \in DOMAIN modules
      BY <1>12, TopModule DEF CleanDelete
    <2>2. SameLoads /\ UNCHANGED modules
      BY <1>12, <2>1, CleanDeletes
    <2> QED
      BY <1>1, <2>2
  <1>13. ASSUME NEW t \in Threads,
                \/ AllLock(t) \/ AllTerminated(t) \/ AllReturn(t)
                \/ CloseNext(t) \/ CleanTerminated(t)
         PROVE  DoneOK(k)'
    <2>1. SameLoads /\ UNCHANGED modules
      BY <1>13, AllLocks, AllGoesOn, AllReturns, CloseCalls, CleanGoesOn
    <2> QED
      BY <1>1, <2>1
  <1> QED
    BY <1>2, <1>3, <1>5, <1>6, <1>7, <1>9, <1>10, <1>11, <1>12, <1>13 DEF Next, QuietStep

LEMMA NextCleanDone ==
    ASSUME TypeOK, TypeOK', LoadsOK, CleanupsOK, DisconnectedIsDown, CleanDone, [Next]_vars
    PROVE  CleanDone'
  <1>1. \A k \in DOMAIN modules : DoneOK(k) => DoneOK(k)'
    BY NextDone
  <1>2. \A t \in Threads : \A i \in Positions(t) :
           CleanAt(t, i) /\ frames[t][i].at # "terminate" =>
              \A k : k = frames[t][i].module => DoneOK(k)'
    BY <1>1 DEF CleanupsOK, CleanDone
  <1>3. ASSUME NEW t \in Threads, NEW n, Disturbs(t, n),
               n \in Positions(t)' /\ CleanAt(t, n)' /\ frames'[t][n].at # "terminate" =>
                  \A k : k = frames'[t][n].module => DoneOK(k)'
        PROVE  CleanDone'
    <2> SUFFICES ASSUME NEW u \in Threads, NEW i \in Positions(u)',
                        CleanAt(u, i)', frames'[u][i].at # "terminate", Kept(u, i),
                        NEW k, k = frames'[u][i].module
                 PROVE  DoneOK(k)'
      BY <1>3 DEF CleanDone, Disturbs
    <2>1. i \in Positions(u) /\ CleanAt(u, i) /\ frames'[u][i] = frames[u][i]
      BY DEF Kept, CleanAt
    <2> QED
      BY <1>2, <2>1
  <1>4. ASSUME SameCleans PROVE CleanDone'
    <2> SUFFICES ASSUME NEW u \in Threads, NEW i \in Positions(u)',
                        CleanAt(u, i)', frames'[u][i].at # "terminate",
                        NEW k, k = frames'[u][i].module
                 PROVE  DoneOK(k)'
      BY DEF CleanDone
    <2>1. i \in Positions(u) /\ CleanAt(u, i) /\ frames'[u][i] = frames[u][i]
      BY <1>4 DEF SameCleans, Kept, CleanAt
    <2> QED
      BY <1>2, <2>1
  <1>5. CASE (\E t \in Threads : QuietStep(t)) \/ UNCHANGED vars
    BY <1>4, <1>5, QuietSteps DEF Quiet
  <1>6. ASSUME NEW t \in Threads, LoadConnect(t) \/ LoadInitialize(t) PROVE CleanDone'
    BY <1>4, <1>6, LoadConnects, LoadInitializes
  <1>7. ASSUME NEW t \in Threads, InitializeFails(t) \/ InitializeWorks(t) \/ LoadAdd(t)
        PROVE  CleanDone'
    <2>1. frames[t][Len(frames[t])].module \in DOMAIN modules
      BY <1>7, TopModule DEF InitializeFails, InitializeWorks, LoadAdd
    <2>2. SameCleans
      BY <1>7, <2>1, InitializeEnds, LoadAdds
    <2> QED
      BY <1>4, <2>2
  <1>8. ASSUME NEW t \in Threads, AllLock(t) \/ AllTerminate(t) \/ AllTerminated(t)
        PROVE  CleanDone'
    BY <1>4, <1>8, AllLocks, AllTerminates, AllGoesOn
  <1>9. ASSUME NEW t \in Threads, AllDisconnect(t) \/ AllReturn(t) PROVE CleanDone'
    BY <1>4, <1>9, AllDisconnects, AllReturns
  <1>10. ASSUME NEW t \in Threads, CloseNext(t) PROVE CleanDone'
    <2> PICK n : n = Len(frames[t]) + 1
      OBVIOUS
    <2>1. Disturbs(t, n) /\ (SameCleans \/ CleanStarts(t, n))
      BY <1>10, CloseCalls
    <2> QED
      BY <1>3, <1>4, <2>1 DEF CleanStarts
  <1>11. ASSUME NEW t \in Threads, CleanTerminate(t) PROVE CleanDone'
    <2> PICK n : n = Len(frames[t])
      OBVIOUS
    <2> PICK m : m = frames[t][n].module
      OBVIOUS
    <2>1. m \in DOMAIN modules /\ m # 0
      BY <1>11, TopModule, ModuleFields DEF CleanTerminate
    <2>2. /\ Disturbs(t, n) /\ SameLoads /\ frames'[t][n].module = m
          /\ Enters(t, n, m) \/ PassesOver(m)
      BY <1>11, <2>1, CleanTerminates
    <2>3. Loading(m)' <=> Loading(m)
      BY <2>1, <2>2, SameLoadings
    <2>4. CASE Enters(t, n, m)
      <3>1. /\ modules'[m].early <=> modules[m].early \/ Loading(m)
            /\ modules'[m].life # "up"
        BY <2>1, <2>4, TerminatedChanges DEF Enters
      <3>2. DoneOK(m)'
        BY <2>3, <3>1 DEF DoneOK
      <3> QED
        BY <1>3, <2>2, <3>2
    <2>5. CASE PassesOver(m)
      <3>1. ~modules[m].connected /\ UNCHANGED modules
        BY <2>1, <2>5 DEF PassesOver
      <3>2. modules[m].life # "up"
        BY <2>1, <3>1 DEF DisconnectedIsDown
      <3>3. ~Loading(m)
        <4>1. \A u \in Threads : \A i \in Positions(u) :
                 LoadAt(u, i) => modules[frames[u][i].module].connected
          BY DEF LoadsOK, LoadOK
        <4> QED
          BY <2>1, <3>1, <4>1, LoadingIs
      <3>4. DoneOK(m)'
        BY <2>3, <3>1, <3>2, <3>3 DEF DoneOK
      <3> QED
        BY <1>3, <2>2, <3>4
    <2> QED
      BY <2>2, <2>4, <2>5
  <1>12. ASSUME NEW t \in Threads, CleanTerminated(t) PROVE CleanDone'
    <2> PICK n : n = Len(frames[t])
      OBVIOUS
    <2>1. /\ Disturbs(t, n) /\ n \in Positions(t)
          /\ frames[t][n].op = "clean" /\ frames[t][n].at = "inside"
          /\ frames'[t][n].module = frames[t][n].module
      BY <1>12, CleanGoesOn
    <2>2. \A k : k = frames[t][n].module => DoneOK(k)'
      BY <1>2, <2>1 DEF CleanAt
    <2> QED
      BY <1>3, <2>1, <2>2
  <1>13. ASSUME NEW t \in Threads, CleanDelete(t) PROVE CleanDone'
    <2> PICK n : n = Len(frames[t])
      OBVIOUS
    <2>1. frames[t][n].module \in DOMAIN modules
      BY <1>13, TopModule DEF CleanDelete
    <2>2. Disturbs(t, n) /\ n \notin Positions(t)'
      BY <1>13, <2>1, CleanDeletes
    <2> QED
      BY <1>3, <2>2
  <1> QED
    BY <1>5, <1>6, <1>7, <1>8, <1>9, <1>10, <1>11, <1>12, <1>13 DEF Next, QuietStep

\* A load that it is not the turn of goes on.
LEMMA LoadingKept ==
    ASSUME TypeOK, TypeOK', NEW t \in Threads, NEW n, Disturbs(t, n), NEW m, m # 0, Loading(m),
           n \in Positions(t) => ~(LoadAt(t, n) /\ frames[t][n].module = m)
    PROVE  Loading(m)'
  <1>0. PICK u \in Threads : \E i \in Positions(u) : LoadAt(u, i) /\ frames[u][i].module = m
    BY LoadingIs
  <1>1. PICK i \in Positions(u) : LoadAt(u, i) /\ frames[u][i].module = m
    BY <1>0
  <1>2. Kept(u, i)
    BY <1>1 DEF Disturbs
  <1>3. i \in Positions(u)' /\ LoadAt(u, i)' /\ frames'[u][i].module = m
    BY <1>1, <1>2 DEF Kept, LoadAt
  <1> QED
    BY <1>3, LoadingWillBe

\* No step takes a module's name or makes it another's.
SameNames ==
    /\ DOMAIN modules \subseteq DOMAIN modules'
    /\ \A k \in DOMAIN modules :
          modules'[k].path = modules[k].path /\ modules'[k].locator = modules[k].locator

LEMMA KeptStays ==
    ASSUME SameNames, NEW m \in DOMAIN modules, KeptOK(m),
           modules[m].early => modules'[m].early,
           modules'[m].life = "up" => modules[m].life = "up" \/ Loading(m)',
           Loading(m) => Loading(m)' \/ modules'[m].life # "up",
           Named(m) /\ modules[m].life = "up" /\ ~modules[m].early
              /\ ~Unlisted(m) /\ Alone(m) => Named(m)'
    PROVE  KeptOK(m)'
  <1>1. (Unlisted(m) => Unlisted(m)') /\ (Alone(m)' => Alone(m))
    BY DEF SameNames, Unlisted, Alone
  <1> QED
    BY <1>1 DEF KeptOK

\* Steps that start, end and name nothing.
LEMMA KeptStaysIfSame ==
    ASSUME TypeOK, TypeOK', SameNames, SameLoads, UNCHANGED registered,
           NEW m \in DOMAIN modules, KeptOK(m), modules[m].early => modules'[m].early,
           modules[m].life # "up" => modules'[m].life # "up"
    PROVE  KeptOK(m)'
  <1>1. Loading(m)' <=> Loading(m)
    BY SameLoadings, ModuleFields
  <1>2. Named(m)' <=> Named(m)
    BY DEF Named
  <1> QED
    BY <1>1, <1>2, KeptStays

LEMMA NextNobodyLost ==
    ASSUME TypeOK, TypeOK', LoadsOK, NamesOK, AllOK, CleanupsOK, CleanDone, NobodyLost,
           [Next]_vars
    PROVE  NobodyLost'
  <1>0. /\ DOMAIN modules = 1 .. Len(modules) /\ Len(modules) \in Nat
        /\ \A k \in DOMAIN modules : k # 0 /\ KeptOK(k)
    BY ModuleFields DEF NobodyLost
  <1>1. ASSUME SameLoads, UNCHANGED <<modules, registered>> PROVE NobodyLost'
    <2>1. SameNames
      BY <1>1 DEF SameNames
    <2> QED
      BY <1>0, <1>1, <2>1, KeptStaysIfSame DEF NobodyLost
  <1>2. CASE (\E t \in Threads : QuietStep(t)) \/ UNCHANGED vars
    BY <1>1, <1>2, QuietSteps DEF Quiet
  <1>3. ASSUME NEW t \in Threads, LoadConnect(t) PROVE NobodyLost'
    <2> PICK n : n = Len(frames[t])
      OBVIOUS
    <2> PICK g : g = Len(modules) + 1
      OBVIOUS
    <2>1. /\ Disturbs(t, n) /\ UNCHANGED registered
          /\ frames[t][n].op = "load" /\ frames[t][n].at = "wait"
          /\ DOMAIN modules' = 1 .. Len(modules) + 1
          /\ \A k \in DOMAIN modules : modules'[k] = modules[k]
          /\ modules'[g].life = "new"
      BY <1>3, LoadConnects
    <2>2. SameNames /\ (\A k \in DOMAIN modules' : k \in DOMAIN modules \/ k = g)
      BY <1>0, <2>1 DEF SameNames
    <2>3. KeptOK(g)'
      BY <2>1 DEF KeptOK
    <2>4. ASSUME NEW k \in DOMAIN modules PROVE KeptOK(k)'
      <3>1. KeptOK(k) /\ k # 0 /\ modules'[k] = modules[k]
        BY <1>0, <2>1
      <3>2. Loading(k) => Loading(k)'
        BY <2>1, <3>1, LoadingKept DEF LoadAt
      <3>3. Named(k) => Named(k)'
        BY <2>1 DEF Named
      <3> QED
        BY <2>2, <3>1, <3>2, <3>3, KeptStays
    <2> QED
      BY <2>2, <2>3, <2>4 DEF NobodyLost
  <1>4. ASSUME NEW t \in Threads, LoadInitialize(t) PROVE NobodyLost'
    <2> PICK n : n = Len(frames[t])
      OBVIOUS
    <2> PICK m : m = frames[t][n].module
      OBVIOUS
    <2>1. /\ Disturbs(t, n) /\ n \in Positions(t) /\ UNCHANGED <<modules, registered>>
          /\ frames[t][n].op = "load" /\ frames[t][n].at = "connected"
      BY <1>4, LoadInitializes
    <2>2. SameNames
      BY <2>1 DEF SameNames
    <2>3. modules[m].life = "new"
      BY <2>1 DEF LoadsOK, LoadAt, LoadOK
    <2>4. ASSUME NEW k \in DOMAIN modules PROVE KeptOK(k)'
      <3>1. KeptOK(k) /\ k # 0
        BY <1>0
      <3>2. CASE k = m
        BY <2>1, <2>3, <3>2 DEF KeptOK
      <3>3. CASE k # m
        <4>1. Loading(k) => Loading(k)'
          BY <2>1, <3>1, <3>3, LoadingKept
        <4>2. Named(k) => Named(k)'
          BY <2>1 DEF Named
        <4> QED
          BY <2>1, <2>2, <3>1, <4>1, <4>2, KeptStays
      <3> QED
        BY <3>2, <3>3
    <2> QED
      BY <2>1, <2>4 DEF NobodyLost
  <1>5. ASSUME NEW t \in Threads, InitializeFails(t) \/ InitializeWorks(t) PROVE NobodyLost'
    <2> PICK n : n = Len(frames[t])
      OBVIOUS
    <2> PICK m : m = frames[t][n].module
      OBVIOUS
    <2>1. m \in DOMAIN modules
      BY <1>5, TopModule DEF InitializeFails, InitializeWorks
    <2>2. /\ Disturbs(t, n) /\ n \in Positions(t) /\ Changes(m) /\ UNCHANGED registered
          /\ frames[t][n].op = "load" /\ frames[t][n].at = "inside"
          /\ n \in Positions(t)' => /\ frames'[t][n].op = "load" /\ frames'[t][n].at = "add"
                                    /\ frames'[t][n].module = m
          /\ n \notin Positions(t)' => modules'[m].life = "failed"
          /\ modules'[m].early = modules[m].early
      BY <1>5, <2>1, InitializeEnds
    <2>3. SameNames
      BY <2>2 DEF SameNames, Changes
    <2>4. ASSUME NEW k \in DOMAIN modules PROVE KeptOK(k)'
      <3>1. KeptOK(k) /\ k # 0 /\ (Named(k) => Named(k)')
        BY <1>0, <2>2 DEF Named
      <3>2. CASE k = m /\ n \in Positions(t)'
        <4>1. LoadAt(t, n)' /\ frames'[t][n].module = k
          BY <2>2, <3>2 DEF LoadAt
        <4>2. Loading(k)'
          BY <3>1, <3>2, <4>1, LoadingWillBe
        <4> QED
          BY <4>2 DEF KeptOK
      <3>3. CASE k = m /\ n \notin Positions(t)'
        BY <2>2, <3>3 DEF KeptOK
      <3>4. CASE k # m
        <4>1. Loading(k) => Loading(k)'
          BY <2>2, <3>1, <3>4, LoadingKept
        <4>2. modules'[k] = modules[k]
          BY <2>2, <3>4 DEF Changes
        <4> QED
          BY <2>3, <3>1, <4>1, <4>2, KeptStays
      <3> QED
        BY <3>2, <3>3, <3>4
    <2> QED
      BY <2>2, <2>4 DEF NobodyLost, Changes
  <1>6. ASSUME NEW t \in Threads, LoadAdd(t) PROVE NobodyLost'
    <2> PICK n : n = Len(frames[t])
      OBVIOUS
    <2> PICK m : m = frames[t][n].module
      OBVIOUS
    <2> PICK l : l = frames[t][n].locator
      OBVIOUS
    <2> PICK p : p = frames[t][n].path
      OBVIOUS
    <2>1. m \in DOMAIN modules
      BY <1>6, TopModule DEF LoadAdd
    <2>2. /\ Disturbs(t, n) /\ n \in Positions(t) /\ UNCHANGED modules
          /\ frames[t][n].op = "load" /\ frames[t][n].at = "add"
          /\ \A k \in Locators, q \in Paths : registered'[k][q] # registered[k][q] =>
                registered[k][q] = 0
          /\ registered[l][p] = 0 => registered'[l][p] = m
      BY <1>6, <2>1, LoadAdds
    <2>3. SameNames
      BY <2>2 DEF SameNames
    <2>4. /\ modules[m].path = p /\ modules[m].locator = l
          /\ l \in Locators /\ p \in Paths /\ registered[l][p] # m
      <3>1. LoadOK(t, n)
        BY <2>2 DEF LoadsOK, LoadAt
      <3> QED
        BY <2>1, <3>1, ModuleFields DEF LoadOK
    <2>5. Alone(m) => registered[l][p] = 0
      <3> SUFFICES ASSUME registered[l][p] # 0, Alone(m) PROVE FALSE
        OBVIOUS
      <3> PICK x : x = registered[l][p]
        OBVIOUS
      <3>1. x \in DOMAIN modules /\ modules[x].locator = l /\ modules[x].path = p
        BY <2>4, ModuleFields DEF NamesOK
      <3> QED
        BY <2>1, <2>4, <3>1 DEF Alone
    <2>6. KeptOK(m)'
      <3>1. Alone(m)' => Named(m)'
        BY <2>2, <2>4, <2>5 DEF Alone, Named
      <3> QED
        BY <3>1 DEF KeptOK
    <2>7. ASSUME NEW k \in DOMAIN modules, k # m PROVE KeptOK(k)'
      <3>1. KeptOK(k) /\ k # 0
        BY <1>0
      <3>2. Loading(k) => Loading(k)'
        BY <2>2, <2>7, <3>1, LoadingKept
      <3>3. Named(k) => Named(k)'
        BY <2>2, <3>1 DEF Named
      <3> QED
        BY <2>2, <2>3, <3>1, <3>2, <3>3, KeptStays
    <2> QED
      BY <2>2, <2>6, <2>7 DEF NobodyLost
  <1>7. ASSUME NEW t \in Threads, AllLock(t) \/ AllTerminated(t) \/ AllReturn(t)
                                  \/ CloseNext(t) \/ CleanTerminated(t)
        PROVE  NobodyLost'
    <2>1. SameLoads /\ UNCHANGED <<modules, registered>>
      BY <1>7, AllLocks, AllGoesOn, AllReturns, CloseCalls, CleanGoesOn
    <2> QED
      BY <1>1, <2>1
  <1>8. ASSUME NEW t, NEW n, NEW m, Enters(t, n, m) \/ PassesOver(m), SameLoads,
               UNCHANGED registered
        PROVE  NobodyLost'
    <2>1. /\ DOMAIN modules' = DOMAIN modules
          /\ \A k \in DOMAIN modules :
                /\ modules'[k].path = modules[k].path
                /\ modules'[k].locator = modules[k].locator
                /\ modules[k].early => modules'[k].early
                /\ modules[k].life # "up" => modules'[k].life # "up"
      BY <1>8, EntersModules
    <2>2. SameNames
      BY <2>1 DEF SameNames
    <2> QED
      BY <1>0, <1>8, <2>1, <2>2, KeptStaysIfSame DEF NobodyLost
  <1>9. ASSUME NEW t \in Threads, AllTerminate(t) PROVE NobodyLost'
    <2> PICK n : n = Len(frames[t])
      OBVIOUS
    <2>1. /\ SameLoads /\ UNCHANGED registered
          /\ \E p \in Paths : Enters(t, n, registered["own"][p]) \/ PassesOver(registered["own"][p])
      BY <1>9, AllTerminates
    <2> QED
      BY <1>8, <2>1
  <1>10. ASSUME NEW t \in Threads, AllDisconnect(t) PROVE NobodyLost'
    <2> PICK n : n = Len(frames[t])
      OBVIOUS
    <2>1. /\ SameLoads /\ n \in Positions(t)
          /\ frames[t][n].op = "all" /\ frames[t][n].at = "next" /\ frames[t][n].left = {}
      BY <1>10, AllDisconnects
    <2>2. PICK q \in frames[t][n].names :
             /\ q \in Paths /\ frames'[t][n].names = frames[t][n].names \ {q}
             /\ registered'["own"][q] = 0
             /\ \A l \in Locators, p \in Paths :
                   l # "own" \/ p # q => registered'[l][p] = registered[l][p]
             /\ \/ (registered["own"][q] = 0 \/ q \in Nested) /\ UNCHANGED modules
                \/ /\ registered["own"][q] \in DOMAIN modules /\ q \notin Nested
                   /\ modules' = [modules EXCEPT ![registered["own"][q]].connected = FALSE]
      BY <1>10, AllDisconnects
    <2>3. /\ DOMAIN modules' = DOMAIN modules
          /\ \A k \in DOMAIN modules :
                /\ modules'[k].path = modules[k].path
                /\ modules'[k].locator = modules[k].locator
                /\ modules'[k].early = modules[k].early /\ modules'[k].life = modules[k].life
      BY <2>2, DisconnectChanges DEF Changes
    <2>4. AllGood(t, n)
      BY <2>1 DEF AllOK, AllAt
    <2>5. ASSUME NEW k \in DOMAIN modules PROVE KeptOK(k)'
      <3>1. KeptOK(k) /\ k # 0 /\ (Loading(k) => Loading(k)')
        BY <1>0, <2>1, SameLoadings
      <3>2. ASSUME Named(k), modules[k].life = "up", ~Unlisted(k) PROVE Named(k)'
        <4>1. PICK l \in Locators, p \in Paths : registered[l][p] = k
          BY <3>2 DEF Named
        <4>2. modules[k].locator = l /\ modules[k].path = p
          BY <3>1, <4>1 DEF NamesOK
        <4>3. ~(l = "own" /\ p = q)
          <5> SUFFICES ASSUME l = "own", p = q PROVE FALSE
            OBVIOUS
          <5>1. q \in (frames[t][n].names \ Nested) \ frames[t][n].left
            BY <2>1, <2>2, <3>2, <4>2 DEF Unlisted
          <5> QED
            BY <2>4, <3>1, <3>2, <4>1, <5>1 DEF AllGood
        <4> QED
          BY <2>2, <4>1, <4>3 DEF Named
      <3> QED
        BY <2>3, <3>1, <3>2, KeptStays DEF SameNames
    <2> QED
      BY <2>3, <2>5 DEF NobodyLost
  <1>11. ASSUME NEW t \in Threads, CleanTerminate(t) PROVE NobodyLost'
    <2> PICK n : n = Len(frames[t])
      OBVIOUS
    <2> PICK m : m = frames[t][n].module
      OBVIOUS
    <2>1. m \in DOMAIN modules
      BY <1>11, TopModule DEF CleanTerminate
    <2>2. SameLoads /\ UNCHANGED registered /\ (Enters(t, n, m) \/ PassesOver(m))
      BY <1>11, <2>1, CleanTerminates
    <2> QED
      BY <1>8, <2>2
  <1>12. ASSUME NEW t \in Threads, CleanDelete(t) PROVE NobodyLost'
    <2> PICK n : n = Len(frames[t])
      OBVIOUS
    <2> PICK m : m = frames[t][n].module
      OBVIOUS
    <2>1. m \in DOMAIN modules
      BY <1>12, TopModule DEF CleanDelete
    <2>2. /\ SameLoads /\ UNCHANGED modules /\ n \in Positions(t)
          /\ frames[t][n].op = "clean" /\ frames[t][n].at = "delete"
          /\ \A l \in Locators, p \in Paths :
                l # modules[m].locator \/ p # modules[m].path =>
                   registered'[l][p] = registered[l][p]
      BY <1>12, <2>1, CleanDeletes
    <2>3. DoneOK(m)
      BY <2>2 DEF CleanDone, CleanAt
    <2>4. ASSUME NEW k \in DOMAIN modules PROVE KeptOK(k)'
      <3>1. KeptOK(k) /\ k # 0 /\ (Loading(k) => Loading(k)')
        BY <1>0, <2>2, SameLoadings
      <3>2. ASSUME Named(k), modules[k].life = "up", ~modules[k].early, Alone(k)
            PROVE  Named(k)'
        <4>1. PICK l \in Locators, p \in Paths : registered[l][p] = k
          BY <3>2 DEF Named
        <4>2. modules[k].locator = l /\ modules[k].path = p
          BY <3>1, <4>1 DEF NamesOK
        <4>3. k # m
          BY <2>3, <3>2 DEF DoneOK
        <4>4. ~(l = modules[m].locator /\ p = modules[m].path)
          BY <2>1, <3>2, <4>2, <4>3 DEF Alone
        <4> QED
          BY <2>2, <4>1, <4>4 DEF Named
      <3> QED
        BY <2>2, <3>1, <3>2, KeptStays DEF SameNames
    <2> QED
      BY <2>2, <2>4 DEF NobodyLost
  <1> QED
    BY <1>2, <1>3, <1>4, <1>5, <1>6, <1>7, <1>9, <1>10, <1>11, <1>12 DEF Next, QuietStep

-----------------------------------------------------------------------------
(* The theorems *)

LEMMA InitIInv == ASSUME Init PROVE IInv
  <1>1. /\ modules = <<>> /\ frames = [t \in Threads |-> <<>>] /\ cleanups = <<0>>
        /\ registered = [l \in Locators |-> [p \in Paths |-> 0]] /\ ~overlapped
        /\ system = "open" /\ overlapped \in BOOLEAN
    BY DEF Init
  <1>2. /\ \A t \in Threads : Positions(t) = {}
        /\ DOMAIN modules = {} /\ DOMAIN cleanups = {1} /\ Len(modules) = 0
    <2>1. Len(<<>>) = 0 /\ DOMAIN <<>> = {}
      OBVIOUS
    <2>2. DOMAIN modules = {} /\ Len(modules) = 0
      BY <1>1, <2>1, Zenon
    <2>3. DOMAIN cleanups = {1}
      BY <1>1
    <2>4. ASSUME NEW t \in Threads PROVE Positions(t) = {}
      <3>1. frames[t] = <<>>
        BY <1>1
      <3> QED
        BY <2>1, <3>1, Zenon DEF Positions
    <2> QED
      BY <2>2, <2>3, <2>4
  <1>3. \A t \in Threads : ~Writing(t) /\ ~Reading(t) /\ ~Terminating(t)
    BY <1>2 DEF Writing, Reading, Terminating, FramesOf, Positions
  <1>4. TypeOK
    <2>1. <<>> \in Seq(Modules) /\ <<>> \in Seq(Frames)
      OBVIOUS
    <2>2. cleanups \in Seq(0 .. 0)
      BY <1>1
    <2> QED
      BY <1>1, <1>2, <2>1, <2>2 DEF TypeOK
  <1>5. Stacked /\ LoadsOK /\ AllOK /\ OneTerminator
    BY <1>2, <1>3 DEF Stacked, LoadsOK, OneLoad, AllOK, OneTerminator
  <1>6. CleanupsOK
    BY <1>2 DEF CleanupsOK
  <1>7. NamesOK /\ NamesWork
    BY <1>1 DEF NamesOK, NamesWork, Locators
  <1>8. LocksOK
    BY <1>3 DEF LocksOK
  <1>9. TerminatedOK /\ CleanupIsDue /\ DisconnectedIsDown /\ CleanDone /\ NobodyLost
    BY <1>2 DEF TerminatedOK, CleanupIsDue, DisconnectedIsDown, CleanDone, NobodyLost
  <1> QED
    BY <1>4, <1>5, <1>6, <1>7, <1>8, <1>9 DEF IInv

LEMMA NextIInv == ASSUME IInv, [Next]_vars PROVE IInv'
  <1>1. /\ TypeOK /\ Stacked /\ LoadsOK /\ NamesOK /\ LocksOK /\ AllOK /\ CleanupsOK
        /\ OneTerminator /\ TerminatedOK /\ CleanupIsDue /\ NamesWork /\ DisconnectedIsDown
        /\ CleanDone /\ NobodyLost
    BY DEF IInv
  <1>2. TypeOK'
    BY <1>1, NextTypeOK
  <1>3. Stacked' /\ LoadsOK' /\ NamesOK' /\ LocksOK'
    BY <1>1, <1>2, NextStacked, NextLoadsOK, NextNamesOK, NextLocksOK
  <1>4. AllOK' /\ CleanupsOK' /\ OneTerminator'
    BY <1>1, NextAllOK, NextCleanupsOK, NextOneTerminator
  <1>5. NamesWork' /\ DisconnectedIsDown'
    BY <1>1, <1>2, NextNamesWork, NextDropped
  <1>6. TerminatedOK' /\ CleanupIsDue'
    BY <1>1, <1>2, NextTerminatedOK, NextCleanupIsDue
  <1>7. CleanDone' /\ NobodyLost'
    BY <1>1, <1>2, NextCleanDone, NextNobodyLost
  <1> QED
    BY <1>2, <1>3, <1>4, <1>5, <1>6, <1>7 DEF IInv

\* The inductive invariant: what the manager's lock, the stacks of calls and the list
\* of termination functions say of every module (PluginModuleManager.cpp).
THEOREM Invariant == Spec => []IInv
  BY InitIInv, NextIInv, PTL DEF Spec

\* RegisteredWorks in terms of the invariant.
LEMMA IInvRegisteredWorks == ASSUME IInv PROVE RegisteredWorks
  <1> SUFFICES ASSUME NEW p \in Paths, NEW m, m = registered["own"][p], m # 0
               PROVE  /\ modules[m].life \in {"up", "down"}
                      /\ modules[m].terminated > 0 =>
                            \/ modules[m].early
                            \/ \E t \in Threads : \E f \in FramesOf(t) :
                                  \/ f.op = "clean" /\ f.module = m
                                  \/ f.op = "all" /\ p \in f.names
    BY DEF RegisteredWorks
  <1>1. modules[m].life \in {"up", "down"}
    BY DEF IInv, NamesOK, Locators
  <1>2. ASSUME modules[m].terminated > 0, ~modules[m].early
        PROVE  \E t \in Threads : \E f \in FramesOf(t) :
                  \/ f.op = "clean" /\ f.module = m
                  \/ f.op = "all" /\ p \in f.names
    <2>1. AboutToDelete(p, m)
      BY <1>2 DEF IInv, NamesWork
    <2>2. PICK t \in Threads : \E i \in Positions(t) :
             \/ CleanAt(t, i) /\ frames[t][i].module = m
             \/ AllAt(t, i) /\ p \in frames[t][i].names
      BY <2>1 DEF AboutToDelete
    <2> QED
      BY <2>2 DEF CleanAt, AllAt, FramesOf, Positions
  <1> QED
    BY <1>1, <1>2

\* A module that a name is registered for has been initialised, and not terminated
\* unless its name is about to go or its cleanup ran during its load (LoadModule, 93-112).
THEOREM NamesAreOfWorkingModules == Spec => []RegisteredWorks
  BY Invariant, IInvRegisteredWorks, PTL

\* TerminatedBeforeDropped in terms of the invariant.
LEMMA IInvTerminatedBeforeDropped == ASSUME IInv PROVE TerminatedBeforeDropped
  <1> SUFFICES ASSUME NEW m \in DOMAIN modules, ~Referenced(m), modules[m].life = "up",
                      ~modules[m].early
               PROVE  ~modules[m].cleanup /\ (Unlisted(m) \/ ~Alone(m))
    BY DEF IInv, DisconnectedIsDown, TerminatedBeforeDropped
  <1>1. ~CleanupLeft(m) /\ ~Named(m)
    BY DEF Referenced, CleanupLeft, Named
  <1>2. ~CleanupStarted(m)
    BY DEF Referenced, CleanupStarted, CleanAt, FramesOf, Positions
  <1>3. ~Loading(m)
    BY DEF Referenced, Loading
  <1>4. DueOK(m) /\ KeptOK(m)
    BY DEF IInv, CleanupIsDue, NobodyLost
  <1> QED
    BY <1>1, <1>2, <1>3, <1>4 DEF DueOK, KeptOK

\* A module is disconnected after its Terminate and with no thread in its code, unless
\* two threads terminate modules at a time, and one whose last reference goes was
\* terminated before, unless its cleanup ran during its load, or it has no cleanup and
\* either a path with a slash, which TerminateAllPlugins (267-287) does not list, or the
\* name of another module (LoadModule, 81-112).
THEOREM TerminatedFirst == Spec => []TerminatedBeforeDropped
  BY Invariant, IInvTerminatedBeforeDropped, PTL

\* No module is terminated twice, unless two threads terminate modules at a time or its
\* cleanup ran during its load (the cleanup that connect registers, and TerminateAllPlugins).
THEOREM TerminatedAtMostOnce == Spec => []TerminatedOnce
  <1>1. ASSUME IInv PROVE TerminatedOnce
    <2> SUFFICES ASSUME ~overlapped, NEW m \in DOMAIN modules, ~modules[m].early
                 PROVE  modules[m].terminated <= 1
      BY DEF TerminatedOnce
    <2>1. modules[m].terminated \in Nat
      BY <1>1, ModuleFields DEF IInv
    <2>2. modules[m].terminated > 0 => modules[m].terminated = 1
      BY <1>1 DEF IInv, TerminatedOK, OnceOK
    <2> QED
      BY <2>1, <2>2
  <1> QED
    BY Invariant, <1>1, PTL

\* When the system is down and no call is left, a module that is still up has no cleanup,
\* or one that is still to run, or one that ran during its load (TerminateVEILSystem).
THEOREM EverythingIsDown == Spec => []NothingLeftUp
  <1>1. ASSUME IInv PROVE NothingLeftUp
    <2> SUFFICES ASSUME \A t \in Threads : frames[t] = <<>>,
                        NEW m \in DOMAIN modules, modules[m].life = "up"
                 PROVE  \/ ~modules[m].cleanup \/ modules[m].early
                        \/ \E i \in DOMAIN cleanups : cleanups[i] = m
      BY DEF NothingLeftUp
    <2>1. DueOK(m)
      BY <1>1 DEF IInv, CleanupIsDue
    <2>2. ~CleanupStarted(m)
      BY DEF CleanupStarted, Positions
    <2> QED
      BY <2>1, <2>2 DEF DueOK, CleanupLeft
  <1> QED
    BY Invariant, <1>1, PTL

-----------------------------------------------------------------------------
(* StuckOnlyInTerminate *)

\* A frame inside a module is that of a load, a termination or a cleanup.
LEMMA InsideCalls ==
    ASSUME StacksOK, NEW t \in Threads, NEW i \in Positions(t), frames[t][i].at = "inside"
    PROVE  frames[t][i].op \in {"load", "all", "clean"}
  <1>1. frames[t][i] \in Frames
    BY StackTypes
  <1> QED
    BY <1>1, FrameFields, FrameKinds

\* What a blocked call is, and the thread it waits for.
LEMMA BlockedCalls ==
    ASSUME StacksOK, NEW t \in Threads, frames[t] # <<>>, Blocked(t), NEW f, f = Top(t)
    PROVE  \/ f.at = "lock" /\ \E u \in Threads \ {t} : Writing(u)
           \/ f.at = "wait" /\ \E u \in Threads : Reading(u)
           \/ /\ f.op = "load" /\ f.at = "connected"
              /\ \E u \in Threads \ {t} : Inside(u, f.module)
           \/ /\ f.op = "clean" /\ f.at = "terminate"
              /\ \E u \in Threads \ {t} : Inside(u, f.module)
           \/ /\ f.op = "all" /\ f.at = "next"
              /\ \E p \in f.left : /\ p \in Paths /\ registered["own"][p] # 0
                                   /\ \E u \in Threads \ {t} : Inside(u, registered["own"][p])
  <1>1. f \in Frames
    BY StackTypes
  <1>2. f.at = "connected" => f.op = "load"
    BY <1>1, FrameFields, FrameKinds
  <1>3. f.op = "all" => f.left \subseteq Paths
    BY <1>1, FrameFields
  <1> QED
    BY <1>2, <1>3 DEF Blocked, CsWriteFree, NobodyReads, ModuleFree

\* A thread that calls from inside a module is not at the top of its terminations.
LEMMA NoTerminationAboveAModule ==
    ASSUME StacksOK, Stacked, NEW t \in Threads, NEW i \in Positions(t),
           frames[t][i].at = "inside", i # Len(frames[t])
    PROVE  Top(t).op \notin {"all", "clean"}
  <1> PICK n : n = Len(frames[t])
    OBVIOUS
  <1>1. /\ n \in Nat /\ Positions(t) = 1 .. n /\ n \in Positions(t) /\ i < n
        /\ Top(t) = frames[t][n]
    BY PositionsBefore DEF Top
  <1>2. frames[t][i] \in Frames
    BY StackTypes
  <1>3. frames[t][i].op # "close"
    BY <1>2, FrameFields
  <1>4. frames[t][n].op \in {"all", "clean"} => n = 1 \/ (n = 2 /\ frames[t][1].op = "close")
    BY <1>1 DEF Stacked
  <1>5. n = 2 => i = 1
    BY <1>1
  <1> QED
    BY <1>1, <1>3, <1>4, <1>5

LEMMA NothingIsStuck ==
    ASSUME IInv,
           \A t \in Threads : frames[t] # <<>> => Blocked(t) /\ ~AsksInTerminate(t)
    PROVE  \A t \in Threads : frames[t] = <<>>
  <1>0. StacksOK /\ Stacked /\ LoadsOK /\ LocksOK
    BY DEF IInv, TypeOK, StacksOK
  <1>1. \A t, u \in Threads : Writing(t) /\ Writing(u) => t = u
    BY <1>0 DEF LocksOK
  \* Whoever is inside a module is blocked in a call it makes from there.
  <1>2. ASSUME NEW t \in Threads, NEW i \in Positions(t), frames[t][i].at = "inside"
        PROVE  /\ frames[t] # <<>> /\ i # Len(frames[t]) /\ Top(t).op \notin {"all", "clean"}
    <2>1. frames[t] # <<>>
      BY <1>2 DEF Positions
    <2>2. i # Len(frames[t])
      <3>1. Top(t).at # "inside"
        BY <1>0, <2>1, BlockedCalls
      <3> QED
        BY <1>2, <3>1 DEF Top
    <2> QED
      BY <1>0, <1>2, <2>1, <2>2, NoTerminationAboveAModule
  \* No load waits for its module: who is inside would be a second writer.
  <1>3. ASSUME NEW t \in Threads, NEW u \in Threads \ {t}, NEW i \in Positions(u),
               frames[u][i].at = "inside", Writing(t)
        PROVE  frames[u][i].op # "load"
    <2>1. frames[u][i].op = "load" => Writing(u)
      BY <1>3, WritingIs DEF LoadAt
    <2> QED
      BY <1>1, <1>3, <2>1
  <1>4. ASSUME NEW t \in Threads, frames[t] # <<>>, Top(t).op = "load", Top(t).at = "connected"
        PROVE  Writing(t)
    BY <1>0, <1>4, StackTypes DEF Writing, FramesOf, Positions
  <1>5. ASSUME NEW t \in Threads, NEW i \in Positions(t), frames[t][i].at = "inside",
               frames[t][i].op \in {"all", "clean"}
        PROVE  frames[t] # <<>> /\ Top(t).op = "load" /\ Top(t).at = "connected"
    <2>1. Top(t).at \notin {"lock", "wait"}
      BY <1>2, <1>5 DEF AsksInTerminate, FramesOf, Positions
    <2> QED
      BY <1>0, <1>2, <1>5, <2>1, BlockedCalls
  <1>6. ASSUME NEW t \in Threads, frames[t] # <<>>
        PROVE  ~(Top(t).op = "load" /\ Top(t).at = "connected")
    <2> SUFFICES ASSUME Top(t).op = "load", Top(t).at = "connected" PROVE FALSE
      OBVIOUS
    <2>1. PICK u \in Threads \ {t} : Inside(u, Top(t).module)
      BY <1>0, <1>6, BlockedCalls
    <2>2. PICK i \in Positions(u) : frames[u][i].at = "inside"
      BY <2>1, InsideIs DEF InsideAt
    <2>3. frames[u][i].op # "load"
      BY <1>3, <1>4, <1>6, <2>2
    <2>4. Top(u).op = "load" /\ Top(u).at = "connected" /\ frames[u] # <<>>
      BY <1>0, <1>5, <2>2, <2>3, InsideCalls
    <2> QED
      BY <1>1, <1>4, <1>6, <2>1, <2>4
  \* So only loads are inside modules, and they are blocked at the lock.
  <1>7. ASSUME NEW t \in Threads, NEW i \in Positions(t), frames[t][i].at = "inside"
        PROVE  FALSE
    <2>1. frames[t][i].op = "load"
      BY <1>0, <1>5, <1>6, <1>7, InsideCalls
    <2>2. LoadAt(t, i) /\ Writing(t)
      BY <1>7, <2>1, WritingIs DEF LoadAt
    <2>3. \A u \in Threads : ~Reading(u)
      BY <1>0, <2>2 DEF LocksOK
    <2>4. \A u \in Threads \ {t} : ~Writing(u)
      BY <1>1, <2>2
    <2>5. frames[t] # <<>> /\ Top(t).op \notin {"all", "clean"}
      BY <1>2, <1>7
    <2>6. ~(Top(t).op = "load" /\ Top(t).at = "connected")
      BY <1>6, <2>5
    <2> QED
      BY <1>0, <2>3, <2>4, <2>5, <2>6, BlockedCalls
  <1>8. \A u \in Threads : \A m : ~Inside(u, m)
    BY <1>7, InsideIs DEF InsideAt
  \* What is left waits for the lock of the manager.
  <1>9. \A t \in Threads : ~Reading(t)
    <2> SUFFICES ASSUME NEW t \in Threads, Reading(t) PROVE FALSE
      OBVIOUS
    <2>1. PICK i \in Positions(t) : AllAt(t, i)
      BY ReadingIs
    <2>2. /\ Len(frames[t]) \in Nat /\ Positions(t) = 1 .. Len(frames[t])
          /\ frames[t] # <<>> /\ Len(frames[t]) \in Positions(t)
      BY <1>0, <2>1, PositionsBefore DEF Positions
    <2>3. CASE i = Len(frames[t])
      <3>1. Top(t).op = "all" /\ Top(t).at # "lock"
        BY <2>1, <2>3 DEF Top, AllAt
      <3>2. Top(t).at # "wait"
        <4>1. Top(t) \in Frames
          BY <1>0, <2>2, StackTypes
        <4> QED
          BY <3>1, <4>1, FrameFields
      <3> QED
        BY <1>0, <1>8, <2>2, <3>1, <3>2, BlockedCalls
    <2>4. CASE i # Len(frames[t])
      <3>1. i < Len(frames[t])
        BY <2>2, <2>4
      <3>2. frames[t][i].at = "inside"
        BY <1>0, <2>1, <3>1 DEF Stacked, AllAt
      <3> QED
        BY <1>7, <3>2
    <2> QED
      BY <2>3, <2>4
  <1>10. ASSUME NEW t \in Threads, Writing(t) PROVE FALSE
    <2>1. frames[t] # <<>>
      BY <1>10 DEF Writing, FramesOf
    <2>2. \A u \in Threads \ {t} : ~Writing(u)
      BY <1>1, <1>10
    <2> QED
      BY <1>0, <1>8, <1>9, <2>1, <2>2, BlockedCalls
  <1>11. ASSUME NEW t \in Threads, frames[t] # <<>> PROVE FALSE
    BY <1>0, <1>8, <1>9, <1>10, <1>11, BlockedCalls
  <1> QED
    BY <1>11

\* Calls block each other for good only when a module's Terminate calls the manager
\* (AutoReaderLock and AutoWriterLock of PluginModuleManager, PluginModule::_lock).
THEOREM OnlyTerminateBlocksForGood == Spec => []StuckOnlyInTerminate
  <1>1. ASSUME IInv PROVE StuckOnlyInTerminate
    <2> SUFFICES ASSUME NEW t \in Threads, frames[t] # <<>>,
                        \A u \in Threads : frames[u] # <<>> => Blocked(u) /\ ~AsksInTerminate(u)
                 PROVE  FALSE
      BY DEF StuckOnlyInTerminate
    <2> QED
      BY <1>1, NothingIsStuck
  <1> QED
    BY Invariant, <1>1, PTL
=============================================================================
