--------------------------- MODULE PluginManager ---------------------------
(***************************************************************************)
(* The plug-in manager of VEILCore (PluginModuleManager.cpp) and its       *)
(* modules (PluginModule.cpp), with the termination functions that loading *)
(* leaves behind.  A module's Initialize and Terminate are code of the     *)
(* plug-in: they take time, and may call the manager.                      *)
(*                                                                         *)
(* A thread's calls are a stack of frames.  The manager's lock is the one  *)
(* of module RWLock and is not kept apart: a frame past its "lock" has the *)
(* guard, and a load that is past it has csWrite.  A module's own mutex is *)
(* held by the frames inside its code.                                     *)
(*                                                                         *)
(* The name of a plug-in is PLUGIN_ and its path, so a path with a slash   *)
(* puts the module into a locator below the manager's (servicelocator.cpp, *)
(* resolvePath).  The name leads to it all the same, but the list that     *)
(* TerminateAllPlugins makes has the locator and not what is in it.        *)
(*                                                                         *)
(* Left out: a TerminateAllPlugins that a module's code calls (it starts   *)
(* from an empty stack or from TerminateVEILSystem), names of two paths    *)
(* that TryCreate's cut at the last dash takes for one, and the end of the *)
(* locators, which drops what they still have.                             *)
(***************************************************************************)
EXTENDS Naturals, Sequences

CONSTANTS
    Threads,
    Paths,       \* of the plug-ins' libraries
    Nested,      \* those with a slash
    Loads,       \* how they are loaded: <<locator, whether a cleanup is registered>>
    MaxModules,  \* bound on the modules that are ever connected
    MaxDepth     \* bound on the frames of a thread

\* The manager's own locator, and the one LoadModuleForService is given.
Locators == {"own", "service"}

ASSUME PluginAssumption ==
    /\ MaxModules \in Nat /\ MaxDepth \in Nat
    /\ Nested \subseteq Paths /\ Loads \subseteq (Locators \X BOOLEAN)

VARIABLES
    modules,     \* the PluginModule objects that were connected, in that order
    registered,  \* the module behind each PLUGIN_ name, 0 where there is none
    cleanups,    \* gTerminators: modules, or 0 for the one of TopServiceLocator
    frames,      \* the calls each thread is in
    system,      \* "open", "closing" or "closed"
    overlapped   \* history: two threads have been terminating modules at a time

vars == <<modules, registered, cleanups, frames, system, overlapped>>

Init ==
    /\ modules = <<>>
    /\ registered = [l \in Locators |-> [p \in Paths |-> 0]]
    /\ cleanups = <<0>>
    /\ frames = [t \in Threads |-> <<>>]
    /\ system = "open"
    /\ overlapped = FALSE

-----------------------------------------------------------------------------
(* Frames and locks *)

FramesOf(t) == {frames[t][i] : i \in DOMAIN frames[t]}
Top(t) == frames[t][Len(frames[t])]
In(t, op, at) == frames[t] # <<>> /\ Top(t).op = op /\ Top(t).at = at

Push(t, f) == frames' = [frames EXCEPT ![t] = Append(@, f)]
Pop(t) == frames' = [frames EXCEPT ![t] = SubSeq(@, 1, Len(@) - 1)]
Become(t, f) == frames' = [frames EXCEPT ![t][Len(frames[t])] = f]

Writing(t) == \E f \in FramesOf(t) : f.op = "load" /\ f.at # "lock"
Reading(t) == \E f \in FramesOf(t) : f.op = "all" /\ f.at # "lock"

\* A slip: csWrite is not recursive.
CsWriteUnowned(t) == \A u \in Threads : ~Writing(u)

\* csWrite, which readers pass through and writers keep, is free for t.
CsWriteFree(t) == \A u \in Threads \ {t} : ~Writing(u)

NobodyReads == \A u \in Threads : ~Reading(u)

\* The module's _lock, which is recursive.
Inside(t, m) == \E f \in FramesOf(t) : f.at = "inside" /\ f.module = m
ModuleFree(t, m) == \A u \in Threads \ {t} : ~Inside(u, m)

\* t is terminating modules.
Terminating(t) ==
    \E f \in FramesOf(t) : f.op = "clean" \/ (f.op = "all" /\ f.at # "lock")
Overlaps(t) == overlapped \/ \E u \in Threads \ {t} : Terminating(u)

\* A call is made by the application, or by the plug-in's code.
MayCall(t) ==
    \/ frames[t] = <<>> /\ system # "closed"
    \/ frames[t] # <<>> /\ Top(t).at = "inside" /\ Len(frames[t]) < MaxDepth

-----------------------------------------------------------------------------
(* LoadModule, LoadModuleForService *)

LoadModule(t) ==
    /\ MayCall(t)
    /\ \E p \in Paths, how \in Loads :
          Push(t, [op |-> "load", at |-> "lock", path |-> p, locator |-> how[1],
                   cleanup |-> how[2], module |-> 0])
    /\ UNCHANGED <<modules, registered, cleanups, system, overlapped>>

LoadLock(t) ==
    /\ In(t, "load", "lock")
    /\ CsWriteFree(t)
    /\ Become(t, [Top(t) EXCEPT !.at = "wait"])
    /\ UNCHANGED <<modules, registered, cleanups, system, overlapped>>

\* The module is registered, with the manager's own locator, or has no library.
LoadNothing(t) ==
    /\ In(t, "load", "wait")
    /\ NobodyReads
    /\ Pop(t)
    /\ UNCHANGED <<modules, registered, cleanups, system, overlapped>>

\* connect, and the cleanup if there is somebody to tell.
LoadConnect(t) ==
    /\ In(t, "load", "wait")
    /\ NobodyReads
    /\ Len(modules) < MaxModules
    /\ registered["own"][Top(t).path] = 0
    /\ LET f == Top(t)
           m == Len(modules) + 1
       IN /\ modules' = Append(modules,
                [path |-> f.path, locator |-> f.locator, cleanup |-> f.cleanup,
                 connected |-> TRUE, life |-> "new", terminated |-> 0, early |-> FALSE])
          /\ cleanups' = IF f.cleanup THEN Append(cleanups, m) ELSE cleanups
          /\ Become(t, [f EXCEPT !.at = "connected", !.module = m])
    /\ UNCHANGED <<registered, system, overlapped>>

\* Initialize of the module, which calls that of the library.
LoadInitialize(t) ==
    /\ In(t, "load", "connected")
    /\ ModuleFree(t, Top(t).module)
    /\ IF modules[Top(t).module].connected
       THEN Become(t, [Top(t) EXCEPT !.at = "inside"])
       ELSE Pop(t)
    /\ UNCHANGED <<modules, registered, cleanups, system, overlapped>>

\* A slip: the result is not looked at.
InitializeFailsUnseen(t) ==
    /\ In(t, "load", "inside")
    /\ modules' = [modules EXCEPT ![Top(t).module].life = "failed"]
    /\ Become(t, [Top(t) EXCEPT !.at = "add"])
    /\ UNCHANGED <<registered, cleanups, system, overlapped>>

InitializeFails(t) ==
    /\ In(t, "load", "inside")
    /\ modules' = [modules EXCEPT ![Top(t).module].life = "failed"]
    /\ Pop(t)
    /\ UNCHANGED <<registered, cleanups, system, overlapped>>

InitializeWorks(t) ==
    /\ In(t, "load", "inside")
    /\ modules' = [modules EXCEPT ![Top(t).module].life = "up"]
    /\ Become(t, [Top(t) EXCEPT !.at = "add"])
    /\ UNCHANGED <<registered, cleanups, system, overlapped>>

\* AddSingletonObject, whose refusal of a name in use goes unnoticed.
LoadAdd(t) ==
    /\ In(t, "load", "add")
    /\ LET f == Top(t)
       IN registered' = [registered EXCEPT ![f.locator][f.path] = IF @ = 0 THEN f.module ELSE @]
    /\ Pop(t)
    /\ UNCHANGED <<modules, cleanups, system, overlapped>>

-----------------------------------------------------------------------------
(* FindModule *)

FindModule(t) ==
    /\ MayCall(t)
    /\ Push(t, [op |-> "find", at |-> "lock"])
    /\ UNCHANGED <<modules, registered, cleanups, system, overlapped>>

FindReturn(t) ==
    /\ In(t, "find", "lock")
    /\ CsWriteFree(t)
    /\ Pop(t)
    /\ UNCHANGED <<modules, registered, cleanups, system, overlapped>>

-----------------------------------------------------------------------------
(* Terminate of a module, up to the call of the library's function *)

Loading(m) == \E t \in Threads : \E f \in FramesOf(t) : f.op = "load" /\ f.module = m

Terminated(m) ==
    modules' = [modules EXCEPT ![m].terminated = @ + 1,
                               ![m].life = IF @ = "up" THEN "down" ELSE @,
                               ![m].early = @ \/ Loading(m)]

-----------------------------------------------------------------------------
(* TerminateAllPlugins *)

All == [op |-> "all", at |-> "lock", module |-> 0, left |-> {}, names |-> {}]

TerminateAllPlugins(t) ==
    /\ frames[t] = <<>> /\ system # "closed"
    /\ Push(t, All)
    /\ UNCHANGED <<modules, registered, cleanups, system, overlapped>>

\* The reader guard and ObjectGroup: the names of the modules there are.  What is in a
\* locator below is no IPluginModule of the list, and the first loop passes it over.
AllLock(t) ==
    /\ In(t, "all", "lock")
    /\ CsWriteFree(t)
    /\ LET names == {p \in Paths : registered["own"][p] # 0}
       IN Become(t, [Top(t) EXCEPT !.at = "next", !.left = names \ Nested, !.names = names])
    /\ overlapped' = Overlaps(t)
    /\ UNCHANGED <<modules, registered, cleanups, system>>

\* The first loop: Terminate each module that is still there.
AllTerminate(t) ==
    /\ In(t, "all", "next")
    /\ \E p \in Top(t).left :
          LET m == registered["own"][p]
              f == [Top(t) EXCEPT !.left = @ \ {p}]
          IN IF m # 0 /\ modules[m].connected
             THEN /\ ModuleFree(t, m)
                  /\ Terminated(m)
                  /\ Become(t, [f EXCEPT !.at = "inside", !.module = m])
             ELSE Become(t, f) /\ UNCHANGED modules
    /\ UNCHANGED <<registered, cleanups, system, overlapped>>

AllTerminated(t) ==
    /\ In(t, "all", "inside")
    /\ Become(t, [Top(t) EXCEPT !.at = "next", !.module = 0])
    /\ UNCHANGED <<modules, registered, cleanups, system, overlapped>>

\* A slip: one loop does it all.
AllDisconnectAtOnce(t) ==
    /\ In(t, "all", "next")
    /\ \E p \in Top(t).names :
          LET m == registered["own"][p]
          IN /\ modules' = IF m = 0 \/ p \in Nested THEN modules
                          ELSE [modules EXCEPT ![m].connected = FALSE]
             /\ registered' = [registered EXCEPT !["own"][p] = 0]
             /\ Become(t, [Top(t) EXCEPT !.names = @ \ {p}])
    /\ UNCHANGED <<cleanups, system, overlapped>>

\* The second loop: disconnect and DeleteClass.  That of a locator drops all it has,
\* one after the other here, without a disconnect; no load is under way meanwhile.
AllDisconnect(t) ==
    /\ In(t, "all", "next")
    /\ Top(t).left = {}
    /\ \E p \in Top(t).names :
          LET m == registered["own"][p]
          IN /\ modules' = IF m = 0 \/ p \in Nested THEN modules
                          ELSE [modules EXCEPT ![m].connected = FALSE]
             /\ registered' = [registered EXCEPT !["own"][p] = 0]
             /\ Become(t, [Top(t) EXCEPT !.names = @ \ {p}])
    /\ UNCHANGED <<cleanups, system, overlapped>>

AllReturn(t) ==
    /\ In(t, "all", "next")
    /\ Top(t).left = {} /\ Top(t).names = {}
    /\ Pop(t)
    /\ UNCHANGED <<modules, registered, cleanups, system, overlapped>>

-----------------------------------------------------------------------------
(* TerminateVEILSystem: the termination functions, the last one first *)

TerminateVEILSystem(t) ==
    /\ frames[t] = <<>> /\ system = "open"
    /\ system' = "closing"
    /\ Push(t, [op |-> "close", at |-> "pop"])
    /\ UNCHANGED <<modules, registered, cleanups, overlapped>>

CloseNext(t) ==
    /\ In(t, "close", "pop")
    /\ cleanups # <<>>
    /\ cleanups' = SubSeq(cleanups, 1, Len(cleanups) - 1)
    /\ LET m == cleanups[Len(cleanups)]
       IN IF m = 0
          THEN Push(t, All) /\ UNCHANGED overlapped
          ELSE /\ Push(t, [op |-> "clean", at |-> "terminate", module |-> m])
               /\ overlapped' = Overlaps(t)
    /\ UNCHANGED <<modules, registered, system>>

CloseReturn(t) ==
    /\ In(t, "close", "pop")
    /\ cleanups = <<>>
    /\ system' = "closed"
    /\ Pop(t)
    /\ UNCHANGED <<modules, registered, cleanups, overlapped>>

\* A slip: the cleanup looks its module up by the name.
CleanTerminateByName(t) ==
    /\ In(t, "clean", "terminate")
    /\ LET m == Top(t).module
           n == registered[modules[m].locator][modules[m].path]
       IN IF n # 0 /\ modules[n].connected
          THEN /\ ModuleFree(t, n)
               /\ Terminated(n)
               /\ Become(t, [Top(t) EXCEPT !.at = "inside"])
          ELSE /\ Become(t, [Top(t) EXCEPT !.at = "delete"])
               /\ UNCHANGED modules
    /\ UNCHANGED <<registered, cleanups, system, overlapped>>

\* The cleanup of a module, registered or not: Terminate, where it is connected.
CleanTerminate(t) ==
    /\ In(t, "clean", "terminate")
    /\ LET m == Top(t).module
       IN IF modules[m].connected
          THEN /\ ModuleFree(t, m)
               /\ Terminated(m)
               /\ Become(t, [Top(t) EXCEPT !.at = "inside"])
          ELSE /\ Become(t, [Top(t) EXCEPT !.at = "delete"])
               /\ UNCHANGED modules
    /\ UNCHANGED <<registered, cleanups, system, overlapped>>

CleanTerminated(t) ==
    /\ In(t, "clean", "inside")
    /\ Become(t, [Top(t) EXCEPT !.at = "delete"])
    /\ UNCHANGED <<modules, registered, cleanups, system, overlapped>>

\* A slip: the name stays.
CleanDeleteNothing(t) ==
    /\ In(t, "clean", "delete")
    /\ Pop(t)
    /\ UNCHANGED <<modules, registered, cleanups, system, overlapped>>

\* DeleteClass of its name, whichever module that has now.
CleanDelete(t) ==
    /\ In(t, "clean", "delete")
    /\ LET m == modules[Top(t).module]
       IN registered' = [registered EXCEPT ![m.locator][m.path] = 0]
    /\ Pop(t)
    /\ UNCHANGED <<modules, cleanups, system, overlapped>>

-----------------------------------------------------------------------------

Next ==
    \E t \in Threads :
       \/ LoadModule(t) \/ LoadLock(t) \/ LoadNothing(t) \/ LoadConnect(t)
       \/ LoadInitialize(t) \/ InitializeFails(t) \/ InitializeWorks(t) \/ LoadAdd(t)
       \/ FindModule(t) \/ FindReturn(t)
       \/ TerminateAllPlugins(t) \/ AllLock(t) \/ AllTerminate(t) \/ AllTerminated(t)
       \/ AllDisconnect(t) \/ AllReturn(t)
       \/ TerminateVEILSystem(t) \/ CloseNext(t) \/ CloseReturn(t)
       \/ CleanTerminate(t) \/ CleanTerminated(t) \/ CleanDelete(t)

Spec == Init /\ [][Next]_vars

-----------------------------------------------------------------------------
(* Properties *)

\* What the top frame of t waits for is not free.
Blocked(t) ==
    LET f == Top(t)
    IN \/ f.at = "lock" /\ ~CsWriteFree(t)
       \/ f.at = "wait" /\ ~NobodyReads
       \/ f.at = "connected" /\ ~ModuleFree(t, f.module)
       \/ f.op = "clean" /\ f.at = "terminate" /\ modules[f.module].connected
                         /\ ~ModuleFree(t, f.module)
       \/ /\ f.op = "all" /\ f.at = "next" /\ f.left # {}
          /\ \A p \in f.left : LET m == registered["own"][p]
                               IN m # 0 /\ modules[m].connected /\ ~ModuleFree(t, m)

\* t asks for a guard of the manager from a module's Terminate.
AsksInTerminate(t) ==
    /\ Top(t).at \in {"lock", "wait"}
    /\ \E f \in FramesOf(t) : f.at = "inside" /\ f.op \in {"all", "clean"}

\* Calls block each other for good only when a module's Terminate calls the manager:
\* loads from Initialize, finds and terminations wait for each other in no circle
\* (AutoReaderLock and AutoWriterLock of PluginModuleManager, PluginModule::_lock).
StuckOnlyInTerminate ==
    LET busy == {t \in Threads : frames[t] # <<>>}
    IN busy # {} /\ (\A t \in busy : Blocked(t)) => \E t \in busy : AsksInTerminate(t)

\* The module a name is registered for has been initialised, and terminated only if a
\* thread is about to delete the name, or its cleanup ran before its load was over
\* (LoadModule registers the cleanup first and the module last, 93-112).
RegisteredWorks ==
    \A p \in Paths :
       LET m == registered["own"][p]
       IN m # 0 =>
             /\ modules[m].life \in {"up", "down"}
             /\ modules[m].terminated > 0 =>
                   \/ modules[m].early
                   \/ \E t \in Threads : \E f \in FramesOf(t) :
                         \/ f.op = "clean" /\ f.module = m
                         \/ f.op = "all" /\ p \in f.names

\* There is a shared_ptr to module m: in a locator, in a termination function, or in a
\* call.  When there is none, ~PluginModule (199-202) disconnects it.
Referenced(m) ==
    \/ \E l \in Locators, p \in Paths : registered[l][p] = m
    \/ \E i \in DOMAIN cleanups : cleanups[i] = m
    \/ \E t \in Threads : \E f \in FramesOf(t) :
          f.op \in {"load", "all", "clean"} /\ f.module = m

\* No other module has the name of m.
Alone(m) ==
    \A k \in DOMAIN modules :
       modules[k].locator = modules[m].locator /\ modules[k].path = modules[m].path => k = m

\* ObjectGroup does not list m.
Unlisted(m) == modules[m].locator = "own" /\ modules[m].path \in Nested

\* TerminateAllPlugins (267-287) disconnects a module after its Terminate, and not
\* while a thread is in its code, unless two threads have been terminating modules at a
\* time.  A module that goes with its last reference was terminated before, unless its
\* cleanup ran too early, or it has no cleanup and a path with a slash, which
\* TerminateAllPlugins drops unseen, or shares its name with another module, for
\* AddSingletonObject refuses the second and the cleanup of one deletes the other.
TerminatedBeforeDropped ==
    \A m \in DOMAIN modules :
       /\ ~modules[m].connected =>
             /\ modules[m].life # "up"
             /\ overlapped \/ \A t \in Threads : ~Inside(t, m)
       /\ ~Referenced(m) /\ modules[m].life = "up" =>
             \/ modules[m].early
             \/ /\ ~modules[m].cleanup
                /\ Unlisted(m) \/ ~Alone(m)

\* Nor is it terminated twice: TerminateAllPlugins disconnects what its cleanup would
\* terminate again, and the cleanup deletes what TerminateAllPlugins would find.
TerminatedOnce ==
    overlapped \/ \A m \in DOMAIN modules : modules[m].early \/ modules[m].terminated <= 1

\* Nothing initialised is left when the system is down, except a module without a
\* cleanup, one whose cleanup is still to run or one whose cleanup ran too early.
NothingLeftUp ==
    system = "closed" /\ (\A t \in Threads : frames[t] = <<>>) =>
       \A m \in DOMAIN modules :
          modules[m].life = "up" =>
             \/ ~modules[m].cleanup \/ modules[m].early
             \/ \E i \in DOMAIN cleanups : cleanups[i] = m

=============================================================================
