---------------------------- MODULE ChangeMonitor ----------------------------
(***************************************************************************)
(* The life of the system (VEILCore/VEILCore.cpp: the root service         *)
(* locator, the stack of termination functions, TerminateVEILSystem) and   *)
(* of the change monitor (VEILCore/CkmChangeMonitorImpl.cpp), a thread     *)
(* that scans the registered producers and tells the registered consumers. *)
(* Two threads run: the application's, which makes, starts, stops and      *)
(* terminates, and the monitor's own.  None of the lists has a lock, and   *)
(* the monitor's thread looks at the global gChangeMonitor each time.      *)
(***************************************************************************)
EXTENDS Integers, Sequences, FiniteSetsExt, SequencesExt

CONSTANTS
    MaxCookie,   \* bound on the registrations in each list of one monitor
    MaxOthers    \* bound on the termination functions of other parts

ASSUME ChangeMonitorAssumption == MaxCookie \in Nat /\ MaxOthers \in Nat

Lists == {"producer", "consumer"}
Callers == {"app", "monitor"}

VARIABLES
    locator,      \* g_ServiceLocator is set
    monitor,      \* gChangeMonitor is set
    terminators,  \* gTerminators, the next to run at the end
    list,         \* ProducerList and ConsumerList: the cookies in them
    nextCookie,   \* gNextProducer and gNextConsumer
    gCloseThread,
    thread,       \* where the monitor's thread is; "none" when not Active
    pc,           \* where the application's thread is
    back,         \* where StopChangeMonitorThread returns to
    at,           \* the cookie each walk over a list is at
    lost          \* a walk used an entry that had been freed

vars == <<locator, monitor, terminators, list, nextCookie, gCloseThread,
          thread, pc, back, at, lost>>
object == <<list, nextCookie>>
walks == <<at, lost>>

\* ScanForChanges walks the producers; RaiseChange the consumers, on either thread.
Walks == {"scan", "app", "monitor"}
Walked(w) == IF w = "scan" THEN "producer" ELSE "consumer"
Active == thread # "none"
NewObject == /\ list' = [k \in Lists |-> {}]
             /\ nextCookie' = [k \in Lists |-> 0]

Init ==
    /\ locator = FALSE /\ monitor = FALSE /\ terminators = <<>>
    /\ list = [k \in Lists |-> {}] /\ nextCookie = [k \in Lists |-> 0]
    /\ gCloseThread = FALSE /\ thread = "none"
    /\ pc = "run" /\ back = "run"
    /\ at = [w \in Walks |-> 0] /\ lost = FALSE

-----------------------------------------------------------------------------
(* Making the system and its monitor. *)

\* TopServiceLocator pushes the function that closes the system on fs.
LocatorMade(fs) == IF locator THEN fs ELSE Append(fs, "CloseSystem")

TopServiceLocator ==
    /\ pc = "run" /\ ~locator
    /\ locator' = TRUE
    /\ terminators' = LocatorMade(terminators)
    /\ UNCHANGED <<monitor, object, gCloseThread, thread, pc, back, walks>>

\* What GetChangeMonitor does when the termination functions are fs: they are
\* fs2 after it if there is no monitor yet.
MonitorMade(fs, fs2) ==
    /\ locator' = (locator \/ ~monitor)
    /\ monitor' = TRUE
    /\ terminators' = IF monitor THEN fs ELSE fs2
    /\ IF monitor THEN UNCHANGED <<object, gCloseThread>>
                  ELSE NewObject /\ gCloseThread' = FALSE

\* A slip: its termination function is pushed before the locator is made.
MakeMonitorFirst(fs) ==
    MonitorMade(fs, LocatorMade(Append(fs, "ShutdownChangeMonitor")))

MakeMonitor(fs) ==
    MonitorMade(fs, Append(LocatorMade(fs), "ShutdownChangeMonitor"))

GetChangeMonitor ==
    /\ pc = "run" /\ ~monitor
    /\ MakeMonitor(terminators)
    /\ UNCHANGED <<thread, pc, back, walks>>

\* A plug-in, the CMS header or a window library asks to be terminated.
AddSystemTerminationFunction ==
    /\ pc = "run"
    /\ Len(SelectSeq(terminators, LAMBDA f : f = "Other")) < MaxOthers
    /\ terminators' = Append(terminators, "Other")
    /\ UNCHANGED <<locator, monitor, object, gCloseThread, thread, pc, back, walks>>

-----------------------------------------------------------------------------
(* Start, stop and kill, called through GetChangeMonitor(). *)

StartChangeMonitorThread ==
    /\ pc = "run" /\ monitor /\ ~Active
    /\ gCloseThread' = FALSE
    /\ thread' = "loop"
    /\ UNCHANGED <<locator, monitor, terminators, object, pc, back, walks>>

\* A slip: the lists are emptied while the thread may still walk them.
StopClearsFirst(from) ==
    IF Active
    THEN /\ gCloseThread' = TRUE /\ pc' = "wait" /\ back' = from
         /\ list' = [k \in Lists |-> {}]
         /\ UNCHANGED nextCookie
    ELSE pc' = from /\ UNCHANGED <<gCloseThread, back, object>>

\* A slip: the thread is waited for and never told to end.
StopUntold(from) ==
    IF Active
    THEN pc' = "wait" /\ back' = from /\ UNCHANGED <<gCloseThread, object>>
    ELSE pc' = from /\ UNCHANGED <<gCloseThread, back, object>>

\* The first half of StopChangeMonitorThread, called from where `from' says.
Stop(from) ==
    /\ UNCHANGED object
    /\ IF Active
       THEN gCloseThread' = TRUE /\ pc' = "wait" /\ back' = from
       ELSE pc' = from /\ UNCHANGED <<gCloseThread, back>>

StopChangeMonitorThread ==
    /\ pc = "run" /\ monitor /\ Active
    /\ Stop("run")
    /\ UNCHANGED <<locator, monitor, terminators, thread, walks>>

\* A slip: the wait has a timeout, and its result is not looked at.
StoppedAfterTimeout ==
    /\ pc = "wait"
    /\ list' = [k \in Lists |-> {}]
    /\ pc' = back
    /\ UNCHANGED <<locator, monitor, terminators, nextCookie, gCloseThread,
                   thread, back, walks>>

\* WaitForThread(INFINITE) is over.
Stopped ==
    /\ pc = "wait" /\ ~Active
    /\ list' = [k \in Lists |-> {}]
    /\ pc' = back
    /\ UNCHANGED <<locator, monitor, terminators, nextCookie, gCloseThread,
                   thread, back, walks>>

KillChangeMonitorThread ==
    /\ pc = "run" /\ monitor /\ Active
    /\ gCloseThread' = TRUE
    /\ thread' = "none"
    /\ at' = [at EXCEPT !["scan"] = 0, !["monitor"] = 0]
    /\ UNCHANGED <<locator, monitor, terminators, object, pc, back, lost>>

-----------------------------------------------------------------------------
(* Registering, unregistering and walking the lists. *)

\* c may call the monitor: the application at any time and in OnCkmChange,
\* the monitor's thread in ScanForChanges and OnCkmChange.
MayCall(c) ==
    /\ monitor
    /\ IF c = "app" THEN pc \in {"run", "raise"} ELSE thread \in {"scan", "raise"}

\* RegisterChangeProducer and RegisterChangeConsumer.
Register(c, k) ==
    /\ MayCall(c) /\ nextCookie[k] < MaxCookie
    /\ nextCookie' = [nextCookie EXCEPT ![k] = @ + 1]
    /\ list' = [list EXCEPT ![k] = @ \cup {nextCookie[k] + 1}]
    /\ UNCHANGED <<locator, monitor, terminators, gCloseThread, thread, pc,
                   back, walks>>

\* UnregisterChangeProducer and UnregisterChangeConsumer: a walk that stands
\* on the entry that is removed is lost when it goes on.
Unregister(c, k) ==
    /\ MayCall(c)
    /\ \E cookie \in list[k] :
          /\ list' = [list EXCEPT ![k] = @ \ {cookie}]
          /\ lost' = (lost \/ \E w \in Walks : Walked(w) = k /\ at[w] = cookie)
    /\ UNCHANGED <<locator, monitor, terminators, nextCookie, gCloseThread,
                   thread, pc, back, at>>

\* The entry a walk of list k comes to after the one at a; 0 at the end.
After(k, a) ==
    LET rest == {c \in list[k] : c > a} IN IF rest = {} THEN 0 ELSE Min(rest)

\* RaiseChange, from the preferences on the application's thread or from a
\* producer on the monitor's.
RaiseChange(c) ==
    /\ ~lost
    /\ IF c = "app" THEN pc = "run" /\ monitor /\ pc' = "raise" /\ UNCHANGED thread
                    ELSE thread = "scan" /\ thread' = "raise" /\ UNCHANGED pc
    /\ After("consumer", 0) # 0
    /\ at' = [at EXCEPT ![c] = After("consumer", 0)]
    /\ UNCHANGED <<locator, monitor, terminators, object, gCloseThread, back, lost>>

\* OnCkmChange returned.
RaiseNext(c) ==
    LET next == After("consumer", at[c]) IN
    /\ ~lost
    /\ at[c] # 0
    /\ at' = [at EXCEPT ![c] = next]
    /\ pc' = IF c = "app" /\ next = 0 THEN "run" ELSE pc
    /\ thread' = IF c = "monitor" /\ next = 0 THEN "scan" ELSE thread
    /\ UNCHANGED <<locator, monitor, terminators, object, gCloseThread, back, lost>>

-----------------------------------------------------------------------------
(* monitorFunc. *)

\* The test of the loop; then it sleeps.
Loop ==
    /\ thread = "loop"
    /\ thread' = IF gCloseThread THEN "none" ELSE "asleep"
    /\ UNCHANGED <<locator, monitor, terminators, object, gCloseThread, pc, back, walks>>

\* It wakes and looks whether there is a monitor still.
Wake ==
    /\ thread = "asleep"
    /\ thread' = IF monitor THEN "look" ELSE "none"
    /\ UNCHANGED <<locator, monitor, terminators, object, gCloseThread, pc, back, walks>>

\* gChangeMonitor->LookForChanges().
LookForChanges ==
    /\ thread = "look" /\ monitor
    /\ at' = [at EXCEPT !["scan"] = After("producer", 0)]
    /\ thread' = IF After("producer", 0) = 0 THEN "loop" ELSE "scan"
    /\ UNCHANGED <<locator, monitor, terminators, object, gCloseThread, pc, back, lost>>

\* ScanForChanges returned.
ScanNext ==
    LET next == After("producer", at["scan"]) IN
    /\ thread = "scan" /\ ~lost
    /\ at' = [at EXCEPT !["scan"] = next]
    /\ thread' = IF next = 0 THEN "loop" ELSE "scan"
    /\ UNCHANGED <<locator, monitor, terminators, object, gCloseThread, pc, back, lost>>

-----------------------------------------------------------------------------
(* TerminateVEILSystem. *)

TerminateVEILSystem ==
    /\ pc = "run"
    /\ pc' = "pop"
    /\ UNCHANGED <<locator, monitor, terminators, object, gCloseThread, thread, back, walks>>

Popped(f) ==
    /\ pc = "pop" /\ terminators # <<>> /\ Last(terminators) = f
    /\ UNCHANGED walks

\* ShutdownChangeMonitor, up to the wait.
PopShutdown ==
    /\ Popped("ShutdownChangeMonitor")
    /\ terminators' = Front(terminators)
    /\ IF monitor THEN Stop("drop")
                  ELSE UNCHANGED <<object, gCloseThread, pc, back>>
    /\ UNCHANGED <<locator, monitor, thread>>

\* gChangeMonitor.reset(): the object dies with its lists.
DropMonitor ==
    /\ pc = "drop"
    /\ monitor' = FALSE
    /\ NewObject
    /\ pc' = "pop"
    /\ UNCHANGED <<locator, terminators, gCloseThread, thread, back, walks>>

\* The classes of the system are deleted and the plug-ins terminated.
PopCloseSystem ==
    /\ Popped("CloseSystem")
    /\ terminators' = Front(terminators)
    /\ UNCHANGED <<locator, monitor, object, gCloseThread, thread, pc, back>>

\* A slip: only the functions there were at the start are run.
PopOtherOfCopy ==
    /\ Popped("Other")
    /\ \/ terminators' = Front(terminators)
          /\ UNCHANGED <<locator, monitor, object, gCloseThread>>
       \/ MonitorMade(Front(terminators), Front(terminators))
    /\ UNCHANGED <<thread, pc, back>>

\* A function of another part; it may use the monitor, which makes it anew.
PopOther ==
    /\ Popped("Other")
    /\ \/ terminators' = Front(terminators)
          /\ UNCHANGED <<locator, monitor, object, gCloseThread>>
       \/ MakeMonitor(Front(terminators))
    /\ UNCHANGED <<thread, pc, back>>

\* "if (!!gChangeMonitor) gChangeMonitor->StartChangeMonitorThread();"
NoneLeft ==
    /\ pc = "pop" /\ terminators = <<>>
    /\ pc' = "reset"
    /\ IF monitor /\ ~Active
       THEN gCloseThread' = FALSE /\ thread' = "loop"
       ELSE UNCHANGED <<gCloseThread, thread>>
    /\ UNCHANGED <<locator, monitor, terminators, object, back, walks>>

\* gChangeMonitor.reset(), whose destructor stops the thread.
ResetMonitor ==
    /\ pc = "reset"
    /\ monitor' = FALSE
    /\ IF monitor THEN Stop("clear")
                  ELSE pc' = "clear" /\ UNCHANGED <<object, gCloseThread, back>>
    /\ UNCHANGED <<locator, terminators, thread, walks>>

\* The locator is cleared and dropped.
ClearLocator ==
    /\ pc = "clear"
    /\ locator' = FALSE
    /\ pc' = "run"
    /\ UNCHANGED <<monitor, terminators, object, gCloseThread, thread, back, walks>>

-----------------------------------------------------------------------------

\* What the application chooses to do.
Ask ==
    \/ TopServiceLocator \/ GetChangeMonitor \/ AddSystemTerminationFunction
    \/ StartChangeMonitorThread \/ StopChangeMonitorThread
    \/ KillChangeMonitorThread \/ TerminateVEILSystem
    \/ \E c \in Callers : RaiseChange(c) \/ \E k \in Lists : Register(c, k) \/ Unregister(c, k)

\* What the two threads do once they run.
AppGoesOn ==
    \/ Stopped \/ PopShutdown \/ DropMonitor \/ PopCloseSystem \/ PopOther
    \/ NoneLeft \/ ResetMonitor \/ ClearLocator
    \/ RaiseNext("app")
MonitorGoesOn ==
    Loop \/ Wake \/ LookForChanges \/ ScanNext \/ RaiseNext("monitor")

Next == Ask \/ AppGoesOn \/ MonitorGoesOn

Spec == Init /\ [][Next]_vars

\* Both threads are scheduled; OnCkmChange and the functions of other parts
\* return, and so does ScanForChanges, which raises finitely many changes.
FairSpec ==
    Spec /\ WF_vars(AppGoesOn) /\ WF_vars(MonitorGoesOn) /\ SF_vars(ScanNext)

-----------------------------------------------------------------------------
(* Properties *)

\* Type invariant: a list holds cookies that were handed out, each once, and
\* the termination functions are of the three kinds.
TypeOK ==
    /\ {locator, monitor, gCloseThread, lost} \subseteq BOOLEAN
    /\ terminators \in Seq({"CloseSystem", "ShutdownChangeMonitor", "Other"})
    /\ nextCookie \in [Lists -> 0 .. MaxCookie]
    /\ \A k \in Lists : list[k] \subseteq 1 .. nextCookie[k]
    /\ thread \in {"none", "loop", "asleep", "look", "scan", "raise"}
    /\ pc \in {"run", "raise", "wait", "pop", "drop", "reset", "clear"}
    /\ back \in {"run", "drop", "clear"}
    /\ at \in [Walks -> 0 .. MaxCookie]

\* The variables have their types, and the monitor's thread never uses gChangeMonitor when it has been reset
\* between its test and its use: nobody resets it while the thread runs.
NoNullScan ==
    /\ TypeOK
    /\ thread = "look" => monitor

\* The classes of the system are deleted and its plug-ins terminated only
\* when the monitor's thread is down: ShutdownChangeMonitor was pushed later,
\* also by a termination function that made the monitor anew.
CloseWithoutMonitor ==
    pc = "pop" /\ terminators # <<>> /\ Last(terminators) = "CloseSystem"
        => locator /\ ~Active

\* After TerminateVEILSystem nothing of the system is left to run: no thread,
\* no monitor, and no function that would use the locator that is gone.
NothingOutlives ==
    pc = "run" /\ ~locator =>
        ~monitor /\ ~Active /\ ToSet(terminators) \subseteq {"Other"}

\* A walk over a list loses its entry only by a call of Unregister: stopping
\* and dropping the monitor empty the lists when nobody walks them.
OnlyUnregisterLosesAWalk ==
    lost \/ \A w \in Walks : at[w] # 0 => at[w] \in list[Walked(w)]

\* Whatever the application asks returns: a stop does not wait for good, nor
\* does the termination of the system.
CallsReturn == pc # "run" ~> (pc = "run" \/ lost)
=============================================================================
