------------------------- MODULE ChangeMonitorProofs -------------------------
(***************************************************************************)
(* Theorems about ChangeMonitor, for any number of registrations and of    *)
(* termination functions.                                                  *)
(***************************************************************************)
EXTENDS ChangeMonitor, SequenceTheorems, WellFoundedInduction, TLAPS

-----------------------------------------------------------------------------
(* The inductive invariant *)

\* ShutdownChangeMonitor has been popped and the monitor is not dropped yet.
Dropping == pc = "drop" \/ (pc = "wait" /\ back = "drop")

\* The thread runs under a monitor, the monitor under a locator, and the thread is
\* down when the monitor is dropped.
Nested ==
    /\ Active => monitor
    /\ monitor => locator
    /\ pc = "drop" => ~Active
    /\ pc = "wait" => back \in {"run", "drop"}

\* At the end of TerminateVEILSystem nothing is left.
EmptyAtEnd ==
    pc \in {"reset", "clear"} => terminators = <<>> /\ ~monitor /\ ~Active

\* Until the monitor is about to be dropped its shutdown is in the stack, after
\* every function that closes the system; both need the locator.
ShutdownIsDue ==
    /\ monitor /\ ~Dropping =>
          \E j \in DOMAIN terminators : terminators[j] = "ShutdownChangeMonitor"
    /\ \A i \in DOMAIN terminators :
          /\ terminators[i] # "Other" => locator
          /\ terminators[i] = "CloseSystem" /\ monitor /\ ~Dropping =>
                \E j \in DOMAIN terminators :
                   j > i /\ terminators[j] = "ShutdownChangeMonitor"

\* A thread that stands on an entry of a list is inside the walk.
WalksAreRun ==
    /\ at["app"] # 0 => pc = "raise"
    /\ at["scan"] # 0 => thread \in {"scan", "raise"}
    /\ at["monitor"] # 0 => thread = "raise"

IInv ==
    TypeOK /\ Nested /\ EmptyAtEnd /\ ShutdownIsDue /\ WalksAreRun
    /\ OnlyUnregisterLosesAWalk

-----------------------------------------------------------------------------
(* The stack and the lists *)

\* A set of natural numbers that is not empty has a least member.
LEMMA MinOfNats ==
    ASSUME NEW T, T \subseteq Nat, T # {}
    PROVE  Min(T) \in T
<1> DEFINE R == OpToRel(<, Nat)
<1>1. \A x, y \in Nat : x < y => <<x, y>> \in R
  BY DEF OpToRel
<1>2. IsWellFoundedOn(R, Nat)
  BY NatLessThanWellFounded
<1> HIDE DEF R
<1>3. PICK m \in T : \A k \in T : ~(<<k, m>> \in R)
  BY <1>2, WFMin
<1>4. \A k \in T : ~(k < m)
  BY <1>1, <1>3
<1>5. \A k \in T : m <= k
  BY <1>4
<1>6. QED  BY <1>5 DEF Min

\* A walk goes to an entry of the list, or to the end.
LEMMA AfterInList ==
    ASSUME TypeOK, NEW k \in Lists, NEW a
    PROVE  /\ After(k, a) \in list[k] \union {0}
           /\ After(k, a) \in 0 .. MaxCookie
<1> DEFINE rest == {c \in list[k] : c > a}
<1>1. nextCookie[k] \in 0 .. MaxCookie /\ list[k] \subseteq 1 .. nextCookie[k]
  BY DEF TypeOK
<1>2. rest \subseteq Nat /\ list[k] \subseteq 0 .. MaxCookie
  BY <1>1, ChangeMonitorAssumption
<1>3. rest # {} => Min(rest) \in rest
  BY <1>2, MinOfNats
<1>4. QED  BY <1>2, <1>3, ChangeMonitorAssumption DEF After

Functions3 == {"CloseSystem", "ShutdownChangeMonitor", "Other"}

\* A function pushed on the stack.
LEMMA Pushed ==
    ASSUME NEW s \in Seq(Functions3), NEW f \in Functions3
    PROVE  /\ Append(s, f) \in Seq(Functions3)
           /\ DOMAIN s = 1 .. Len(s) /\ Len(s) \in Nat
           /\ DOMAIN Append(s, f) = 1 .. Len(s) + 1
           /\ \A i \in 1 .. Len(s) : Append(s, f)[i] = s[i]
           /\ Append(s, f)[Len(s) + 1] = f
<1>1. QED  BY AppendProperties, LenProperties

\* The last function taken from the stack.
LEMMA Taken ==
    ASSUME NEW s \in Seq(Functions3), s # <<>>
    PROVE  /\ Front(s) \in Seq(Functions3)
           /\ Len(s) \in Nat \ {0} /\ DOMAIN s = 1 .. Len(s)
           /\ DOMAIN Front(s) = 1 .. Len(s) - 1
           /\ \A i \in DOMAIN Front(s) : Front(s)[i] = s[i]
           /\ Last(s) = s[Len(s)]
<1>1. Len(s) \in Nat \ {0} /\ DOMAIN s = 1 .. Len(s)
  BY EmptySeq, LenProperties
<1>2. \A i \in 1 .. Len(s) - 1 : s[i] \in Functions3
  BY <1>1, ElementOfSeq
<1>3. /\ Front(s) \in Seq(Functions3)
      /\ Len(Front(s)) = Len(s) - 1
      /\ \A i \in 1 .. Len(s) - 1 : Front(s)[i] = s[i]
  BY <1>1, <1>2, SubSeqProperties DEF Front
<1>4. DOMAIN Front(s) = 1 .. Len(s) - 1
  BY <1>3, LenProperties
<1>5. QED  BY <1>1, <1>3, <1>4 DEF Last

-----------------------------------------------------------------------------
(* What the shared parts of the actions do *)

\* New lists are empty and no cookie has been handed out.
LEMMA NewObjectTypes ==
    ASSUME NewObject
    PROVE  /\ nextCookie' \in [Lists -> 0 .. MaxCookie]
           /\ \A k \in Lists : list'[k] = {}
<1>1. QED  BY ChangeMonitorAssumption DEF NewObject

\* The making of the monitor leaves types and pushes its shutdown last.
LEMMA MonitorIsMade ==
    ASSUME TypeOK, NEW fs \in Seq(Functions3), MakeMonitor(fs)
    PROVE  /\ terminators' \in Seq(Functions3)
           /\ monitor' = TRUE /\ locator' = (locator \/ ~monitor)
           /\ gCloseThread' \in BOOLEAN
           /\ nextCookie' \in [Lists -> 0 .. MaxCookie]
           /\ \A k \in Lists : list'[k] \subseteq 1 .. nextCookie'[k]
           /\ monitor => terminators' = fs /\ UNCHANGED <<list, nextCookie>>
           /\ ~monitor => terminators' = Append(LocatorMade(fs), "ShutdownChangeMonitor")
           /\ LocatorMade(fs) \in Seq(Functions3)
<1>1. LocatorMade(fs) \in Seq(Functions3)
  BY Pushed DEF LocatorMade, Functions3
<1>2. Append(LocatorMade(fs), "ShutdownChangeMonitor") \in Seq(Functions3)
  BY <1>1, Pushed DEF Functions3
<1>3. CASE monitor
  BY <1>1, <1>3 DEF MakeMonitor, MonitorMade, TypeOK, object
<1>4. CASE ~monitor
  BY <1>1, <1>2, <1>4, NewObjectTypes DEF MakeMonitor, MonitorMade
<1>5. QED  BY <1>3, <1>4 DEF TypeOK

-----------------------------------------------------------------------------
(* Type correctness *)

\* The initial state has the types.
LEMMA InitTypeOK == Init => TypeOK
<1>1. <<>> \in Seq(Functions3)
  BY EmptySeq
<1>2. ASSUME Init PROVE TypeOK
  <2>1. at \in [Walks -> 0 .. MaxCookie] /\ nextCookie \in [Lists -> 0 .. MaxCookie]
    BY <1>2, ChangeMonitorAssumption DEF Init
  <2>2. \A k \in Lists : list[k] \subseteq 1 .. nextCookie[k]
    BY <1>2 DEF Init
  <2>3. terminators \in Seq(Functions3)
    BY <1>1, <1>2 DEF Init
  <2>4. QED  BY <1>2, <2>1, <2>2, <2>3 DEF Init, TypeOK, Functions3
<1>3. QED  BY <1>2

\* Every step keeps the types.
LEMMA NextTypeOK ==
    ASSUME TypeOK, [Next]_vars
    PROVE  TypeOK'
<1> USE DEF TypeOK, Functions3
<1>sq. terminators \in Seq(Functions3)
  OBVIOUS
<1>1. CASE TopServiceLocator
  <2>1. terminators' \in Seq(Functions3)
    BY <1>1, Pushed DEF TopServiceLocator, LocatorMade
  <2>2. QED  BY <1>1, <2>1 DEF TopServiceLocator, object, walks
<1>2. CASE GetChangeMonitor
  BY <1>2, <1>sq, MonitorIsMade DEF GetChangeMonitor, walks
<1>3. CASE AddSystemTerminationFunction
  <2>1. terminators' \in Seq(Functions3)
    BY <1>3, Pushed DEF AddSystemTerminationFunction
  <2>2. QED  BY <1>3, <2>1 DEF AddSystemTerminationFunction, object, walks
<1>4. CASE StartChangeMonitorThread
  BY <1>4 DEF StartChangeMonitorThread, object, walks
<1>5. CASE StopChangeMonitorThread
  BY <1>5 DEF StopChangeMonitorThread, Stop, object, walks
<1>6. CASE KillChangeMonitorThread
  BY <1>6, ChangeMonitorAssumption DEF KillChangeMonitorThread, object, Walks
<1>7. CASE TerminateVEILSystem
  BY <1>7 DEF TerminateVEILSystem, object, walks
<1>8. ASSUME NEW c \in Callers, RaiseChange(c) PROVE TypeOK'
  <2>1. After("consumer", 0) \in 0 .. MaxCookie
    BY AfterInList DEF Lists
  <2>2. at' \in [Walks -> 0 .. MaxCookie]
    BY <1>8, <2>1 DEF RaiseChange
  <2>3. QED  BY <1>8, <2>2 DEF RaiseChange, object
<1>9. ASSUME NEW c \in Callers, NEW k \in Lists, Register(c, k) PROVE TypeOK'
  <2>1. nextCookie' \in [Lists -> 0 .. MaxCookie]
    BY <1>9, ChangeMonitorAssumption DEF Register
  <2>2. ASSUME NEW j \in Lists PROVE list'[j] \subseteq 1 .. nextCookie'[j]
    <3>1. nextCookie[j] \in 0 .. MaxCookie /\ list[j] \subseteq 1 .. nextCookie[j]
      OBVIOUS
    <3>2. CASE j = k
      <4>1. list'[j] \subseteq list[j] \union {nextCookie[j] + 1}
        BY <1>9, <3>2 DEF Register
      <4>2. nextCookie'[j] = nextCookie[j] + 1
        BY <1>9, <3>2 DEF Register
      <4>3. QED  BY <3>1, <4>1, <4>2, ChangeMonitorAssumption
    <3>3. CASE j # k
      <4>1. list'[j] \subseteq list[j] /\ nextCookie'[j] = nextCookie[j]
        BY <1>9, <3>3 DEF Register
      <4>2. QED  BY <3>1, <4>1
    <3>4. QED  BY <3>2, <3>3
  <2>3. QED  BY <1>9, <2>1, <2>2 DEF Register, walks
<1>10. ASSUME NEW c \in Callers, NEW k \in Lists, Unregister(c, k) PROVE TypeOK'
  <2>1. ASSUME NEW j \in Lists PROVE list'[j] \subseteq 1 .. nextCookie'[j]
    <3>1. list'[j] \subseteq list[j] /\ nextCookie' = nextCookie
      BY <1>10 DEF Unregister
    <3>2. QED  BY <3>1
  <2>2. lost' \in BOOLEAN
    BY <1>10 DEF Unregister
  <2>3. QED  BY <1>10, <2>1, <2>2 DEF Unregister
<1>11. CASE Stopped
  <2>1. \A k \in Lists : list'[k] = {}
    BY <1>11 DEF Stopped
  <2>2. QED  BY <1>11, <2>1 DEF Stopped, walks
<1>12. CASE PopShutdown
  <2>1. terminators' \in Seq(Functions3)
    BY <1>12, <1>sq, Taken DEF PopShutdown, Popped
  <2>2. QED  BY <1>12, <2>1 DEF PopShutdown, Popped, Stop, object, walks
<1>13. CASE DropMonitor
  BY <1>13, NewObjectTypes DEF DropMonitor, walks
<1>14. CASE PopCloseSystem
  <2>1. terminators' \in Seq(Functions3)
    BY <1>14, <1>sq, Taken DEF PopCloseSystem, Popped
  <2>2. QED  BY <1>14, <2>1 DEF PopCloseSystem, Popped, object, walks
<1>15. CASE PopOther
  <2>1. Front(terminators) \in Seq(Functions3)
    BY <1>15, <1>sq, Taken DEF PopOther, Popped
  <2>2. CASE MakeMonitor(Front(terminators))
    BY <1>15, <2>1, <2>2, MonitorIsMade DEF PopOther, Popped, walks
  <2>3. CASE ~MakeMonitor(Front(terminators))
    BY <1>15, <2>1, <2>3 DEF PopOther, Popped, object, walks
  <2>4. QED  BY <2>2, <2>3
<1>16. CASE NoneLeft
  BY <1>16 DEF NoneLeft, object, walks
<1>17. CASE ResetMonitor
  BY <1>17 DEF ResetMonitor, Stop, object, walks
<1>18. CASE ClearLocator
  BY <1>18 DEF ClearLocator, object, walks
<1>19. ASSUME NEW c \in Callers, RaiseNext(c) PROVE TypeOK'
  <2>1. After("consumer", at[c]) \in 0 .. MaxCookie
    BY AfterInList DEF Lists
  <2>2. at' \in [Walks -> 0 .. MaxCookie]
    BY <1>19, <2>1 DEF RaiseNext
  <2>3. QED  BY <1>19, <2>2 DEF RaiseNext, object
<1>20. CASE Loop \/ Wake
  BY <1>20 DEF Loop, Wake, object, walks
<1>21. CASE LookForChanges \/ ScanNext
  <2>1. /\ After("producer", 0) \in 0 .. MaxCookie
        /\ After("producer", at["scan"]) \in 0 .. MaxCookie
    BY AfterInList DEF Lists
  <2>2. at' \in [Walks -> 0 .. MaxCookie]
    BY <1>21, <2>1 DEF LookForChanges, ScanNext
  <2>3. QED  BY <1>21, <2>2 DEF LookForChanges, ScanNext, object
<1>22. CASE UNCHANGED vars
  BY <1>22 DEF vars, object, walks
<1>23. QED
  BY <1>1, <1>2, <1>3, <1>4, <1>5, <1>6, <1>7, <1>8, <1>9, <1>10, <1>11, <1>12, <1>13,
     <1>14, <1>15, <1>16, <1>17, <1>18, <1>19, <1>20, <1>21, <1>22
     DEF Next, Ask, AppGoesOn, MonitorGoesOn, Callers

-----------------------------------------------------------------------------
(* The monitor inside the locator, the thread inside the monitor *)

\* When no function is left to run at the end there is no monitor.
LEMMA NoneLeftNoMonitor ==
    ASSUME Nested, ShutdownIsDue, terminators = <<>>, pc = "pop"
    PROVE  ~monitor /\ ~Active
<1>1. DOMAIN terminators = {}
  BY EmptySeq
<1>2. ~monitor
  BY <1>1 DEF ShutdownIsDue, Dropping
<1>3. QED  BY <1>2 DEF Nested

\* Every step keeps the monitor under its locator and the thread under its monitor.
LEMMA NextNested ==
    ASSUME TypeOK, Nested, EmptyAtEnd, ShutdownIsDue, WalksAreRun, [Next]_vars
    PROVE  Nested' /\ EmptyAtEnd'
<1> USE DEF Nested, EmptyAtEnd, Active
<1>1. CASE TopServiceLocator
  BY <1>1 DEF TopServiceLocator
<1>2. CASE GetChangeMonitor
  BY <1>2 DEF GetChangeMonitor, MakeMonitor, MonitorMade
<1>3. CASE AddSystemTerminationFunction
  BY <1>3 DEF AddSystemTerminationFunction
<1>4. CASE StartChangeMonitorThread
  BY <1>4 DEF StartChangeMonitorThread
<1>5. CASE StopChangeMonitorThread
  BY <1>5 DEF StopChangeMonitorThread, Stop
<1>6. CASE KillChangeMonitorThread
  BY <1>6 DEF KillChangeMonitorThread
<1>7. CASE TerminateVEILSystem
  BY <1>7 DEF TerminateVEILSystem
<1>8. ASSUME NEW c \in Callers, RaiseChange(c) PROVE Nested' /\ EmptyAtEnd'
  BY <1>8 DEF RaiseChange
<1>9. ASSUME NEW c \in Callers, NEW k \in Lists, Register(c, k) \/ Unregister(c, k)
      PROVE  Nested' /\ EmptyAtEnd'
  BY <1>9 DEF Register, Unregister
<1>10. CASE Stopped
  BY <1>10 DEF Stopped
<1>11. CASE PopShutdown
  BY <1>11 DEF PopShutdown, Popped, Stop
<1>12. CASE DropMonitor
  BY <1>12 DEF DropMonitor
<1>13. CASE PopCloseSystem
  BY <1>13 DEF PopCloseSystem, Popped
<1>14. CASE PopOther
  <2>1. pc = "pop" /\ UNCHANGED <<pc, back, thread>> /\ terminators # <<>>
    BY <1>14 DEF PopOther, Popped
  <2>2. (monitor => monitor') /\ (monitor' => locator')
    <3>1. CASE MakeMonitor(Front(terminators))
      BY <3>1 DEF MakeMonitor, MonitorMade
    <3>2. CASE UNCHANGED <<locator, monitor>>
      BY <3>2
    <3>3. QED  BY <1>14, <3>1, <3>2 DEF PopOther
  <2>3. QED  BY <2>1, <2>2
<1>15. CASE NoneLeft
  BY <1>15, NoneLeftNoMonitor DEF NoneLeft
<1>16. CASE ResetMonitor
  BY <1>16 DEF ResetMonitor
<1>17. CASE ClearLocator
  BY <1>17 DEF ClearLocator
<1>18. ASSUME NEW c \in Callers, RaiseNext(c) PROVE Nested' /\ EmptyAtEnd'
  BY <1>18 DEF RaiseNext, WalksAreRun, Callers
<1>19. CASE MonitorGoesOn
  <2>1. CASE Loop \/ Wake \/ LookForChanges \/ ScanNext
    BY <2>1 DEF Loop, Wake, LookForChanges, ScanNext
  <2>2. QED  BY <1>18, <1>19, <2>1 DEF MonitorGoesOn, Callers
<1>20. CASE UNCHANGED vars
  BY <1>20 DEF vars
<1>21. QED
  BY <1>1, <1>2, <1>3, <1>4, <1>5, <1>6, <1>7, <1>8, <1>9, <1>10, <1>11, <1>12, <1>13,
     <1>14, <1>15, <1>16, <1>17, <1>18, <1>19, <1>20
     DEF Next, Ask, AppGoesOn, Callers

-----------------------------------------------------------------------------
(* The stack of termination functions *)

\* While the stack stays, its order matters no more than before.
LEMMA StackStays ==
    ASSUME ShutdownIsDue, UNCHANGED terminators, locator => locator',
           monitor' /\ ~Dropping' => monitor /\ ~Dropping
    PROVE  ShutdownIsDue'
<1>1. QED  BY DEF ShutdownIsDue

\* A function that is not the monitor's shutdown is taken from the stack.
LEMMA StackPopped ==
    ASSUME TypeOK, ShutdownIsDue, terminators # <<>>,
           Last(terminators) # "ShutdownChangeMonitor",
           terminators' = Front(terminators), UNCHANGED <<locator, monitor>>,
           UNCHANGED Dropping
    PROVE  ShutdownIsDue'
<1> DEFINE n == Len(terminators)
<1>1. /\ n \in Nat \ {0} /\ DOMAIN terminators = 1 .. n
      /\ DOMAIN terminators' = 1 .. n - 1
      /\ \A i \in 1 .. n - 1 : terminators'[i] = terminators[i]
      /\ terminators[n] # "ShutdownChangeMonitor"
  BY Taken DEF TypeOK, Functions3
<1>2. \A j \in DOMAIN terminators : terminators[j] = "ShutdownChangeMonitor" =>
         j \in DOMAIN terminators' /\ terminators'[j] = "ShutdownChangeMonitor"
  BY <1>1
<1>3. \A i \in DOMAIN terminators' : i \in DOMAIN terminators /\ terminators'[i] = terminators[i]
  BY <1>1
<1>4. QED  BY <1>2, <1>3 DEF ShutdownIsDue

\* The shutdown of a new monitor is the last to be pushed.
LEMMA StackMade ==
    ASSUME NEW s \in Seq(Functions3), locator',
           terminators' = Append(s, "ShutdownChangeMonitor")
    PROVE  ShutdownIsDue'
<1>1. /\ Len(s) \in Nat
      /\ DOMAIN terminators' = 1 .. Len(s) + 1
      /\ terminators'[Len(s) + 1] = "ShutdownChangeMonitor"
  BY Pushed DEF Functions3
<1>2. Len(s) + 1 \in DOMAIN terminators'
  BY <1>1
<1>3. \A i \in DOMAIN terminators' :
         terminators'[i] = "CloseSystem" => Len(s) + 1 > i
  BY <1>1
<1>4. QED  BY <1>1, <1>2, <1>3 DEF ShutdownIsDue

\* Another function is pushed.
LEMMA StackPushed ==
    ASSUME TypeOK, ShutdownIsDue, NEW f \in {"CloseSystem", "Other"},
           terminators' = Append(terminators, f), locator => locator',
           UNCHANGED <<monitor, Dropping>>,
           f = "CloseSystem" => locator' /\ ~monitor
    PROVE  ShutdownIsDue'
<1> DEFINE n == Len(terminators)
<1>1. /\ DOMAIN terminators = 1 .. n /\ n \in Nat
      /\ DOMAIN terminators' = 1 .. n + 1
      /\ \A i \in 1 .. n : terminators'[i] = terminators[i]
      /\ terminators'[n + 1] = f
  BY Pushed DEF TypeOK, Functions3
<1>2. \A j \in DOMAIN terminators : j \in DOMAIN terminators' /\ terminators'[j] = terminators[j]
  BY <1>1
<1>3. \A i \in DOMAIN terminators' : i \in DOMAIN terminators \/ terminators'[i] = f
  BY <1>1
<1>4. QED  BY <1>2, <1>3 DEF ShutdownIsDue

\* Every step keeps the monitor's shutdown in the stack, above the functions that
\* close the system.
LEMMA NextShutdown ==
    ASSUME TypeOK, Nested, EmptyAtEnd, ShutdownIsDue, WalksAreRun, [Next]_vars
    PROVE  ShutdownIsDue'
<1>1. CASE TopServiceLocator
  <2>1. /\ terminators' = Append(terminators, "CloseSystem")
        /\ locator' /\ ~monitor /\ UNCHANGED <<monitor, Dropping>>
    BY <1>1 DEF TopServiceLocator, LocatorMade, Nested, Dropping
  <2>2. QED  BY <2>1, StackPushed
<1>2. CASE GetChangeMonitor
  <2>1. /\ LocatorMade(terminators) \in Seq(Functions3)
        /\ terminators' = Append(LocatorMade(terminators), "ShutdownChangeMonitor")
        /\ locator'
    BY <1>2, MonitorIsMade DEF GetChangeMonitor, TypeOK, Functions3
  <2>2. QED  BY <2>1, StackMade
<1>3. CASE AddSystemTerminationFunction
  BY <1>3, StackPushed DEF AddSystemTerminationFunction, Dropping
<1>4. CASE \/ StartChangeMonitorThread \/ StopChangeMonitorThread
           \/ KillChangeMonitorThread \/ TerminateVEILSystem
  BY <1>4, StackStays
     DEF StartChangeMonitorThread, StopChangeMonitorThread, Stop,
         KillChangeMonitorThread, TerminateVEILSystem, Dropping
<1>5. ASSUME NEW c \in Callers, RaiseChange(c) \/ RaiseNext(c) PROVE ShutdownIsDue'
  BY <1>5, StackStays DEF RaiseChange, RaiseNext, Dropping, WalksAreRun
<1>6. ASSUME NEW c \in Callers, NEW k \in Lists, Register(c, k) \/ Unregister(c, k)
      PROVE  ShutdownIsDue'
  BY <1>6, StackStays DEF Register, Unregister, Dropping
<1>7. CASE Stopped
  BY <1>7, StackStays DEF Stopped, Dropping, Nested
<1>8. CASE PopShutdown
  <2>1. monitor' => Dropping'
    BY <1>8 DEF PopShutdown, Stop, Dropping
  <2>2. /\ DOMAIN terminators' \subseteq DOMAIN terminators
        /\ \A i \in DOMAIN terminators' : terminators'[i] = terminators[i]
        /\ UNCHANGED locator
    BY <1>8, Taken DEF PopShutdown, Popped, TypeOK, Functions3
  <2>3. QED  BY <2>1, <2>2 DEF ShutdownIsDue
<1>9. CASE DropMonitor
  BY <1>9, StackStays DEF DropMonitor
<1>10. CASE PopCloseSystem
  BY <1>10, StackPopped DEF PopCloseSystem, Popped, Dropping
<1>11. CASE PopOther
  <2>1. terminators # <<>> /\ Last(terminators) = "Other" /\ UNCHANGED Dropping
    BY <1>11 DEF PopOther, Popped, Dropping
  <2>2. CASE terminators' = Front(terminators) /\ UNCHANGED <<locator, monitor>>
    BY <2>1, <2>2, StackPopped
  <2>3. CASE MakeMonitor(Front(terminators))
    <3>1. Front(terminators) \in Seq(Functions3)
      BY <2>1, Taken DEF TypeOK, Functions3
    <3>2. CASE monitor
      BY <2>1, <2>3, <3>2, StackPopped DEF MakeMonitor, MonitorMade, Nested, TypeOK
    <3>3. CASE ~monitor
      BY <2>3, <3>1, <3>3, MonitorIsMade, StackMade
    <3>4. QED  BY <3>2, <3>3
  <2>4. QED  BY <1>11, <2>2, <2>3 DEF PopOther
<1>12. CASE NoneLeft
  BY <1>12, StackStays DEF NoneLeft, Dropping
<1>13. CASE ResetMonitor
  BY <1>13, StackStays DEF ResetMonitor
<1>14. CASE ClearLocator
  <2>1. DOMAIN terminators' = {} /\ ~monitor'
    BY <1>14, EmptySeq DEF ClearLocator, EmptyAtEnd
  <2>2. QED  BY <2>1 DEF ShutdownIsDue
<1>15. CASE Loop \/ Wake \/ LookForChanges \/ ScanNext
  BY <1>15, StackStays DEF Loop, Wake, LookForChanges, ScanNext, Dropping
<1>16. CASE UNCHANGED vars
  BY <1>16, StackStays DEF vars, Dropping
<1>17. QED
  BY <1>1, <1>2, <1>3, <1>4, <1>5, <1>6, <1>7, <1>8, <1>9, <1>10, <1>11, <1>12, <1>13,
     <1>14, <1>15, <1>16
     DEF Next, Ask, AppGoesOn, MonitorGoesOn, Callers

-----------------------------------------------------------------------------
(* The walks over the lists *)

\* Every step that leaves the walk over a list sets its cookie back.
LEMMA NextWalksAreRun ==
    ASSUME TypeOK, Nested, WalksAreRun, [Next]_vars
    PROVE  WalksAreRun'
<1> USE DEF WalksAreRun
<1>1. CASE \/ TopServiceLocator \/ GetChangeMonitor \/ AddSystemTerminationFunction
           \/ StartChangeMonitorThread \/ StopChangeMonitorThread \/ TerminateVEILSystem
  BY <1>1 DEF TopServiceLocator, GetChangeMonitor, AddSystemTerminationFunction,
     StartChangeMonitorThread, StopChangeMonitorThread, Stop, TerminateVEILSystem, walks,
     Active
<1>2. CASE KillChangeMonitorThread
  BY <1>2 DEF KillChangeMonitorThread, TypeOK, Walks
<1>3. ASSUME NEW c \in Callers, RaiseChange(c) PROVE WalksAreRun'
  <2>1. CASE c = "app"
    BY <1>3, <2>1 DEF RaiseChange, TypeOK, Walks
  <2>2. CASE c = "monitor"
    BY <1>3, <2>2 DEF RaiseChange, TypeOK, Walks
  <2>3. QED  BY <2>1, <2>2 DEF Callers
<1>4. ASSUME NEW c \in Callers, RaiseNext(c) PROVE WalksAreRun'
  <2>1. CASE c = "app"
    BY <1>4, <2>1 DEF RaiseNext, TypeOK, Walks
  <2>2. CASE c = "monitor"
    BY <1>4, <2>2 DEF RaiseNext, TypeOK, Walks
  <2>3. QED  BY <2>1, <2>2 DEF Callers
<1>5. ASSUME NEW c \in Callers, NEW k \in Lists, Register(c, k) \/ Unregister(c, k)
      PROVE  WalksAreRun'
  BY <1>5 DEF Register, Unregister, walks
<1>6. CASE Stopped \/ PopShutdown \/ DropMonitor \/ PopCloseSystem \/ PopOther
  BY <1>6 DEF Stopped, PopShutdown, Popped, Stop, DropMonitor, PopCloseSystem, PopOther,
     walks
<1>7. CASE NoneLeft \/ ResetMonitor \/ ClearLocator
  BY <1>7 DEF NoneLeft, ResetMonitor, Stop, ClearLocator, walks, Active
<1>8. CASE Loop \/ Wake
  BY <1>8 DEF Loop, Wake, walks
<1>9. CASE LookForChanges
  BY <1>9 DEF LookForChanges, TypeOK, Walks
<1>10. CASE ScanNext
  BY <1>10 DEF ScanNext, TypeOK, Walks
<1>11. CASE UNCHANGED vars
  BY <1>11 DEF vars, walks
<1>12. QED
  BY <1>1, <1>2, <1>3, <1>4, <1>5, <1>6, <1>7, <1>8, <1>9, <1>10, <1>11
     DEF Next, Ask, AppGoesOn, MonitorGoesOn, Callers

\* When no walk moves and no list loses an entry, no walk is lost.
LEMMA WalksStay ==
    ASSUME OnlyUnregisterLosesAWalk, UNCHANGED walks,
           \A k \in Lists : list[k] \subseteq list'[k]
    PROVE  OnlyUnregisterLosesAWalk'
<1>1. \A w \in Walks : Walked(w) \in Lists
  BY DEF Walked, Lists
<1>2. QED  BY <1>1 DEF OnlyUnregisterLosesAWalk, walks

\* When nobody walks, the lists may be emptied.
LEMMA NobodyWalks ==
    ASSUME WalksAreRun, pc # "raise", ~Active, UNCHANGED walks
    PROVE  OnlyUnregisterLosesAWalk'
<1>1. \A w \in Walks : at[w] = 0
  BY DEF WalksAreRun, Active, Walks
<1>2. QED  BY <1>1 DEF OnlyUnregisterLosesAWalk, walks

\* Every step but Unregister keeps each walk on an entry of its list.
LEMMA NextWalks ==
    ASSUME TypeOK, Nested, WalksAreRun, OnlyUnregisterLosesAWalk, [Next]_vars
    PROVE  OnlyUnregisterLosesAWalk'
<1>1. CASE \/ TopServiceLocator \/ AddSystemTerminationFunction
           \/ StartChangeMonitorThread \/ StopChangeMonitorThread \/ TerminateVEILSystem
  <2>1. UNCHANGED walks /\ UNCHANGED list
    BY <1>1 DEF TopServiceLocator, AddSystemTerminationFunction,
       StartChangeMonitorThread, StopChangeMonitorThread, Stop, TerminateVEILSystem, object
  <2>2. QED  BY <2>1, WalksStay
<1>2. CASE GetChangeMonitor
  BY <1>2, NobodyWalks DEF GetChangeMonitor, Nested
<1>3. CASE KillChangeMonitorThread
  <2>1. /\ at' \in [Walks -> 0 .. MaxCookie] /\ UNCHANGED <<list, lost>>
        /\ \A w \in Walks : at'[w] = 0 \/ at'[w] = at[w]
    BY <1>3, ChangeMonitorAssumption DEF KillChangeMonitorThread, TypeOK, Walks, object
  <2>2. QED  BY <2>1 DEF OnlyUnregisterLosesAWalk
<1>4. ASSUME NEW c \in Callers, RaiseChange(c) \/ RaiseNext(c)
      PROVE  OnlyUnregisterLosesAWalk'
  <2>1. c \in Walks /\ Walked(c) = "consumer" /\ "consumer" \in Lists
    BY DEF Callers, Walks, Walked, Lists
  <2>2. PICK a \in {0, at[c]} : at' = [at EXCEPT ![c] = After("consumer", a)]
    BY <1>4 DEF RaiseChange, RaiseNext
  <2>3. at'[c] \in list["consumer"] \union {0}
    BY <2>1, <2>2, AfterInList DEF TypeOK
  <2>4. \A w \in Walks : w # c => at'[w] = at[w]
    BY <2>2 DEF TypeOK
  <2>5. UNCHANGED <<list, lost>>
    BY <1>4 DEF RaiseChange, RaiseNext, object
  <2>6. QED  BY <2>1, <2>3, <2>4, <2>5 DEF OnlyUnregisterLosesAWalk
<1>5. ASSUME NEW c \in Callers, NEW k \in Lists, Register(c, k)
      PROVE  OnlyUnregisterLosesAWalk'
  <2>1. \A j \in Lists : list[j] \subseteq list'[j]
    BY <1>5 DEF Register
  <2>2. QED  BY <1>5, <2>1, WalksStay DEF Register
<1>6. ASSUME NEW c \in Callers, NEW k \in Lists, Unregister(c, k)
      PROVE  OnlyUnregisterLosesAWalk'
  <2>1. PICK cookie \in list[k] :
           /\ list' = [list EXCEPT ![k] = @ \ {cookie}]
           /\ lost' = (lost \/ \E w \in Walks : Walked(w) = k /\ at[w] = cookie)
    BY <1>6 DEF Unregister
  <2>2. UNCHANGED at
    BY <1>6 DEF Unregister
  <2>3. SUFFICES ASSUME ~lost', NEW w \in Walks, at[w] # 0
                 PROVE  at[w] \in list'[Walked(w)]
    BY <2>2 DEF OnlyUnregisterLosesAWalk
  <2>4. ~lost /\ ~(Walked(w) = k /\ at[w] = cookie)
    BY <2>1, <2>3
  <2>5. at[w] \in list[Walked(w)]
    BY <2>3, <2>4 DEF OnlyUnregisterLosesAWalk
  <2>6. QED  BY <2>1, <2>4, <2>5
<1>7. CASE Stopped
  BY <1>7, NobodyWalks DEF Stopped
<1>8. CASE DropMonitor
  BY <1>8, NobodyWalks DEF DropMonitor, Nested
<1>9. CASE PopShutdown \/ PopCloseSystem
  BY <1>9, WalksStay DEF PopShutdown, PopCloseSystem, Popped, Stop, object
<1>10. CASE PopOther
  <2>1. pc = "pop" /\ UNCHANGED walks
    BY <1>10 DEF PopOther, Popped
  <2>2. CASE monitor
    BY <1>10, <2>1, <2>2, WalksStay DEF PopOther, MakeMonitor, MonitorMade, object
  <2>3. CASE ~monitor
    BY <2>1, <2>3, NobodyWalks DEF Nested
  <2>4. QED  BY <2>2, <2>3
<1>11. CASE NoneLeft \/ ResetMonitor \/ ClearLocator
  BY <1>11, WalksStay DEF NoneLeft, ResetMonitor, Stop, ClearLocator, object
<1>12. CASE Loop \/ Wake
  BY <1>12, WalksStay DEF Loop, Wake, object
<1>13. CASE LookForChanges \/ ScanNext
  <2>1. "scan" \in Walks /\ Walked("scan") = "producer" /\ "producer" \in Lists
    BY DEF Walks, Walked, Lists
  <2>2. PICK a \in {0, at["scan"]} : at' = [at EXCEPT !["scan"] = After("producer", a)]
    BY <1>13 DEF LookForChanges, ScanNext
  <2>3. at'["scan"] \in list["producer"] \union {0}
    BY <2>1, <2>2, AfterInList DEF TypeOK
  <2>4. \A w \in Walks : w # "scan" => at'[w] = at[w]
    BY <2>2 DEF TypeOK
  <2>5. UNCHANGED <<list, lost>>
    BY <1>13 DEF LookForChanges, ScanNext, object
  <2>6. QED  BY <2>1, <2>3, <2>4, <2>5 DEF OnlyUnregisterLosesAWalk
<1>14. CASE UNCHANGED vars
  BY <1>14, WalksStay DEF vars, walks
<1>15. QED
  BY <1>1, <1>2, <1>3, <1>4, <1>5, <1>6, <1>7, <1>8, <1>9, <1>10, <1>11, <1>12, <1>13,
     <1>14
     DEF Next, Ask, AppGoesOn, MonitorGoesOn, Callers

-----------------------------------------------------------------------------
(* Theorems *)

\* In the initial state nothing is made and nobody walks.
LEMMA InitIInv == Init => IInv
<1> SUFFICES ASSUME Init PROVE IInv
  OBVIOUS
<1>1. TypeOK
  BY InitTypeOK
<1>2. DOMAIN terminators = {}
  BY EmptySeq DEF Init
<1>3. Nested /\ EmptyAtEnd /\ ShutdownIsDue
  BY <1>2 DEF Init, Nested, EmptyAtEnd, ShutdownIsDue, Active
<1>4. WalksAreRun /\ OnlyUnregisterLosesAWalk
  BY DEF Init, WalksAreRun, OnlyUnregisterLosesAWalk, Walks
<1>5. QED  BY <1>1, <1>3, <1>4 DEF IInv

\* The inductive invariant holds in every reachable state: the thread lives inside the
\* monitor and the monitor inside the locator, and the stack of termination functions
\* takes them down in the reverse order.
THEOREM Invariant == Spec => []IInv
<1>1. IInv /\ [Next]_vars => IInv'
  BY NextTypeOK, NextNested, NextShutdown, NextWalksAreRun, NextWalks DEF IInv
<1>2. QED  BY InitIInv, <1>1, PTL DEF Spec

\* monitorFunc's LookForChanges finds gChangeMonitor set, whatever the application asks
\* between the thread's test and its use.
THEOREM NullIsNeverScanned == Spec => []NoNullScan
<1>1. IInv => NoNullScan
  BY DEF IInv, Nested, NoNullScan, Active
<1>2. QED  BY <1>1, Invariant, PTL

\* When TerminateVEILSystem comes to the function that deletes the classes and
\* terminates the plug-ins, the thread of the change monitor is down, also when other
\* termination functions made the monitor anew on the way.
THEOREM ClosesWithoutMonitor == Spec => []CloseWithoutMonitor
<1>1. IInv => CloseWithoutMonitor
  <2> SUFFICES ASSUME IInv, pc = "pop", terminators # <<>>, Last(terminators) = "CloseSystem"
               PROVE  locator /\ ~Active
    BY DEF CloseWithoutMonitor
  <2> DEFINE n == Len(terminators)
  <2>1. n \in Nat \ {0} /\ DOMAIN terminators = 1 .. n /\ terminators[n] = "CloseSystem"
    BY Taken DEF IInv, TypeOK, Functions3
  <2>2. n \in DOMAIN terminators /\ \A j \in DOMAIN terminators : ~(j > n)
    BY <2>1
  <2>3. locator /\ ~monitor
    BY <2>1, <2>2 DEF IInv, ShutdownIsDue, Dropping
  <2>4. QED  BY <2>3 DEF IInv, Nested
<1>2. QED  BY <1>1, Invariant, PTL

\* Whenever the application runs without a locator, as it does after
\* TerminateVEILSystem, there is no monitor, no thread of it, and no termination
\* function that would use the locator that is gone.
THEOREM NothingIsLeftOver == Spec => []NothingOutlives
<1>1. IInv => NothingOutlives
  <2> SUFFICES ASSUME IInv, ~locator
               PROVE  ~monitor /\ ~Active /\ ToSet(terminators) \subseteq {"Other"}
    BY DEF NothingOutlives
  <2>1. ~monitor /\ ~Active
    BY DEF IInv, Nested
  <2>2. \A i \in DOMAIN terminators : terminators[i] = "Other"
    BY DEF IInv, ShutdownIsDue
  <2>3. QED  BY <2>1, <2>2 DEF ToSet
<1>2. QED  BY <1>1, Invariant, PTL

\* No walk over the producers or the consumers loses the entry it stands on by a stop,
\* a kill, a new start or the end of the system: only Unregister does that.
THEOREM WalksAreSafe == Spec => []OnlyUnregisterLosesAWalk
<1>1. IInv => OnlyUnregisterLosesAWalk
  BY DEF IInv
<1>2. QED  BY <1>1, Invariant, PTL
=============================================================================
