---------------------------- MODULE KuredProofs ----------------------------
(***************************************************************************)
(* The daemon is a client of the lock, for every value of the constants,   *)
(* so that what LockClientsProofs proves of the lock's clients holds of    *)
(* it.                                                                     *)
(*                                                                         *)
(* The argument: the daemon's state stays well formed (DaemonTypes); each  *)
(* of its steps that calls the lock is the step of LockClients of the same *)
(* name; each other one leaves the lock alone and at most forgets that it  *)
(* holds it, or starts to take it or to give it back.  Then what is proved *)
(* of LockClients is used through the instance Lock.                       *)
(***************************************************************************)
EXTENDS Kured, TLAPS

-----------------------------------------------------------------------------
(* The daemon's own state.                                                 *)

\* A Node object stays one whatever field kured writes, and can be copied.
LEMMA NodeObjects ==
    ASSUME NEW node \in NodeObject
    PROVE  /\ node.unschedulable \in BOOLEAN
           /\ [unschedulable |-> node.unschedulable, inProgress |-> node.inProgress] \in NodeCopy
           /\ \A value \in BOOLEAN :
                 /\ [node EXCEPT !.unschedulable = value] \in NodeObject
                 /\ [node EXCEPT !.inProgress = value] \in NodeObject
                 /\ [node EXCEPT !.taint = value] \in NodeObject
           /\ \A value \in {"none", "pre", "post"} : [node EXCEPT !.label = value] \in NodeObject
  BY DEF NodeObject, NodeCopy

\* What a daemon remembers of a Node object.
LEMMA NodeCopies ==
    /\ NoCopy \in NodeCopy
    /\ \A node \in NodeCopy : 
          /\ node.unschedulable \in BOOLEAN
          /\ [node EXCEPT !.unschedulable = TRUE] \in NodeCopy
  BY DEF NodeCopy, NoCopy

\* A machine stays one when its sentinel changes or it begins to stop.
LEMMA Machines ==
    /\ \A r, s \in BOOLEAN : [required |-> r, stopping |-> s] \in Machine
    /\ \A m \in Machine :
          /\ m.required \in BOOLEAN
          /\ [m EXCEPT !.stopping = TRUE] \in Machine
          /\ [m EXCEPT !.required = ~m.required] \in Machine
  BY DEF Machine

\* The daemon starts well formed.
LEMMA InitTypeOK == Init => DaemonTypeOK
<1> SUFFICES ASSUME Init PROVE DaemonTypeOK
  OBVIOUS
<1>1. pc \in [Nodes -> Steps]
  BY DEF Init, Steps, StartupSteps
<1>2. copy \in [Nodes -> NodeCopy]
  BY NodeCopies DEF Init
<1>3. adminCordon \in [Nodes -> BOOLEAN]
  BY DEF Init
<1>4. kube \in [Nodes -> NodeObject]
  BY <1>3 DEF Init, NodeObject
<1>5. host \in [Nodes -> Machine]
  <2>1. PICK r \in [Nodes -> BOOLEAN] :
          host = [n \in Nodes |-> [required |-> r[n], stopping |-> FALSE]]
    BY DEF Init
  <2>2. \A n \in Nodes : [required |-> r[n], stopping |-> FALSE] \in Machine
    BY Machines
  <2> QED BY <2>1, <2>2
<1> QED BY <1>1, <1>2, <1>3, <1>4, <1>5 DEF DaemonTypeOK

\* The writes that the steps are made of keep the Node objects.
LEMMA Writes ==
    ASSUME DaemonTypeOK, NEW n \in Nodes, NEW value \in BOOLEAN
    PROVE  /\ SetCordon(n, value) => kube' \in [Nodes -> NodeObject]
           /\ SetInProgress(n, value) => kube' \in [Nodes -> NodeObject]
           /\ SetTaint(n, value) => kube' \in [Nodes -> NodeObject]
           /\ \A label \in {"none", "pre", "post"} :
                 UpdateLabels(n, label) => kube' \in [Nodes -> NodeObject]
           /\ UNCHANGED kube => kube' \in [Nodes -> NodeObject]
<1>1. (value /\ UseTaint) \in BOOLEAN
  OBVIOUS
<1>2. kube \in [Nodes -> NodeObject] /\ kube[n] \in NodeObject
  BY DEF DaemonTypeOK
<1>3. SetCordon(n, value) => kube' \in [Nodes -> NodeObject]
  BY <1>2, NodeObjects DEF SetCordon
<1>4. SetInProgress(n, value) => kube' \in [Nodes -> NodeObject]
  BY <1>2, NodeObjects DEF SetInProgress
<1>5. SetTaint(n, value) => kube' \in [Nodes -> NodeObject]
  <2>1. ASSUME NEW v \in BOOLEAN, kube' = [kube EXCEPT ![n].taint = v]
        PROVE  kube' \in [Nodes -> NodeObject]
    BY <1>2, <2>1, NodeObjects
  <2>2. SetTaint(n, value) => \E v \in BOOLEAN : kube' = [kube EXCEPT ![n].taint = v]
    BY <1>1 DEF SetTaint
  <2> QED BY <2>1, <2>2
<1>6. \A label \in {"none", "pre", "post"} :
                 UpdateLabels(n, label) => kube' \in [Nodes -> NodeObject]
  BY <1>2, NodeObjects DEF UpdateLabels
<1> QED BY <1>2, <1>3, <1>4, <1>5, <1>6

\* A read of the Node object gives a copy.
LEMMA ReadCopies ==
    ASSUME DaemonTypeOK, NEW n \in Nodes, ReadNode(n)
    PROVE  copy' \in [Nodes -> NodeCopy]
  BY NodeObjects DEF ReadNode, DaemonTypeOK

\* The three actions that write a machine leave one.
LEMMA HostWrites ==
    ASSUME DaemonTypeOK, NEW n \in Nodes,
           Reboot(n) \/ MachineRestart(n) \/ SentinelChanges(n)
    PROVE  host' \in [Nodes -> Machine]
<1>1. CASE MachineRestart(n)
  <2>1. host[n].required \in BOOLEAN
    BY Machines DEF DaemonTypeOK
  <2>2. PICK r \in BOOLEAN : host' = [host EXCEPT ![n] = [required |-> r, stopping |-> FALSE]]
    BY <1>1, <2>1 DEF MachineRestart
  <2>3. [required |-> r, stopping |-> FALSE] \in Machine
    BY Machines
  <2> QED BY <2>2, <2>3 DEF DaemonTypeOK
<1>2. CASE SentinelChanges(n)
  BY <1>2, Machines DEF SentinelChanges, DaemonTypeOK
<1>3. CASE Reboot(n)
  BY <1>3, Machines DEF Reboot, DaemonTypeOK
<1> QED BY <1>1, <1>2, <1>3

\* What a step may do to the state of its node.
CopyStep(n) ==
    \/ UNCHANGED copy
    \/ copy' = [copy EXCEPT ![n] = NoCopy]
    \/ copy' = [copy EXCEPT ![n].unschedulable = TRUE]
    \/ ReadNode(n)

KubeStep(n) ==
    \/ UNCHANGED kube
    \/ \E value \in BOOLEAN :
          SetCordon(n, value) \/ SetInProgress(n, value) \/ SetTaint(n, value)
    \/ \E label \in {"pre", "post"} : UpdateLabels(n, label)

HostStep(n) ==
    \/ UNCHANGED <<host, adminCordon>>
    \/ UNCHANGED host /\ AdminActs(n)
    \/ UNCHANGED adminCordon /\ (Reboot(n) \/ MachineRestart(n) \/ SentinelChanges(n))

PcStep(n) == UNCHANGED pc \/ \E step \in Steps : Goto(n, step)

Shapes(n) == PcStep(n) /\ CopyStep(n) /\ KubeStep(n) /\ HostStep(n)

\* Every step does one of these.
LEMMA StepShapes ==
    ASSUME NEW n \in Nodes, DaemonStep(n) \/ NodeStep(n)
    PROVE  Shapes(n)
<1> USE DEF Shapes, PcStep, CopyStep, KubeStep, HostStep, Steps, StartupSteps, LoopSteps
<1>1. CASE StartupHolding(n)
  BY <1>1 DEF StartupHolding, clusterVars
<1>2. CASE StartupGetNode(n)
  BY <1>2 DEF StartupGetNode, Restart, clusterVars
<1>3. CASE StartupUncordon(n)
  BY <1>3 DEF StartupUncordon, UncordonSucceeds, UncordonIsFatal, Restart
<1>4. CASE StartupLabels(n)
  BY <1>4 DEF StartupLabels
<1>5. CASE StartupUnmark(n)
  BY <1>5 DEF StartupUnmark, Restart
<1>6. CASE StartupRelease(n)
  BY <1>6 DEF StartupRelease, clusterVars
<1>7. CASE StartupTaint(n)
  BY <1>7 DEF StartupTaint, Restart, BackToTimer, TaintFails
<1>8. CASE TickNothing(n)
  BY <1>8 DEF TickNothing, BackToTimer, TaintFails, Restart
<1>9. CASE TickRequired(n)
  BY <1>9 DEF TickRequired, Restart, clusterVars
<1>10. CASE Annotate(n)
  BY <1>10 DEF Annotate, BackToTimer
<1>11. CASE Blocked(n)
  BY <1>11 DEF Blocked, BackToTimer, clusterVars
<1>12. CASE Unblocked(n)
  BY <1>12 DEF Unblocked, clusterVars
<1>13. CASE LoopHolding(n)
  BY <1>13 DEF LoopHolding, FirstDrainStep, clusterVars
<1>14. CASE Acquire(n)
  BY <1>14 DEF Acquire, FirstDrainStep, clusterVars
<1>15. CASE Refused(n)
  BY <1>15 DEF Refused, BackToTimer, TaintFails, Restart
<1>16. CASE DrainLabels(n)
  BY <1>16 DEF DrainLabels
<1>17. CASE Cordon(n)
  BY <1>17 DEF Cordon, AfterDrainError
<1>18. CASE Evict(n)
  BY <1>18 DEF Evict, clusterVars
<1>19. CASE EvictFails(n)
  BY <1>19 DEF EvictFails, AfterDrainError, clusterVars
<1>20. CASE YieldLock(n)
  BY <1>20 DEF YieldLock, clusterVars
<1>21. CASE Retreat(n)
  BY <1>21 DEF Retreat, BackToTimer, UncordonSucceeds, UncordonIsFatal, Restart
<1>22. CASE RetreatLabels(n)
  BY <1>22 DEF RetreatLabels, BackToTimer
<1>23. CASE Reboot(n)
  BY <1>23 DEF Reboot
<1>24. CASE RebootFails(n)
  BY <1>24 DEF RebootFails, Restart, clusterVars
<1>25. CASE MachineRestart(n)
  BY <1>25 DEF MachineRestart, Restart
<1>26. CASE PodRestart(n)
  BY <1>26 DEF PodRestart, Restart, clusterVars
<1>27. CASE SentinelChanges(n)
  BY <1>27 DEF SentinelChanges, daemonVars
<1>28. CASE AdminActs(n)
  BY <1>28 DEF AdminActs, daemonVars
<1>29. CASE LabelPanic(n)
  BY <1>29 DEF LabelPanic, Restart, clusterVars
<1> QED BY <1>1, <1>2, <1>3, <1>4, <1>5, <1>6, <1>7, <1>8, <1>9, <1>10, <1>11, <1>12,
           <1>13, <1>14, <1>15, <1>16, <1>17, <1>18, <1>19, <1>20, <1>21, <1>22, <1>23,
           <1>24, <1>25, <1>26, <1>27, <1>28, <1>29 DEF DaemonStep, NodeStep

\* The daemon's state stays well formed.
LEMMA NextTypeOK ==
    ASSUME DaemonTypeOK, [Next]_vars
    PROVE  DaemonTypeOK'
<1>1. ASSUME NEW n \in Nodes, DaemonStep(n) \/ NodeStep(n)
      PROVE  DaemonTypeOK'
  <2>1. PcStep(n) /\ CopyStep(n) /\ KubeStep(n) /\ HostStep(n)
    BY <1>1, StepShapes DEF Shapes
  <2>2. pc' \in [Nodes -> Steps]
    BY <2>1 DEF PcStep, Goto, DaemonTypeOK
  <2>3. copy' \in [Nodes -> NodeCopy]
    BY <2>1, NodeCopies, ReadCopies DEF CopyStep, DaemonTypeOK
  <2>4. kube' \in [Nodes -> NodeObject]
    BY <2>1, Writes DEF KubeStep
  <2>5. adminCordon' \in [Nodes -> BOOLEAN]
    BY <2>1 DEF HostStep, AdminActs, DaemonTypeOK
  <2>6. CASE UNCHANGED host
    BY <2>2, <2>3, <2>4, <2>5, <2>6 DEF DaemonTypeOK
  <2>7. CASE Reboot(n) \/ MachineRestart(n) \/ SentinelChanges(n)
    <3>1. host' \in [Nodes -> Machine]
      BY <2>7, HostWrites
    <3> QED BY <2>2, <2>3, <2>4, <2>5, <3>1 DEF DaemonTypeOK
  <2> QED BY <2>1, <2>6, <2>7 DEF HostStep
<1>2. CASE UNCHANGED <<daemonVars, clusterVars>>
  BY <1>2 DEF DaemonTypeOK, daemonVars, clusterVars
<1> QED BY <1>1, <1>2 DEF Next, vars

\* The step each daemon is at, what it remembers of its Node object, the Node
\* objects and the machines are well formed at all times.
THEOREM DaemonTypes == Spec => []DaemonTypeOK
<1>1. Init => DaemonTypeOK
  BY InitTypeOK
<1>2. DaemonTypeOK /\ [Next]_vars => DaemonTypeOK'
  BY NextTypeOK
<1> QED BY <1>1, <1>2, PTL DEF Spec

-----------------------------------------------------------------------------
(* The lock of the client is the lock of the daemon: each of its operators,*)
(* which Client! gives another name, says the same thing.                  *)

\* The same number of slots.
LEMMA SameMaxOwners == Client!MaxOwners = MaxOwners /\ (Client!MultiLock <=> MultiLock)
  BY DEF Client!MaxOwners, Client!MultiLock, MaxOwners, MultiLock

\* The same annotations are written.
LEMMA SameDrafts ==
    ASSUME NEW n, NEW u
    PROVE  /\ Client!AcquireDraft(n, u) <=> AcquireDraft(n, u)
           /\ Client!ReleaseDraft(n) <=> ReleaseDraft(n)
<1>1. Client!SingleSettled <=> SingleSettled
  BY DEF Client!SingleSettled, SingleSettled, Client!TtlExpired, TtlExpired
<1>2. Client!NewEntry(n, u) = NewEntry(n, u)
  BY DEF Client!NewEntry, NewEntry
<1>3. \A a : Client!Prepare(n, a) <=> Prepare(n, a)
  BY DEF Client!Prepare, Prepare
<1>4. Client!FreeSpace <=> FreeSpace
  BY SameMaxOwners DEF Client!FreeSpace, FreeSpace, Client!TtlExpired, TtlExpired
<1>5. Client!LiveEntries = LiveEntries
  BY DEF Client!LiveEntries, LiveEntries, Client!TtlExpired, TtlExpired, Client!Sublist,
         Sublist, Client!Cardinality, Cardinality
<1>6. Client!KeptEntries = KeptEntries
  BY <1>5, SameMaxOwners DEF Client!KeptEntries, KeptEntries
<1>7. Client!Own(n) = Own(n)
  BY DEF Client!Own, Own
<1>8. \A i : Client!AllBut(i) = AllBut(i)
  BY DEF Client!AllBut, AllBut, Client!Sublist, Sublist, Client!Cardinality,
         Cardinality
<1>9. Client!AcquireDraft(n, u) <=> AcquireDraft(n, u)
  BY <1>1, <1>2, <1>3, <1>4, <1>6, SameMaxOwners
  DEF Client!AcquireDraft, Client!AcquireSingleDraft, Client!AcquireMultiDraft,
      AcquireDraft, AcquireSingleDraft, AcquireMultiDraft
<1>10. \A i : Client!IsFirst(i, Own(n)) <=> IsFirst(i, Own(n))
  BY DEF Client!IsFirst, IsFirst
<1>11. Client!ReleaseDraft(n) <=> ReleaseDraft(n)
  BY <1>3, <1>7, <1>8, <1>10, SameMaxOwners
  DEF Client!ReleaseDraft, Client!ReleaseSingleDraft, Client!ReleaseMultiDraft,
      ReleaseDraft, ReleaseSingleDraft, ReleaseMultiDraft
<1> QED BY <1>9, <1>11

\* The same answers are given without a write.
LEMMA SameAnswers ==
    ASSUME NEW n
    PROVE  /\ Client!Holds(n) <=> Holds(n)
           /\ Client!AcquireOwned(n) <=> AcquireOwned(n)
           /\ Client!AcquireRefused(n) <=> AcquireRefused(n)
           /\ Client!ReleaseRefused(n) <=> ReleaseRefused(n)
<1>1. Client!SingleSettled <=> SingleSettled
  BY DEF Client!SingleSettled, SingleSettled, Client!TtlExpired, TtlExpired
<1>4. Client!FreeSpace <=> FreeSpace
  BY SameMaxOwners DEF Client!FreeSpace, FreeSpace, Client!TtlExpired, TtlExpired
<1>2. Client!Own(n) = Own(n)
  BY DEF Client!Own, Own
<1>3. Client!LiveOwn(n) = LiveOwn(n)
  BY <1>2 DEF Client!LiveOwn, LiveOwn, Client!TtlExpired, TtlExpired
<1>5. Client!lockVars = lockVars /\ (Client!GetFails <=> GetFails)
  BY DEF Client!lockVars, lockVars, Client!GetFails, GetFails
<1> QED BY <1>1, <1>2, <1>3, <1>4, <1>5, SameMaxOwners
  DEF Client!AcquireOwned, Client!AcquireRefused, Client!ReleaseRefused, Client!Holds,
      Client!Listed, Client!lockVars,
      AcquireOwned, AcquireRefused, ReleaseRefused, Holds, Listed, lockVars

\* An Update ends in the same ways.
LEMMA SameUpdates ==
    ASSUME NEW n
    PROVE  /\ Client!UpdateDone(n) <=> UpdateDone(n)
           /\ Client!UpdateConflict(n) <=> UpdateConflict(n)
           /\ Client!UpdateFails(n) <=> UpdateFails(n)
           /\ Client!Forget(n) <=> Forget(n)
  BY DEF Client!UpdateDone, Client!UpdateConflict, Client!UpdateFails, Client!Forget,
         UpdateDone, UpdateConflict, UpdateFails, Forget

-----------------------------------------------------------------------------
(* The steps of a daemon as steps of a client.                             *)

\* Which of the lock's clients a daemon is, at each of its steps.
LEMMA ClientStateTable ==
    /\ \A step \in {"boot", "start", "idle", "annotate", "blockers", "holding",
                    "refused", "retreat", "relabel"} : ClientState(step) = "idle"
    /\ \A step \in HoldingSteps : ClientState(step) = "held"
    /\ ClientState("acquire") = "claiming"
    /\ ClientState("acquiring") = "claimed"
    /\ ClientState("release") = "releasing" /\ ClientState("yield") = "releasing"
    /\ ClientState("releasing") = "released" /\ ClientState("yielding") = "released"
  BY DEF ClientState, HoldingSteps

\* A daemon that goes to another step moves its client, and nobody else's.
LEMMA GotoGoes ==
    ASSUME DaemonTypeOK, NEW n \in Nodes, NEW step, Goto(n, step)
    PROVE  Client!Goes(n, ClientState(pc[n]), ClientState(step))
<1>1. pc' = [pc EXCEPT ![n] = step]
  BY DEF Goto
<1>2. \A m \in Nodes : pc'[m] = IF m = n THEN step ELSE pc[m]
  BY <1>1 DEF DaemonTypeOK
<1> QED BY <1>2 DEF Client!Goes

\* A step that does not touch the lock is a step of the client or none, if it
\* stays where it is, forgets that it holds the lock, or is about to release it.
LEMMA SilentStep ==
    ASSUME DaemonTypeOK, NEW n \in Nodes, NEW step, Goto(n, step), UNCHANGED lockVars,
           \/ ClientState(step) = ClientState(pc[n])
           \/ ClientState(pc[n]) = "held" /\ ClientState(step) \in {"idle", "releasing"}
    PROVE  [Client!Next]_(Client!vars)
<1> DEFINE from == ClientState(pc[n])
           to == ClientState(step)
<1>1. Client!Goes(n, from, to)
  BY GotoGoes
<1>2. UNCHANGED Client!lockVars
  BY DEF lockVars, Client!lockVars
<1>3. CASE from = to
  <2> HIDE DEF from, to
  <2> QED BY <1>1, <1>2, <1>3 DEF Client!Goes, Client!vars
<1>4. CASE from = "held" /\ to = "idle"
  <2>1. Client!LoseTrack(n)
    BY <1>1, <1>2, <1>4 DEF Client!LoseTrack
  <2> QED BY <2>1 DEF Client!Next, Client!ClientStep
<1>5. CASE from = "held" /\ to = "releasing"
  <2>1. Client!StartRelease(n)
    BY <1>1, <1>2, <1>5 DEF Client!StartRelease
  <2> QED BY <2>1 DEF Client!Next, Client!ClientStep
<1> QED BY <1>3, <1>4, <1>5

\* The first call of drain is made by a daemon that holds the lock.
LEMMA FirstStep == ClientState(FirstDrainStep) = "held"
  BY ClientStateTable DEF FirstDrainStep, HoldingSteps

\* A restart is a silent step, but for a daemon that is inside a call of the lock.
LEMMA RestartSim ==
    ASSUME DaemonTypeOK, NEW n \in Nodes, Restart(n), UNCHANGED lockVars,
           ClientState(pc[n]) \in {"idle", "held"}
    PROVE  [Client!Next]_(Client!vars)
<1>1. Goto(n, "boot")
  BY DEF Restart
<1>2. ClientState("boot") = "idle"
  BY ClientStateTable
<1> QED BY <1>1, <1>2, SilentStep

\* So is the return to the timer.
LEMMA TimerSim ==
    ASSUME DaemonTypeOK, NEW n \in Nodes, BackToTimer(n), UNCHANGED lockVars,
           ClientState(pc[n]) \in {"idle", "held"}
    PROVE  [Client!Next]_(Client!vars)
<1>1. Goto(n, "idle")
  BY DEF BackToTimer
<1>2. ClientState("idle") = "idle"
  BY ClientStateTable
<1> QED BY <1>1, <1>2, SilentStep

\* A step of Acquire is one of the client's.
LEMMA AcquireSim ==
    ASSUME DaemonTypeOK, NEW n \in Nodes, Acquire(n)
    PROVE  [Client!Next]_(Client!vars)
<1> SUFFICES Client!TryAcquire(n) \/ Client!EndAcquire(n)
  BY DEF Client!Next, Client!ClientStep
<1>1. copy[n].unschedulable \in BOOLEAN
  BY NodeCopies DEF DaemonTypeOK
<1> QED BY <1>1, GotoGoes, ClientStateTable, FirstStep, SameUpdates, SameDrafts, SameAnswers
        DEF Acquire, Client!TryAcquire, Client!EndAcquire

\* A step of Release is one of the client's, at startup and after a failed drain.
LEMMA ReleaseSim ==
    ASSUME DaemonTypeOK, NEW n \in Nodes, StartupRelease(n) \/ YieldLock(n)
    PROVE  [Client!Next]_(Client!vars)
<1> SUFFICES Client!TryRelease(n) \/ Client!EndRelease(n)
  BY DEF Client!Next, Client!ClientStep
<1> QED BY GotoGoes, ClientStateTable, SameUpdates, SameDrafts, SameAnswers
        DEF StartupRelease, YieldLock, Client!TryRelease, Client!EndRelease

\* So is every other step of a node, or it is no step of the client.
LEMMA StepSim ==
    ASSUME DaemonTypeOK, NEW n \in Nodes, DaemonStep(n) \/ NodeStep(n)
    PROVE  [Client!Next]_(Client!vars)
<1>1. CASE StartupHolding(n)
  <2>1. CASE Goto(n, "adopt") /\ LiveOwn(n) # {}
    <3>1. Client!Goes(n, "idle", "held")
      BY <1>1, <2>1, GotoGoes, ClientStateTable DEF StartupHolding, HoldingSteps
    <3>2. Client!SeeHeld(n)
      BY <1>1, <2>1, <3>1, SameAnswers
      DEF StartupHolding, Client!SeeHeld, Holds, lockVars, Client!lockVars
    <3> QED BY <3>2 DEF Client!Next, Client!ClientStep
  <2>2. CASE Goto(n, "start")
    BY <1>1, <2>2, SilentStep, ClientStateTable DEF StartupHolding
  <2> QED BY <1>1, <2>1, <2>2 DEF StartupHolding, IsFirst
<1>2. CASE StartupGetNode(n)
  BY <1>2, SilentStep, RestartSim, ClientStateTable DEF StartupGetNode, HoldingSteps
<1>3. CASE StartupUncordon(n)
  BY <1>3, SilentStep, RestartSim, ClientStateTable
  DEF StartupUncordon, HoldingSteps, UncordonIsFatal
<1>4. CASE StartupLabels(n)
  BY <1>4, SilentStep, RestartSim, ClientStateTable DEF StartupLabels, HoldingSteps
<1>5. CASE StartupUnmark(n)
  BY <1>5, SilentStep, RestartSim, ClientStateTable DEF StartupUnmark, HoldingSteps
<1>6. CASE StartupRelease(n)
  BY <1>6, ReleaseSim
<1>7. CASE StartupTaint(n)
  BY <1>7, TimerSim, RestartSim, ClientStateTable DEF StartupTaint, TaintFails
<1>8. CASE TickNothing(n)
  BY <1>8, TimerSim, RestartSim, ClientStateTable DEF TickNothing, TaintFails
<1>9. CASE TickRequired(n)
  BY <1>9, SilentStep, RestartSim, ClientStateTable DEF TickRequired
<1>10. CASE Annotate(n)
  BY <1>10, SilentStep, TimerSim, ClientStateTable DEF Annotate
<1>11. CASE Blocked(n)
  BY <1>11, TimerSim, ClientStateTable DEF Blocked
<1>12. CASE Unblocked(n)
  BY <1>12, SilentStep, ClientStateTable DEF Unblocked
<1>13. CASE LoopHolding(n)
  <2>1. CASE HoldingSays(n, TRUE) /\ Goto(n, FirstDrainStep)
    <3>1. Client!Goes(n, "idle", "held")
      BY <1>13, <2>1, GotoGoes, ClientStateTable, FirstStep DEF LoopHolding
    <3>2. Client!SeeHeld(n)
      BY <1>13, <2>1, <3>1, SameAnswers
      DEF LoopHolding, Client!SeeHeld, HoldingSays, lockVars, Client!lockVars
    <3> QED BY <3>2 DEF Client!Next, Client!ClientStep
  <2>2. CASE Goto(n, "acquire")
    <3>1. Client!Goes(n, "idle", "claiming")
      BY <1>13, <2>2, GotoGoes, ClientStateTable DEF LoopHolding
    <3>2. Client!StartAcquire(n)
      BY <1>13, <3>1 DEF LoopHolding, Client!StartAcquire, lockVars, Client!lockVars
    <3> QED BY <3>2 DEF Client!Next, Client!ClientStep
  <2> QED BY <1>13, <2>1, <2>2 DEF LoopHolding
<1>14. CASE Acquire(n)
  BY <1>14, AcquireSim
<1>15. CASE Refused(n)
  BY <1>15, TimerSim, RestartSim, ClientStateTable DEF Refused, TaintFails
<1>16. CASE DrainLabels(n)
  BY <1>16, SilentStep, ClientStateTable DEF DrainLabels, HoldingSteps
<1>17. CASE Cordon(n)
  BY <1>17, SilentStep, ClientStateTable DEF Cordon, HoldingSteps, AfterDrainError
<1>18. CASE Evict(n)
  BY <1>18, SilentStep, ClientStateTable DEF Evict, HoldingSteps
<1>19. CASE EvictFails(n)
  BY <1>19, SilentStep, ClientStateTable DEF EvictFails, HoldingSteps, AfterDrainError
<1>20. CASE YieldLock(n)
  BY <1>20, ReleaseSim
<1>21. CASE Retreat(n)
  BY <1>21, SilentStep, TimerSim, RestartSim, ClientStateTable DEF Retreat, UncordonIsFatal
<1>22. CASE RetreatLabels(n)
  BY <1>22, TimerSim, ClientStateTable DEF RetreatLabels
<1>23. CASE Reboot(n)
  BY <1>23, SilentStep, ClientStateTable DEF Reboot, HoldingSteps
<1>24. CASE RebootFails(n)
  BY <1>24, RestartSim, ClientStateTable DEF RebootFails, HoldingSteps
<1>25. ASSUME Restart(n), Forget(n)
       PROVE  [Client!Next]_(Client!vars)
  <2>1. Client!Goes(n, ClientState(pc[n]), "idle")
    BY <1>25, GotoGoes, ClientStateTable DEF Restart
  <2>2. Client!Crash(n)
    BY <1>25, <2>1, SameUpdates DEF Client!Crash, Client!Goes
  <2> QED BY <2>2 DEF Client!Next, Client!ClientStep
<1>26. CASE MachineRestart(n)
  BY <1>25, <1>26 DEF MachineRestart
<1>27. CASE PodRestart(n)
  BY <1>25, <1>27 DEF PodRestart
<1>28. CASE SentinelChanges(n) \/ AdminActs(n)
  BY <1>28 DEF SentinelChanges, AdminActs, daemonVars, lockVars, Client!vars, Client!lockVars
<1>29. CASE LabelPanic(n)
  BY <1>29, RestartSim, ClientStateTable DEF LabelPanic, HoldingSteps
<1> QED BY <1>1, <1>2, <1>3, <1>4, <1>5, <1>6, <1>7, <1>8, <1>9, <1>10, <1>11, <1>12,
           <1>13, <1>14, <1>15, <1>16, <1>17, <1>18, <1>19, <1>20, <1>21, <1>22, <1>23,
           <1>24, <1>26, <1>27, <1>28, <1>29 DEF DaemonStep, NodeStep

\* Every step of the system is a step of the client, or leaves it as it is.
LEMMA NextSim ==
    ASSUME DaemonTypeOK, [Next]_vars
    PROVE  [Client!Next]_(Client!vars)
<1>1. ASSUME UNCHANGED pc, UNCHANGED lockVars
      PROVE  UNCHANGED Client!vars
  BY <1>1 DEF lockVars, Client!vars, Client!lockVars
<1>2. CASE TouchDaemonSet /\ UNCHANGED <<daemonVars, clusterVars>>
  BY <1>2 DEF TouchDaemonSet, Client!TouchDaemonSet, Client!Next, daemonVars
<1>3. CASE TimePasses /\ UNCHANGED <<daemonVars, clusterVars>>
  BY <1>3 DEF TimePasses, Client!TimePasses, Client!Next, daemonVars
<1>4. CASE UNCHANGED vars
  BY <1>1, <1>4 DEF vars, daemonVars
<1> QED BY <1>2, <1>3, <1>4, StepSim DEF Next

\* At the start every daemon is a client that wants nothing of the lock.
LEMMA InitSim == Init => Client!Init
<1>1. ClientState("boot") = "idle"
  BY ClientStateTable
<1> QED BY <1>1 DEF Init, LockInit, Client!Init, Client!LockInit

\* kured uses its lock as LockClients allows: whatever the node labels, taints,
\* errors and restarts, each daemon acts on its node only after the lock told it
\* that it holds a slot, and stops before it releases it.
THEOREM ImplementsClient == Spec => ClientSpec
<1>1. Init => Client!Init
  BY InitSim
<1>2. DaemonTypeOK /\ [Next]_vars => [Client!Next]_(Client!vars)
  BY NextSim
<1> QED BY <1>1, <1>2, DaemonTypes, PTL DEF Spec, ClientSpec, Client!Spec

-----------------------------------------------------------------------------
(* What is proved of the lock's clients, said of the daemon.               *)

\* The theorems about the lock's clients, for the client that the daemon is.
Lock == INSTANCE LockClientsProofs WITH client <- [n \in Nodes |-> ClientState(pc[n])]

\* The list without one entry is the same list.
LEMMA SameAllBut == \A i : Client!AllBut(i) = Lock!AllBut(i)
BY DEF Lock!AllBut, Lock!Sublist, Lock!Cardinality, Client!AllBut, Client!Sublist,
       Client!Cardinality

\* The same annotations are prepared.
LEMMA SamePrepared ==
    ASSUME NEW n, NEW u
    PROVE  /\ Client!AcquireDraft(n, u) <=> Lock!AcquireDraft(n, u)
           /\ Client!ReleaseDraft(n) <=> Lock!ReleaseDraft(n)
<1>1. Client!LiveEntries = Lock!LiveEntries
  BY DEF Client!LiveEntries, Client!TtlExpired, Client!Sublist, Client!Cardinality,
         Lock!LiveEntries, Lock!TtlExpired, Lock!Sublist, Lock!Cardinality
<1>2. Client!AcquireDraft(n, u) <=> Lock!AcquireDraft(n, u)
  BY <1>1
  DEF Client!AcquireDraft, Client!AcquireSingleDraft, Client!AcquireMultiDraft,
      Client!MultiLock, Client!MaxOwners, Client!TtlExpired, Client!NewEntry,
      Client!Prepare, Client!SingleSettled, Client!FreeSpace, Client!KeptEntries,
      Lock!AcquireDraft, Lock!AcquireSingleDraft, Lock!AcquireMultiDraft,
      Lock!MultiLock, Lock!MaxOwners, Lock!TtlExpired, Lock!NewEntry,
      Lock!Prepare, Lock!SingleSettled, Lock!FreeSpace, Lock!KeptEntries
<1>3. Client!ReleaseDraft(n) <=> Lock!ReleaseDraft(n)
  BY SameAllBut
  DEF Client!ReleaseDraft, Client!ReleaseSingleDraft, Client!ReleaseMultiDraft,
      Client!MultiLock, Client!Own, Client!IsFirst, Client!Prepare,
      Lock!ReleaseDraft, Lock!ReleaseSingleDraft, Lock!ReleaseMultiDraft,
      Lock!MultiLock, Lock!Own, Lock!IsFirst, Lock!Prepare
<1> QED BY <1>2, <1>3

\* A step of the client is the same step under the name that the theorems use.
LEMMA SameClientStep ==
    ASSUME NEW n
    PROVE  Client!ClientStep(n) <=> Lock!ClientStep(n)
<1>1. Client!SeeHeld(n) <=> Lock!SeeHeld(n)
  BY DEF Client!SeeHeld, Client!Goes, Client!Holds, Client!LiveOwn, Client!Own,
         Client!TtlExpired, Client!lockVars, Lock!SeeHeld, Lock!Goes, Lock!Holds,
         Lock!LiveOwn, Lock!Own, Lock!TtlExpired, Lock!lockVars
<1>2. Client!LoseTrack(n) <=> Lock!LoseTrack(n)
  BY DEF Client!LoseTrack, Client!Goes, Client!lockVars, Lock!LoseTrack, Lock!Goes,
         Lock!lockVars
<1>3. Client!StartAcquire(n) <=> Lock!StartAcquire(n)
  BY DEF Client!StartAcquire, Client!Goes, Client!lockVars, Lock!StartAcquire, Lock!Goes,
         Lock!lockVars
<1>4. Client!TryAcquire(n) <=> Lock!TryAcquire(n)
  BY SamePrepared
  DEF Client!TryAcquire, Client!Goes, Client!MultiLock, Client!MaxOwners, Client!TtlExpired,
      Client!GetFails, Client!SingleSettled, Client!FreeSpace, Client!lockVars,
      Client!AcquireOwned, Client!AcquireRefused,
      Lock!TryAcquire, Lock!Goes, Lock!MultiLock, Lock!MaxOwners, Lock!TtlExpired,
      Lock!GetFails, Lock!SingleSettled, Lock!FreeSpace, Lock!lockVars,
      Lock!AcquireOwned, Lock!AcquireRefused
<1>5. Client!EndAcquire(n) <=> Lock!EndAcquire(n)
  BY DEF Client!EndAcquire, Client!Goes, Client!UpdateDone, Client!UpdateConflict,
         Client!UpdateFails, Client!Forget, Lock!EndAcquire, Lock!Goes, Lock!UpdateDone,
         Lock!UpdateConflict, Lock!UpdateFails, Lock!Forget
<1>6. Client!StartRelease(n) <=> Lock!StartRelease(n)
  BY DEF Client!StartRelease, Client!Goes, Client!lockVars, Lock!StartRelease, Lock!Goes,
         Lock!lockVars
<1>7. Client!TryRelease(n) <=> Lock!TryRelease(n)
  BY SamePrepared
  DEF Client!TryRelease, Client!Goes, Client!Own, Client!Listed, Client!GetFails,
      Client!lockVars, Client!ReleaseRefused,
      Lock!TryRelease, Lock!Goes, Lock!Own, Lock!Listed, Lock!GetFails,
      Lock!lockVars, Lock!ReleaseRefused
<1>8. Client!EndRelease(n) <=> Lock!EndRelease(n)
  BY DEF Client!EndRelease, Client!Goes, Client!UpdateDone, Client!UpdateConflict,
         Client!UpdateFails, Client!Forget, Lock!EndRelease, Lock!Goes, Lock!UpdateDone,
         Lock!UpdateConflict, Lock!UpdateFails, Lock!Forget
<1>9. Client!Crash(n) <=> Lock!Crash(n)
  BY DEF Client!Crash, Client!Forget, Lock!Crash, Lock!Forget
<1> QED BY <1>1, <1>2, <1>3, <1>4, <1>5, <1>6, <1>7, <1>8, <1>9
        DEF Client!ClientStep, Lock!ClientStep

\* So are the initial states and the steps of the whole client.
LEMMA SameClient ==
    /\ Client!Init <=> Lock!Init
    /\ [Client!Next]_(Client!vars) <=> [Lock!Next]_(Lock!vars)
<1>1. Client!Init <=> Lock!Init
  BY DEF Client!Init, Client!LockInit, Lock!Init, Lock!LockInit
<1>2. Client!vars = Lock!vars
  BY DEF Client!vars, Client!lockVars, Lock!vars, Lock!lockVars
<1>3. Client!TouchDaemonSet <=> Lock!TouchDaemonSet
  BY DEF Client!TouchDaemonSet, Lock!TouchDaemonSet
<1>4. Client!TimePasses <=> Lock!TimePasses
  BY DEF Client!TimePasses, Lock!TimePasses
<1>5. Client!Next <=> Lock!Next
  BY <1>3, <1>4, SameClientStep DEF Client!Next, Lock!Next
<1>6. UNCHANGED Client!vars <=> UNCHANGED Lock!vars
  BY DEF Client!vars, Client!lockVars, Lock!vars, Lock!lockVars
<1> QED BY <1>1, <1>5, <1>6

\* The invariant, too, is the same.
LEMMA SameInv == Lock!LockInv <=> Client!LockInv
<1>1. Lock!TypeOK <=> Client!TypeOK
  BY DEF Lock!TypeOK, Lock!LockTypeOK, Lock!Entry, Lock!ClientStates,
         Client!TypeOK, Client!LockTypeOK, Client!Entry, Client!ClientStates
<1>2. Lock!WithinCapacity <=> Client!WithinCapacity
  BY DEF Lock!WithinCapacity, Lock!MaxOwners, Lock!MultiLock,
         Client!WithinCapacity, Client!MaxOwners, Client!MultiLock
<1>3. Lock!HeldIsListed <=> Client!HeldIsListed
  BY DEF Lock!HeldIsListed, Lock!Holders, Lock!Listed, Lock!Own,
         Client!HeldIsListed, Client!Holders, Client!Listed, Client!Own
<1>4. Lock!DraftsAreFresh <=> Client!DraftsAreFresh
  BY SameAllBut DEF Lock!DraftsAreFresh, Lock!MaxOwners, Lock!MultiLock, Lock!Own,
         Lock!Last, Client!DraftsAreFresh, Client!MaxOwners, Client!MultiLock,
         Client!Own, Client!Last
<1> QED BY <1>1, <1>2, <1>3, <1>4 DEF Lock!LockInv, Client!LockInv

\* Sets are counted the same way.
LEMMA SameCardinality == \A S : Lock!Cardinality(S) = Cardinality(S)
  BY DEF Lock!Cardinality, Cardinality

\* What the theorems assume of the constants.
LEMMA LockAssumptions ==
    Lock!IsFiniteSet(Nodes) /\ Concurrency \in Nat /\ TTL \in Nat /\ MaxNow \in Nat
  BY NodesAssumption, ConcurrencyAssumption, TimeAssumption DEF Lock!IsFiniteSet, IsFiniteSet

\* The daemon is a client under the name that the theorems use.
LEMMA SpecSim == Spec => Lock!Spec
  BY ImplementsClient, SameClient, PTL DEF ClientSpec, Client!Spec, Lock!Spec

\* A daemon disrupts its node exactly while its client holds the lock.
LEMMA DisruptingHolds == Disrupting = Lock!Holders
<1>1. ASSUME NEW step
      PROVE  step \in HoldingSteps <=> ClientState(step) = "held"
  <2>1. step \in HoldingSteps => ClientState(step) = "held"
    BY ClientStateTable
  <2>2. CASE step \in {"acquire", "acquiring", "release", "yield", "releasing", "yielding"}
    BY <2>2, ClientStateTable DEF HoldingSteps
  <2>3. CASE step \notin HoldingSteps \union
                 {"acquire", "acquiring", "release", "yield", "releasing", "yielding"}
    <3>1. ClientState(step) = "idle"
      BY <2>3 DEF ClientState
    <3> QED BY <2>3, <3>1
  <2> QED BY <2>1, <2>2, <2>3
<1> QED BY <1>1 DEF Disrupting, Lock!Holders

\* Never are more nodes uncordoned, drained or rebooted by their daemons than the
\* lock has slots, for every number of nodes and of slots and whatever fails.
THEOREM DisruptionIsBounded == Spec => []DisruptionBounded
<1>1. Lock!MutualExclusion => DisruptionBounded
  <2>1. Lock!MaxOwners = MaxOwners
    BY DEF Lock!MaxOwners, Lock!MultiLock, MaxOwners, MultiLock
  <2> QED BY <2>1, SameCardinality, DisruptingHolds DEF Lock!MutualExclusion, DisruptionBounded
<1>2. Lock!Spec => []Lock!MutualExclusion
  BY Lock!Exclusion, LockAssumptions, PTL
<1> QED BY <1>1, <1>2, SpecSim, PTL

\* The lock's invariant holds of the daemons as of any client.
THEOREM LockOfDaemon == ASSUME TTL = 0 PROVE Spec => []Client!LockInv
<1>1. Lock!Spec => []Lock!LockInv
  BY Lock!LockInvariant, LockAssumptions, PTL
<1>2. Lock!LockInv => Client!LockInv
  BY SameInv
<1> QED BY <1>1, <1>2, SpecSim, PTL

\* No daemon drops an entry of another that has not expired, with one slot or
\* several and whatever the TTL, wherever pods and machines restart.
THEOREM LiveEntriesStay == Spec => LiveEntryKept
<1>1. Lock!Spec => Lock!LiveEntryKept
  BY Lock!LiveEntriesStay, LockAssumptions
<1>2. Lock!LiveEntryKept => LiveEntryKept
  BY DEF LiveEntryKept, Client!LiveEntryKept, Lock!LiveEntryKept, Client!TtlExpired,
         Lock!TtlExpired, Client!vars, Client!lockVars, Lock!vars, Lock!lockVars
<1> QED BY <1>1, <1>2, SpecSim

\* Nor do the daemons make the annotation longer than the slots.
THEOREM CapacityIsKept == Spec => []WithinCapacity
<1>1. Lock!Spec => []Lock!WithinCapacity
  BY Lock!Capacity, LockAssumptions
<1>2. Lock!WithinCapacity => WithinCapacity
  BY DEF WithinCapacity, Client!WithinCapacity, Client!MaxOwners, Client!MultiLock,
         Lock!WithinCapacity, Lock!MaxOwners, Lock!MultiLock
<1> QED BY <1>1, <1>2, SpecSim, PTL

\* The entry that startup finds has the metadata of a cordon.
LEMMA RecordedStep ==
    ASSUME TypeOK, NEW n \in Nodes, DaemonStep(n) \/ NodeStep(n)
    PROVE  recorded' \in [Nodes -> BOOLEAN]
<1>1. CASE StartupHolding(n)
  <2>1. \A e \in Entry : e.unschedulable \in BOOLEAN
    BY DEF Entry
  <2>2. \A i \in LiveOwn(n) : locks[i] \in Entry
    BY DEF LiveOwn, Own, TypeOK, LockTypeOK
  <2> QED BY <1>1, <2>1, <2>2 DEF StartupHolding, TypeOK
<1>2. CASE ~StartupHolding(n)
  <2>1. UNCHANGED recorded \/ recorded' = [recorded EXCEPT ![n] = FALSE]
    BY <1>2
    DEF DaemonStep, NodeStep, daemonVars, Restart, BackToTimer, UncordonIsFatal, TaintFails,
        StartupGetNode, StartupUncordon, StartupLabels, StartupUnmark, StartupRelease,
        StartupTaint, TickNothing, TickRequired, Annotate, Blocked, Unblocked, LoopHolding,
        Acquire, Refused, DrainLabels, Cordon, Evict, EvictFails, YieldLock, Retreat,
        RetreatLabels, Reboot, RebootFails, LabelPanic, MachineRestart, PodRestart, SentinelChanges,
        AdminActs
  <2> QED BY <2>1 DEF TypeOK
<1> QED BY <1>1, <1>2

\* What startup found in the lock is the metadata of an entry.
RecordedOK == recorded \in [Nodes -> BOOLEAN]

\* The state of the whole system is well formed, no daemon acts on its node unless
\* the annotation lists it, and whatever a daemon is about to write with a copy
\* that is still the latest drops no other daemon.
THEOREM KuredInvariant == ASSUME TTL = 0 PROVE Spec => []KuredInv
<1>1. Client!LockInv => LockTypeOK
  BY DEF Client!LockInv, Client!TypeOK, Client!LockTypeOK, Client!Entry, LockTypeOK, Entry
<1>2. Init => RecordedOK
  BY DEF Init, RecordedOK
<1>3. LockTypeOK /\ DaemonTypeOK /\ RecordedOK /\ [Next]_vars => RecordedOK'
  <2>1. [Next]_vars => UNCHANGED recorded \/ \E n \in Nodes : DaemonStep(n) \/ NodeStep(n)
    BY DEF Next, vars, daemonVars
  <2> QED BY <2>1, RecordedStep DEF TypeOK, RecordedOK
<1>4. LockTypeOK /\ DaemonTypeOK /\ RecordedOK /\ Client!LockInv => KuredInv
  BY DEF KuredInv, TypeOK, RecordedOK
<1> QED BY <1>1, <1>2, <1>3, <1>4, LockOfDaemon, DaemonTypes, PTL DEF Spec

\* Only uncordon and drain write the cordon.
LEMMA CordonWriters ==
    ASSUME DaemonTypeOK, NEW n \in Nodes, DaemonStep(n)
    PROVE  \/ pc[n] \in {"uncordon", "cordon", "retreat"}
           \/ \A m \in Nodes : kube'[m].unschedulable = kube[m].unschedulable
<1>1. kube \in [Nodes -> NodeObject]
  BY DEF DaemonTypeOK
<1>2. \A k \in NodeObject :
         /\ \A v : [k EXCEPT !.inProgress = v].unschedulable = k.unschedulable
         /\ \A v : [k EXCEPT !.taint = v].unschedulable = k.unschedulable
         /\ \A v : [k EXCEPT !.label = v].unschedulable = k.unschedulable
  BY DEF NodeObject
<1>3. \A value : \A m \in Nodes :
         SetInProgress(n, value) => kube'[m].unschedulable = kube[m].unschedulable
  BY <1>1, <1>2 DEF SetInProgress
<1>4. \A value : \A m \in Nodes :
         SetTaint(n, value) => kube'[m].unschedulable = kube[m].unschedulable
  BY <1>1, <1>2 DEF SetTaint
<1>5. \A value : \A m \in Nodes :
         UpdateLabels(n, value) => kube'[m].unschedulable = kube[m].unschedulable
  <2>1. \A value : \A m \in Nodes : kube' = [kube EXCEPT ![n].label = value]
           => kube'[m].unschedulable = kube[m].unschedulable
    BY <1>1, <1>2
  <2> QED BY <2>1 DEF UpdateLabels
<1>6. \/ StartupUncordon(n) \/ Cordon(n) \/ Retreat(n)
      \/ UNCHANGED kube
      \/ \E value : SetInProgress(n, value) \/ SetTaint(n, value) \/ UpdateLabels(n, value)
  BY DEF DaemonStep, TaintFails, clusterVars,
         StartupHolding, StartupGetNode, StartupLabels, StartupUnmark, StartupRelease,
         StartupTaint, TickNothing, TickRequired, Annotate, Blocked, Unblocked, LoopHolding,
         Acquire, Refused, DrainLabels, Evict, EvictFails, YieldLock, RetreatLabels,
         Reboot, RebootFails, LabelPanic
<1>7. StartupUncordon(n) \/ Cordon(n) \/ Retreat(n) => pc[n] \in {"uncordon", "cordon", "retreat"}
  BY DEF StartupUncordon, Cordon, Retreat
<1> QED BY <1>3, <1>4, <1>5, <1>6, <1>7

\* A daemon changes the cordon of its node only while the annotation lists it, or
\* in the retreat after a failed drain.
THEOREM SchedulesUnderLock == ASSUME TTL = 0 PROVE Spec => SchedulingUnderLock
<1> DEFINE Scheduled == \A n \in Nodes :
               /\ kube'[n].unschedulable # kube[n].unschedulable
               /\ pc'[n] # pc[n]
               => Listed(n) \/ pc[n] = "retreat"
<1>1. ASSUME Client!LockInv, DaemonTypeOK, Next, NEW n \in Nodes,
             kube'[n].unschedulable # kube[n].unschedulable, pc'[n] # pc[n]
      PROVE  Listed(n) \/ pc[n] = "retreat"
  <2>1. pc[n] \in HoldingSteps => Listed(n)
    BY <1>1, ClientStateTable
    DEF Client!LockInv, Client!HeldIsListed, Client!Holders, Client!Listed, Client!Own,
        Listed, Own
  <2>2. PICK m \in Nodes : DaemonStep(m) \/ NodeStep(m)
    BY <1>1 DEF Next, daemonVars
  <2>3. m = n
    BY <1>1, <2>2, StepShapes DEF Shapes, PcStep, Goto, DaemonTypeOK
  <2>4. DaemonStep(n)
    BY <1>1, <2>2, <2>3
    DEF NodeStep, MachineRestart, PodRestart, SentinelChanges, AdminActs, daemonVars, clusterVars
  <2> QED BY <1>1, <2>1, <2>4, CordonWriters DEF HoldingSteps
<1>2. Client!LockInv /\ DaemonTypeOK /\ [Next]_vars => [Scheduled]_vars
  BY <1>1
<1>3. SchedulingUnderLock <=> [][Scheduled]_vars
  BY DEF SchedulingUnderLock
<1> HIDE DEF Scheduled
<1> QED BY <1>2, <1>3, LockOfDaemon, DaemonTypes, PTL DEF Spec
=============================================================================
