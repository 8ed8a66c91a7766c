--------------------------- MODULE KuredNodeProofs ---------------------------
(***************************************************************************)
(* What each daemon makes of its own node, for every value of the          *)
(* constants: the mark of a reboot in progress, and that a machine goes    *)
(* down cordoned, while its daemon waits for it within the lock.           *)
(***************************************************************************)
EXTENDS KuredProofs, FiniteSetTheorems

MarkedSteps == {"blockers", "holding", "acquire", "acquiring",
                "prelabel", "cordon", "evict", "reboot", "waiting"}

\* The steps of a pass before the node is cordoned.
PassSteps == {"annotate", "blockers", "holding", "acquire", "acquiring", "prelabel", "cordon"}

\* From the annotation to the reboot the node carries the mark.
Marked(n) == AnnotateNodes /\ pc[n] \in MarkedSteps => kube[n].inProgress

\* A machine that goes down is one whose daemon waits for that.
Waits(n) == "crash" \notin Events /\ host[n].stopping => pc[n] = "waiting"

\* What cordoned the node lasts until the machine goes down, and so does what the
\* daemon saw cordoned when it read the node.
Cordoned(n) ==
    "admin" \notin Events /\ ~ForceReboot =>
        /\ pc[n] \in {"evict", "reboot", "waiting"} => kube[n].unschedulable
        /\ pc[n] \in PassSteps /\ copy[n].unschedulable => kube[n].unschedulable

NodeInv(n) == Marked(n) /\ Waits(n) /\ Cordoned(n)

\* What the writes leave in the fields of the node.
LEMMA Fields ==
    ASSUME DaemonTypeOK, NEW n \in Nodes
    PROVE  /\ \A v : SetCordon(n, v) => /\ kube'[n].unschedulable = v
                                        /\ kube'[n].inProgress = kube[n].inProgress
           /\ \A v : SetInProgress(n, v) => /\ kube'[n].unschedulable = kube[n].unschedulable
                                            /\ kube'[n].inProgress = v
           /\ \A v : SetTaint(n, v) \/ UpdateLabels(n, v) =>
                         /\ kube'[n].unschedulable = kube[n].unschedulable
                         /\ kube'[n].inProgress = kube[n].inProgress
           /\ \A step : Goto(n, step) => pc'[n] = step
           /\ copy' = [copy EXCEPT ![n] = NoCopy] => copy'[n].unschedulable = FALSE
           /\ copy' = [copy EXCEPT ![n].unschedulable = TRUE] => copy'[n].unschedulable = TRUE
           /\ ReadNode(n) => /\ copy'[n].unschedulable = kube[n].unschedulable
                             /\ copy'[n].inProgress = kube[n].inProgress
           /\ UNCHANGED kube => /\ kube'[n].unschedulable = kube[n].unschedulable
                                /\ kube'[n].inProgress = kube[n].inProgress
<1>1. /\ pc \in [Nodes -> Steps] /\ copy \in [Nodes -> NodeCopy]
      /\ kube \in [Nodes -> NodeObject] /\ copy[n] \in NodeCopy /\ kube[n] \in NodeObject
  BY DEF DaemonTypeOK
<1>2. \A k \in NodeObject :
         /\ \A v : /\ [k EXCEPT !.unschedulable = v].unschedulable = v
                   /\ [k EXCEPT !.unschedulable = v].inProgress = k.inProgress
         /\ \A v : /\ [k EXCEPT !.inProgress = v].inProgress = v
                   /\ [k EXCEPT !.inProgress = v].unschedulable = k.unschedulable
         /\ \A v : /\ [k EXCEPT !.taint = v].inProgress = k.inProgress
                   /\ [k EXCEPT !.taint = v].unschedulable = k.unschedulable
         /\ \A v : /\ [k EXCEPT !.label = v].inProgress = k.inProgress
                   /\ [k EXCEPT !.label = v].unschedulable = k.unschedulable
  BY DEF NodeObject
<1>3. \A v : SetCordon(n, v) => /\ kube'[n].unschedulable = v
                                /\ kube'[n].inProgress = kube[n].inProgress
  BY <1>1, <1>2 DEF SetCordon
<1>4. \A v : SetInProgress(n, v) => /\ kube'[n].unschedulable = kube[n].unschedulable
                                    /\ kube'[n].inProgress = v
  BY <1>1, <1>2 DEF SetInProgress
<1>5. \A v : SetTaint(n, v) => /\ kube'[n].unschedulable = kube[n].unschedulable
                               /\ kube'[n].inProgress = kube[n].inProgress
  BY <1>1, <1>2 DEF SetTaint
<1>6. \A v : UpdateLabels(n, v) => /\ kube'[n].unschedulable = kube[n].unschedulable
                                   /\ kube'[n].inProgress = kube[n].inProgress
  <2>1. \A v : kube' = [kube EXCEPT ![n].label = v] =>
           /\ kube'[n].unschedulable = kube[n].unschedulable
           /\ kube'[n].inProgress = kube[n].inProgress
    BY <1>1, <1>2
  <2>2. UNCHANGED kube => /\ kube'[n].unschedulable = kube[n].unschedulable
                          /\ kube'[n].inProgress = kube[n].inProgress
    OBVIOUS
  <2> QED BY <2>1, <2>2, Zenon DEF UpdateLabels
<1>7. /\ \A step : Goto(n, step) => pc'[n] = step
      /\ copy' = [copy EXCEPT ![n] = NoCopy] => copy'[n].unschedulable = FALSE
      /\ copy' = [copy EXCEPT ![n].unschedulable = TRUE] => copy'[n].unschedulable = TRUE
      /\ ReadNode(n) => /\ copy'[n].unschedulable = kube[n].unschedulable
                        /\ copy'[n].inProgress = kube[n].inProgress
  BY <1>1 DEF Goto, NoCopy, NodeCopy, ReadNode
<1> QED BY <1>3, <1>4, <1>5, <1>6, <1>7

\* A machine is marked as going down by Reboot alone.
LEMMA StoppingFields ==
    ASSUME DaemonTypeOK, NEW n \in Nodes
    PROVE  /\ MachineRestart(n) => ~host'[n].stopping
           /\ SentinelChanges(n) => host'[n].stopping = host[n].stopping
<1>1. host \in [Nodes -> Machine] /\ host[n] \in Machine
  BY DEF DaemonTypeOK
<1>2. ASSUME MachineRestart(n) PROVE ~host'[n].stopping
  <2>1. PICK r : host' = [host EXCEPT ![n] = [required |-> r, stopping |-> FALSE]]
    BY <1>2 DEF MachineRestart
  <2> QED BY <1>1, <2>1
<1>3. ASSUME SentinelChanges(n) PROVE host'[n].stopping = host[n].stopping
  <2>1. \A m \in Machine : \A v : [m EXCEPT !.required = v].stopping = m.stopping
    BY DEF Machine
  <2>2. \E v : host' = [host EXCEPT ![n].required = v]
    BY <1>3 DEF SentinelChanges
  <2> QED BY <1>1, <2>1, <2>2
<1> QED BY <1>2, <1>3

\* A restart, at any point, starts with nothing to keep but the machine's state.
LEMMA RestartNode ==
    ASSUME DaemonTypeOK, NEW n \in Nodes, NodeInv(n), Restart(n),
           host'[n].stopping => host[n].stopping /\ "crash" \in Events
    PROVE  NodeInv(n)'
<1>1. pc'[n] = "boot"
  BY Fields DEF Restart
<1> QED BY <1>1 DEF NodeInv, Marked, Waits, Cordoned, MarkedSteps, PassSteps

\* Back at its timer a daemon has nothing to keep either.
LEMMA TimerNode ==
    ASSUME DaemonTypeOK, NEW n \in Nodes, NodeInv(n), BackToTimer(n), UNCHANGED host,
           pc[n] # "waiting"
    PROVE  NodeInv(n)'
<1>1. pc'[n] = "idle"
  BY Fields DEF BackToTimer
<1> QED BY <1>1 DEF NodeInv, Marked, Waits, Cordoned, MarkedSteps, PassSteps

\* The steps of the daemon of a node, and of the machine under it, one by one.
LEMMA NodeStepInv ==
    ASSUME DaemonTypeOK, NEW n \in Nodes, NodeInv(n), DaemonStep(n) \/ NodeStep(n)
    PROVE  NodeInv(n)'
<1> DEFINE Same == /\ kube'[n].unschedulable = kube[n].unschedulable
                   /\ kube'[n].inProgress = kube[n].inProgress
<1>0. pc[n] # "waiting" /\ "crash" \notin Events => ~host[n].stopping
  BY DEF NodeInv, Waits
\* The steps that keep the fields and go where nothing more is asked of them.
<1>a. ASSUME Same, UNCHANGED host, pc[n] # "waiting",
             pc'[n] \in MarkedSteps => pc[n] \in MarkedSteps,
             pc'[n] \notin PassSteps \union {"evict", "reboot", "waiting"}
      PROVE  NodeInv(n)'
  BY <1>a, <1>0 DEF NodeInv, Marked, Waits, Cordoned
\* The steps of a pass.
<1>b. ASSUME Same, UNCHANGED host, copy'[n].unschedulable = copy[n].unschedulable,
             pc[n] \in PassSteps \ {"annotate"}, pc'[n] \in PassSteps
      PROVE  NodeInv(n)'
  BY <1>b, <1>0 DEF NodeInv, Marked, Waits, Cordoned, MarkedSteps, PassSteps
\* The steps at startup, and those after a failed drain.
<1>c. ASSUME UNCHANGED host, pc[n] # "waiting",
             pc'[n] \notin MarkedSteps \union PassSteps
      PROVE  NodeInv(n)'
  BY <1>c, <1>0 DEF NodeInv, Marked, Waits, Cordoned, MarkedSteps, PassSteps
<1> HIDE DEF Same
<1>1. CASE StartupHolding(n)
  BY <1>1, <1>c, Fields DEF StartupHolding, clusterVars, MarkedSteps, PassSteps
<1>2. CASE StartupGetNode(n)
  BY <1>2, <1>0, <1>c, Fields, RestartNode DEF StartupGetNode, clusterVars, MarkedSteps, PassSteps
<1>3. CASE StartupUncordon(n)
  BY <1>3, <1>0, <1>c, Fields, RestartNode DEF StartupUncordon, UncordonIsFatal, MarkedSteps, PassSteps
<1>4. CASE StartupLabels(n)
  BY <1>4, <1>c, Fields DEF StartupLabels, MarkedSteps, PassSteps
<1>5. CASE StartupUnmark(n)
  BY <1>5, <1>0, <1>c, Fields, RestartNode DEF StartupUnmark, MarkedSteps, PassSteps
<1>6. CASE StartupRelease(n)
  BY <1>6, <1>c, Fields DEF StartupRelease, clusterVars, MarkedSteps, PassSteps
<1>7. CASE StartupTaint(n)
  BY <1>7, <1>0, TimerNode, RestartNode DEF StartupTaint, TaintFails
<1>8. CASE TickNothing(n)
  BY <1>8, <1>0, TimerNode, RestartNode DEF TickNothing, TaintFails
<1>9. CASE TickRequired(n)
  <2>1. CASE Restart(n)
    BY <1>9, <1>0, <2>1, RestartNode DEF TickRequired, clusterVars
  <2>2. CASE ReadNode(n) /\ Goto(n, IF AnnotateNodes /\ ~kube[n].inProgress
                                    THEN "annotate" ELSE "blockers")
    <3>1. /\ pc[n] = "idle" /\ UNCHANGED host /\ UNCHANGED kube
          /\ pc'[n] = IF AnnotateNodes /\ ~kube[n].inProgress THEN "annotate" ELSE "blockers"
          /\ copy'[n].unschedulable = kube[n].unschedulable
      BY <1>9, <2>2, Fields DEF TickRequired, clusterVars
    <3> QED BY <1>0, <3>1 DEF NodeInv, Marked, Waits, Cordoned, MarkedSteps, PassSteps
  <2> QED BY <1>9, <2>1, <2>2 DEF TickRequired
<1>10. CASE Annotate(n)
  <2>1. CASE BackToTimer(n)
    BY <1>10, <2>1, TimerNode DEF Annotate
  <2>2. CASE SetInProgress(n, TRUE) /\ Goto(n, "blockers") /\ UNCHANGED <<copy, recorded>>
    <3>1. /\ pc[n] = "annotate" /\ UNCHANGED host /\ UNCHANGED copy /\ pc'[n] = "blockers"
          /\ kube'[n].inProgress = TRUE /\ kube'[n].unschedulable = kube[n].unschedulable
      BY <1>10, <2>2, Fields DEF Annotate
    <3> QED BY <1>0, <3>1 DEF NodeInv, Marked, Waits, Cordoned, MarkedSteps, PassSteps
  <2> QED BY <1>10, <2>1, <2>2 DEF Annotate
<1>11. CASE Blocked(n)
  BY <1>11, TimerNode DEF Blocked, clusterVars
<1>12. CASE Unblocked(n)
  BY <1>12, <1>b, Fields DEF Unblocked, clusterVars, PassSteps, Same
<1>13. CASE LoopHolding(n)
  BY <1>13, <1>b, Fields DEF LoopHolding, FirstDrainStep, clusterVars, PassSteps, Same
<1>14. CASE Acquire(n)
  <2>1. pc'[n] = "refused" => NodeInv(n)'
    BY <1>14, <1>c, Fields DEF Acquire, clusterVars, MarkedSteps, PassSteps
  <2>2. pc'[n] # "refused" => NodeInv(n)'
    BY <1>14, <1>b, Fields DEF Acquire, FirstDrainStep, clusterVars, PassSteps, Same
  <2> QED BY <2>1, <2>2
<1>15. CASE Refused(n)
  BY <1>15, <1>0, TimerNode, RestartNode DEF Refused, TaintFails
<1>16. CASE DrainLabels(n)
  BY <1>16, <1>b, Fields DEF DrainLabels, PassSteps, Same
<1>17. CASE Cordon(n)
  <2>1. /\ pc[n] = "cordon" /\ UNCHANGED host
        /\ kube'[n].inProgress = kube[n].inProgress
        /\ \/ pc'[n] = "evict" /\ (kube'[n].unschedulable = TRUE \/
                 (copy[n].unschedulable /\ kube'[n].unschedulable = kube[n].unschedulable))
           \/ pc'[n] = AfterDrainError
    BY <1>17, Fields DEF Cordon
  <2> QED BY <1>0, <2>1 DEF AfterDrainError, NodeInv, Marked, Waits, Cordoned, MarkedSteps, PassSteps
<1>18. CASE Evict(n)
  <2>1. pc[n] = "evict" /\ UNCHANGED <<host, kube>> /\ pc'[n] = "reboot"
    BY <1>18, Fields DEF Evict, clusterVars
  <2> QED BY <1>0, <2>1 DEF NodeInv, Marked, Waits, Cordoned, MarkedSteps, PassSteps
<1>19. CASE EvictFails(n)
  <2>1. pc[n] = "evict" /\ UNCHANGED <<host, kube>> /\ pc'[n] = AfterDrainError
    BY <1>19, Fields DEF EvictFails, clusterVars
  <2> QED BY <1>0, <2>1
      DEF AfterDrainError, NodeInv, Marked, Waits, Cordoned, MarkedSteps, PassSteps
<1>20. CASE YieldLock(n)
  BY <1>20, <1>c, Fields DEF YieldLock, clusterVars, MarkedSteps, PassSteps
<1>21. CASE Retreat(n)
  BY <1>21, <1>0, <1>c, Fields, TimerNode, RestartNode
  DEF Retreat, UncordonIsFatal, MarkedSteps, PassSteps
<1>22. CASE RetreatLabels(n)
  BY <1>22, TimerNode DEF RetreatLabels
<1>23. CASE Reboot(n)
  <2>1. pc[n] = "reboot" /\ UNCHANGED kube /\ pc'[n] = "waiting"
    BY <1>23, Fields DEF Reboot
  <2> QED BY <2>1 DEF NodeInv, Marked, Waits, Cordoned, MarkedSteps, PassSteps
<1>24. CASE RebootFails(n)
  BY <1>24, <1>0, RestartNode DEF RebootFails, clusterVars
<1>25. CASE MachineRestart(n)
  BY <1>25, StoppingFields, RestartNode DEF MachineRestart
<1>26. CASE PodRestart(n)
  BY <1>26, RestartNode DEF PodRestart, clusterVars
<1>27. CASE SentinelChanges(n)
  BY <1>27, StoppingFields
  DEF SentinelChanges, daemonVars, NodeInv, Marked, Waits, Cordoned
<1>28. CASE AdminActs(n)
  <2>1. UNCHANGED <<pc, copy, host>> /\ "admin" \in Events
        /\ kube'[n].inProgress = kube[n].inProgress
    BY <1>28, Fields DEF AdminActs, daemonVars
  <2> QED BY <2>1 DEF NodeInv, Marked, Waits, Cordoned
<1>29. CASE LabelPanic(n)
  BY <1>29, <1>0, RestartNode DEF LabelPanic, clusterVars
<1> QED BY <1>1, <1>2, <1>3, <1>4, <1>5, <1>6, <1>7, <1>8, <1>9, <1>10, <1>11, <1>12,
           <1>13, <1>14, <1>15, <1>16, <1>17, <1>18, <1>19, <1>20, <1>21, <1>22, <1>23,
           <1>24, <1>25, <1>26, <1>27, <1>28, <1>29 DEF DaemonStep, NodeStep

\* Each daemon writes only what belongs to its node.
LEMMA OtherNodes ==
    ASSUME DaemonTypeOK, NEW n \in Nodes, DaemonStep(n) \/ NodeStep(n),
           NEW m \in Nodes, m # n
    PROVE  /\ pc'[m] = pc[m] /\ copy'[m] = copy[m] /\ kube'[m] = kube[m]
           /\ host'[m] = host[m] /\ adminCordon'[m] = adminCordon[m]
<1>1. PcStep(n) /\ CopyStep(n) /\ KubeStep(n) /\ HostStep(n)
  BY StepShapes DEF Shapes
<1>2. pc'[m] = pc[m]
  BY <1>1 DEF PcStep, Goto, DaemonTypeOK
<1>3. copy'[m] = copy[m]
  BY <1>1 DEF CopyStep, ReadNode, DaemonTypeOK
<1>4. kube'[m] = kube[m]
  BY <1>1 DEF KubeStep, SetCordon, SetInProgress, SetTaint, UpdateLabels, DaemonTypeOK
<1>5. host'[m] = host[m] /\ adminCordon'[m] = adminCordon[m]
  BY <1>1 DEF HostStep, Reboot, MachineRestart, SentinelChanges, AdminActs, DaemonTypeOK
<1> QED BY <1>2, <1>3, <1>4, <1>5

NodesInv == \A n \in Nodes : NodeInv(n)

\* The invariant holds at the start.
LEMMA NodesInit == Init => NodesInv
  BY DEF Init, NodesInv, NodeInv, Marked, Waits, Cordoned, MarkedSteps, PassSteps

\* The invariant is inductive, for all nodes together.
LEMMA NodesNext ==
    ASSUME DaemonTypeOK, NodesInv, [Next]_vars
    PROVE  NodesInv'
<1>1. ASSUME NEW n \in Nodes, DaemonStep(n) \/ NodeStep(n)
      PROVE  NodesInv'
  <2> SUFFICES ASSUME NEW m \in Nodes PROVE NodeInv(m)'
    BY DEF NodesInv
  <2>1. CASE m = n
    BY <1>1, <2>1, NodeStepInv DEF NodesInv
  <2>2. CASE m # n
    BY <1>1, <2>2, OtherNodes DEF NodesInv, NodeInv, Marked, Waits, Cordoned
  <2> QED BY <2>1, <2>2
<1>2. CASE UNCHANGED <<daemonVars, clusterVars>>
  BY <1>2 DEF NodesInv, NodeInv, Marked, Waits, Cordoned, daemonVars, clusterVars
<1> QED BY <1>1, <1>2 DEF Next, vars

\* Every node is marked while it is in progress, cordoned when it goes down, and
\* waits for the machine only after the reboot command.
THEOREM NodesInvariant == Spec => []NodesInv
<1>1. DaemonTypeOK /\ NodesInv /\ [Next]_vars => NodesInv'
  BY NodesNext
<1> QED BY <1>1, NodesInit, DaemonTypes, PTL DEF Spec

\* Every node that is drained or rebooted carries the mark of it, if marks are
\* wanted at all, whichever call fails and wherever pods restart.
THEOREM MarkedWhileInProgress == Spec => []MarkedInProgress
<1>1. NodesInv => MarkedInProgress
  BY DEF NodesInv, NodeInv, Marked, MarkedInProgress, MarkedSteps
<1> QED BY <1>1, NodesInvariant, PTL

\* Unless a failed drain is to be ignored or administrators uncordon nodes at any
\* time, no machine goes down that is not cordoned, as long as no pod restarts
\* between the reboot command and the reboot.
THEOREM CordonedBeforeReboot ==
    ASSUME "crash" \notin Events, "admin" \notin Events
    PROVE  Spec => []RebootsCordoned
<1>1. NodesInv => RebootsCordoned
  BY DEF NodesInv, NodeInv, Waits, Cordoned, RebootsCordoned
<1> QED BY <1>1, NodesInvariant, PTL

\* Nor do more machines go down at a time than the lock has slots, if it has no TTL:
\* a machine that goes down is one that its daemon still disrupts.
THEOREM FewGoDown ==
    ASSUME "crash" \notin Events, TTL = 0
    PROVE  Spec => []RebootsBounded
<1>1. NodesInv /\ DisruptionBounded => RebootsBounded
  <2> SUFFICES ASSUME NodesInv, DisruptionBounded PROVE RebootsBounded
    OBVIOUS
  <2>1. Rebooting \subseteq Disrupting /\ Disrupting \subseteq Nodes
    BY DEF NodesInv, NodeInv, Waits, Rebooting, Disrupting, HoldingSteps
  <2>2. IsFiniteSet(Disrupting)
    BY <2>1, NodesAssumption, FS_Subset
  <2>3. /\ Cardinality(Rebooting) <= Cardinality(Disrupting)
        /\ Cardinality(Rebooting) \in Nat /\ Cardinality(Disrupting) \in Nat
    BY <2>1, <2>2, FS_Subset, FS_CardinalityType
  <2>4. Cardinality(Disrupting) <= MaxOwners /\ MaxOwners \in Int
    BY ConcurrencyAssumption DEF DisruptionBounded, MaxOwners, MultiLock
  <2> QED BY <2>3, <2>4 DEF RebootsBounded
<1> QED BY <1>1, NodesInvariant, DisruptionIsBounded, PTL
=============================================================================
