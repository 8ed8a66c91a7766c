-------------------------------- MODULE Kured --------------------------------
(***************************************************************************)
(* The kured daemon, rebootAsRequired of cmd/kured/main.go: one pod per    *)
(* node, which at startup finishes what an earlier run left (uncordon, the *)
(* in-progress annotation, the lock), and then on every tick of its timer  *)
(* may take the lock, cordon and drain its node, and reboot it.            *)
(*                                                                         *)
(* One action is one step of that goroutine between two of its calls of    *)
(* the API server or of the host.  "pc" names the call that comes next.    *)
(***************************************************************************)
EXTENDS LockAnnotation, SequencesExt

CONSTANTS
    ForceReboot,    \* --force-reboot
    AnnotateNodes,  \* --annotate-nodes
    UseTaint,       \* --prefer-no-schedule-taint is set
    UseLabels       \* --pre-reboot-node-labels and --post-reboot-node-labels

ASSUME FlagsAssumption ==
    {ForceReboot, AnnotateNodes, UseTaint, UseLabels} \subseteq BOOLEAN

(* Events, besides "api" (a call fails, and a write may have been applied):
   "crash"    the pod is restarted at any point
   "drain"    evicting the pods fails or times out
   "noreboot" the reboot command fails
   "badlabel" a label flag has no "=", which no validation refuses
   "stuck"    a reboot may leave the sentinel in place
   "update"   a reboot becomes required again
   "cancel"   the sentinel disappears without a reboot
   "cordoned" an administrator had cordoned some nodes at the start
   "admin"    an administrator cordons and uncordons at any time            *)

VARIABLES
    pc,             \* the next call of each daemon
    copy,           \* the Node object each daemon read last
    recorded,       \* the metadata of the lock entry found at startup
    kube,           \* what kured writes of each Node object
    host,           \* the machine: its sentinel, and whether it is going down
    adminCordon     \* the nodes an administrator wants cordoned

daemonVars == <<pc, copy, recorded>>
clusterVars == <<kube, host, adminCordon>>
vars == <<lockVars, daemonVars, clusterVars>>

StartupSteps == {"boot", "adopt", "uncordon", "postlabel", "unmark",
                 "release", "releasing", "start"}
LoopSteps == {"idle", "annotate", "blockers", "holding", "acquire", "acquiring",
              "refused", "prelabel", "cordon", "evict", "reboot", "waiting",
              "yield", "yielding", "retreat", "relabel"}

Steps == StartupSteps \union LoopSteps

NodeCopy == [unschedulable : BOOLEAN, inProgress : BOOLEAN]
NoCopy == [unschedulable |-> FALSE, inProgress |-> FALSE]

NodeObject == [unschedulable : BOOLEAN, inProgress : BOOLEAN,
               taint : BOOLEAN, label : {"none", "pre", "post"}]
Machine == [required : BOOLEAN, stopping : BOOLEAN]

DaemonTypeOK ==
    /\ pc \in [Nodes -> Steps]
    /\ copy \in [Nodes -> NodeCopy]
    /\ kube \in [Nodes -> NodeObject]
    /\ host \in [Nodes -> Machine]
    /\ adminCordon \in [Nodes -> BOOLEAN]

TypeOK ==
    /\ LockTypeOK
    /\ DaemonTypeOK
    /\ recorded \in [Nodes -> BOOLEAN]

\* The pods start in any order, on nodes that may already need a reboot.
Init ==
    /\ LockInit
    /\ pc = [n \in Nodes |-> "boot"]
    /\ copy = [n \in Nodes |-> NoCopy]
    /\ recorded = [n \in Nodes |-> FALSE]
    /\ adminCordon \in [Nodes -> IF "cordoned" \in Events THEN BOOLEAN ELSE {FALSE}]
    /\ kube = [n \in Nodes |-> [unschedulable |-> adminCordon[n], inProgress |-> FALSE,
                                taint |-> FALSE, label |-> "none"]]
    /\ \E r \in [Nodes -> BOOLEAN] :
          host = [n \in Nodes |-> [required |-> r[n], stopping |-> FALSE]]

-----------------------------------------------------------------------------
(* Steps shared by the handlers below. *)

ApiFails == "api" \in Events

Goto(n, label) == pc' = [pc EXCEPT ![n] = label]

\* The process ends, by a signal or log.Fatalf, and the kubelet restarts it.
Restart(n) ==
    /\ Goto(n, "boot")
    /\ copy' = [copy EXCEPT ![n] = NoCopy]
    /\ recorded' = [recorded EXCEPT ![n] = FALSE]

\* The daemon goes back to its timer; what it read is not used again.
BackToTimer(n) ==
    /\ Goto(n, "idle")
    /\ copy' = [copy EXCEPT ![n] = NoCopy]
    /\ UNCHANGED recorded

ReadNode(n) ==
    copy' = [copy EXCEPT ![n] = [unschedulable |-> kube[n].unschedulable,
                                 inProgress |-> kube[n].inProgress]]

SetCordon(n, value) == kube' = [kube EXCEPT ![n].unschedulable = value]
SetInProgress(n, value) == kube' = [kube EXCEPT ![n].inProgress = value]

\* Enable and Disable of the taint, which a daemon without a taint name skips.
SetTaint(n, value) == kube' = [kube EXCEPT ![n].taint = value /\ UseTaint]

\* A patch of the taint that fails is fatal; one that is not needed is not sent.
TaintFails(n, value) ==
    /\ ApiFails /\ UseTaint /\ kube[n].taint # value
    /\ SetTaint(n, value) \/ UNCHANGED kube
    /\ Restart(n)

\* updateNodeLabels only logs its errors.
UpdateLabels(n, value) ==
    \/ kube' = [kube EXCEPT ![n].label = value]
    \/ ApiFails /\ UNCHANGED kube

\* Of a label without "=" it takes a part that is not there, and panics.
LabelPanic(n) ==
    /\ "badlabel" \in Events
    /\ pc[n] \in {"postlabel", "prelabel", "relabel"}
    /\ Restart(n)
    /\ UNCHANGED <<lockVars, clusterVars>>

\* uncordon.  kubectl sends nothing if the copy it is given is not cordoned.
UncordonSucceeds(n) ==
    IF copy[n].unschedulable THEN SetCordon(n, FALSE) ELSE UNCHANGED kube

UncordonIsFatal(n) ==
    /\ ApiFails /\ copy[n].unschedulable
    /\ SetCordon(n, FALSE) \/ UNCHANGED kube
    /\ Restart(n)

-----------------------------------------------------------------------------
(* The startup loop: tidy up after the run that took the lock. *)

\* An error of Holding leaves the startup loop like the answer "no".
StartupHolding(n) ==
    /\ pc[n] = "boot"
    /\ \/ /\ Goto(n, "adopt")
          /\ \E i \in LiveOwn(n) :
                /\ IsFirst(i, LiveOwn(n))
                /\ recorded' = [recorded EXCEPT ![n] = locks[i].unschedulable]
       \/ /\ HoldingSays(n, FALSE)
          /\ Goto(n, "start")
          /\ UNCHANGED recorded
    /\ UNCHANGED <<lockVars, copy, clusterVars>>

\* mutant: the test of the metadata inverted
StartupGetNodeInverted(n) ==
    /\ pc[n] = "adopt"
    /\ ReadNode(n)
    /\ Goto(n, IF recorded[n] THEN "uncordon" ELSE "unmark")
    /\ recorded' = [recorded EXCEPT ![n] = FALSE]
    /\ UNCHANGED <<lockVars, clusterVars>>

StartupGetNode(n) ==
    /\ pc[n] = "adopt"
    /\ \/ /\ ReadNode(n)
          /\ Goto(n, IF recorded[n] THEN "unmark" ELSE "uncordon")
          /\ recorded' = [recorded EXCEPT ![n] = FALSE]
       \/ ApiFails /\ Restart(n)
    /\ UNCHANGED <<lockVars, clusterVars>>

StartupUncordon(n) ==
    /\ pc[n] = "uncordon"
    /\ \/ /\ UncordonSucceeds(n)
          /\ Goto(n, IF UseLabels THEN "postlabel" ELSE "unmark")
          /\ UNCHANGED <<copy, recorded>>
       \/ UncordonIsFatal(n)
    /\ UNCHANGED <<lockVars, host, adminCordon>>

StartupLabels(n) ==
    /\ pc[n] = "postlabel"
    /\ UpdateLabels(n, "post")
    /\ Goto(n, "unmark")
    /\ UNCHANGED <<lockVars, copy, recorded, host, adminCordon>>

\* mutant: the annotation is left in place
StartupNoUnmark(n) ==
    /\ pc[n] = "unmark"
    /\ Goto(n, "release")
    /\ copy' = [copy EXCEPT ![n] = NoCopy]
    /\ UNCHANGED <<lockVars, recorded, clusterVars>>

\* The in-progress annotation goes once the reboot is no longer required.
StartupUnmark(n) ==
    /\ pc[n] = "unmark"
    /\ IF AnnotateNodes /\ ~host[n].required /\ copy[n].inProgress
       THEN \/ kube[n].inProgress /\ SetInProgress(n, FALSE) /\ Goto(n, "release")
                 /\ copy' = [copy EXCEPT ![n] = NoCopy] /\ UNCHANGED recorded
            \/ ApiFails /\ (SetInProgress(n, FALSE) \/ UNCHANGED kube) /\ Restart(n)
       ELSE /\ Goto(n, "release")
            /\ copy' = [copy EXCEPT ![n] = NoCopy]
            /\ UNCHANGED <<recorded, kube>>
    /\ UNCHANGED <<lockVars, host, adminCordon>>

\* mutant: no retry when Release returns an error
StartupReleaseOnce(n) ==
    /\ \/ pc[n] = "release" /\ ReleaseDraft(n) /\ Goto(n, "releasing")
       \/ pc[n] = "release" /\ ReleaseRefused(n) /\ Goto(n, "start")
       \/ pc[n] = "releasing" /\ UpdateDone(n) /\ Goto(n, "start")
       \/ pc[n] = "releasing" /\ (UpdateConflict(n) \/ UpdateFails(n)) /\ Goto(n, "start")
    /\ UNCHANGED <<copy, recorded, clusterVars>>

StartupRelease(n) ==
    /\ \/ pc[n] = "release" /\ ReleaseDraft(n) /\ Goto(n, "releasing")
       \/ pc[n] = "release" /\ ReleaseRefused(n) /\ Goto(n, "boot")
       \/ pc[n] = "releasing" /\ UpdateDone(n) /\ Goto(n, "start")
       \/ pc[n] = "releasing" /\ UpdateConflict(n) /\ Goto(n, "release")
       \/ pc[n] = "releasing" /\ UpdateFails(n) /\ Goto(n, "boot")
    /\ UNCHANGED <<copy, recorded, clusterVars>>

\* taints.New, which reads the Node even without a taint name, and Disable
\* unless a reboot is required.
StartupTaint(n) ==
    /\ pc[n] = "start"
    /\ \/ /\ IF host[n].required THEN UNCHANGED kube ELSE SetTaint(n, FALSE)
          /\ BackToTimer(n)
       \/ ~host[n].required /\ TaintFails(n, FALSE)
       \/ ApiFails /\ Restart(n) /\ UNCHANGED kube
    /\ UNCHANGED <<lockVars, host, adminCordon>>

-----------------------------------------------------------------------------
(* The main loop: one pass per tick. *)

\* The window is closed, or no reboot is required.
TickNothing(n) ==
    /\ pc[n] = "idle"
    /\ \/ SetTaint(n, FALSE) /\ BackToTimer(n)
       \/ TaintFails(n, FALSE)
    /\ UNCHANGED <<lockVars, host, adminCordon>>

\* The window is open and a reboot is required: read the Node object.
TickRequired(n) ==
    /\ pc[n] = "idle"
    /\ host[n].required
    /\ \/ /\ ReadNode(n)
          /\ Goto(n, IF AnnotateNodes /\ ~kube[n].inProgress THEN "annotate" ELSE "blockers")
          /\ UNCHANGED recorded
       \/ ApiFails /\ Restart(n)
    /\ UNCHANGED <<lockVars, clusterVars>>

\* mutant: the pass goes on after an error
AnnotateRegardless(n) ==
    /\ pc[n] = "annotate"
    /\ SetInProgress(n, TRUE) \/ UNCHANGED kube
    /\ Goto(n, "blockers")
    /\ UNCHANGED <<lockVars, copy, recorded, host, adminCordon>>

\* The patch carries the resource version of the Node that was just read: whoever
\* else has written the Node since, the kubelet for one, makes it fail, and any
\* error ends the pass.
Annotate(n) ==
    /\ pc[n] = "annotate"
    /\ \/ SetInProgress(n, TRUE) /\ Goto(n, "blockers") /\ UNCHANGED <<copy, recorded>>
       \/ UNCHANGED kube /\ BackToTimer(n)
       \/ ApiFails /\ SetInProgress(n, TRUE) /\ BackToTimer(n)
    /\ UNCHANGED <<lockVars, host, adminCordon>>

Blocked(n) ==
    /\ pc[n] = "blockers"
    /\ BackToTimer(n)
    /\ UNCHANGED <<lockVars, clusterVars>>

Unblocked(n) ==
    /\ pc[n] = "blockers"
    /\ Goto(n, "holding")
    /\ UNCHANGED <<lockVars, copy, recorded, clusterVars>>

\* The first call of drain.
FirstDrainStep == IF UseLabels THEN "prelabel" ELSE "cordon"

\* mutant: the answers of Holding swapped
LoopHoldingInverted(n) ==
    /\ pc[n] = "holding"
    /\ \/ HoldingSays(n, FALSE) /\ Goto(n, FirstDrainStep)
       \/ HoldingSays(n, TRUE) /\ Goto(n, "acquire")
    /\ UNCHANGED <<lockVars, copy, recorded, clusterVars>>

\* A node that finds itself holding the lock does not acquire it again.
LoopHolding(n) ==
    /\ pc[n] = "holding"
    /\ \/ HoldingSays(n, TRUE) /\ Goto(n, FirstDrainStep)
       \/ HoldingSays(n, FALSE) /\ Goto(n, "acquire")
    /\ UNCHANGED <<lockVars, copy, recorded, clusterVars>>

\* The entry records the cordon of the copy read at the start of the pass.
Acquire(n) ==
    /\ \/ pc[n] = "acquire" /\ AcquireDraft(n, copy[n].unschedulable) /\ Goto(n, "acquiring")
       \/ pc[n] = "acquire" /\ AcquireOwned(n) /\ Goto(n, FirstDrainStep)
       \/ pc[n] = "acquire" /\ AcquireRefused(n) /\ Goto(n, "refused")
       \/ pc[n] = "acquiring" /\ UpdateDone(n) /\ Goto(n, FirstDrainStep)
       \/ pc[n] = "acquiring" /\ UpdateConflict(n) /\ Goto(n, "acquire")
       \/ pc[n] = "acquiring" /\ UpdateFails(n) /\ Goto(n, "refused")
    /\ UNCHANGED <<copy, recorded, clusterVars>>

\* Keep new pods away from a node that waits for the lock.
Refused(n) ==
    /\ pc[n] = "refused"
    /\ \/ SetTaint(n, TRUE) /\ BackToTimer(n)
       \/ TaintFails(n, TRUE)
    /\ UNCHANGED <<lockVars, host, adminCordon>>

-----------------------------------------------------------------------------
(* drain, the reboot, and what follows a drain that failed. *)

AfterDrainError == IF ForceReboot THEN "reboot" ELSE "yield"

DrainLabels(n) ==
    /\ pc[n] = "prelabel"
    /\ UpdateLabels(n, "pre")
    /\ Goto(n, "cordon")
    /\ UNCHANGED <<lockVars, copy, recorded, host, adminCordon>>

\* mutant: an error of cordoning is only logged
CordonRegardless(n) ==
    /\ pc[n] = "cordon"
    /\ SetCordon(n, TRUE) \/ UNCHANGED kube
    /\ Goto(n, "evict")
    /\ copy' = [copy EXCEPT ![n].unschedulable = TRUE]
    /\ UNCHANGED <<lockVars, recorded, host, adminCordon>>

\* kubectl sends nothing if the copy is cordoned, and marks the copy otherwise.
Cordon(n) ==
    /\ pc[n] = "cordon"
    /\ \/ copy[n].unschedulable /\ UNCHANGED kube /\ Goto(n, "evict")
       \/ ~copy[n].unschedulable /\ SetCordon(n, TRUE) /\ Goto(n, "evict")
       \/ /\ ApiFails /\ ~copy[n].unschedulable
          /\ SetCordon(n, TRUE) \/ UNCHANGED kube
          /\ Goto(n, AfterDrainError)
    /\ copy' = [copy EXCEPT ![n].unschedulable = TRUE]
    /\ UNCHANGED <<lockVars, recorded, host, adminCordon>>

Evict(n) ==
    /\ pc[n] = "evict"
    /\ Goto(n, "reboot")
    /\ UNCHANGED <<lockVars, copy, recorded, clusterVars>>

EvictFails(n) ==
    /\ pc[n] = "evict"
    /\ "drain" \in Events
    /\ Goto(n, AfterDrainError)
    /\ UNCHANGED <<lockVars, copy, recorded, clusterVars>>

\* The lock first; an error of Release is only logged.
YieldLock(n) ==
    /\ \/ pc[n] = "yield" /\ ReleaseDraft(n) /\ Goto(n, "yielding")
       \/ pc[n] = "yield" /\ ReleaseRefused(n) /\ Goto(n, "retreat")
       \/ pc[n] = "yielding" /\ (UpdateDone(n) \/ UpdateFails(n)) /\ Goto(n, "retreat")
       \/ pc[n] = "yielding" /\ UpdateConflict(n) /\ Goto(n, "yield")
    /\ UNCHANGED <<copy, recorded, clusterVars>>

\* mutant: no best-effort uncordon
RetreatCordoned(n) ==
    /\ pc[n] = "retreat"
    /\ BackToTimer(n)
    /\ UNCHANGED <<lockVars, clusterVars>>

\* Then the best-effort uncordon, of a copy that drain has marked cordoned.
Retreat(n) ==
    /\ pc[n] = "retreat"
    /\ \/ /\ UncordonSucceeds(n)
          /\ IF UseLabels THEN Goto(n, "relabel") /\ UNCHANGED <<copy, recorded>>
                          ELSE BackToTimer(n)
       \/ UncordonIsFatal(n)
    /\ UNCHANGED <<lockVars, host, adminCordon>>

RetreatLabels(n) ==
    /\ pc[n] = "relabel"
    /\ UpdateLabels(n, "post")
    /\ BackToTimer(n)
    /\ UNCHANGED <<lockVars, host, adminCordon>>

\* The command returns; the machine goes down some time later.
Reboot(n) ==
    /\ pc[n] = "reboot"
    /\ Goto(n, "waiting")
    /\ host' = [host EXCEPT ![n].stopping = TRUE]
    /\ copy' = [copy EXCEPT ![n] = NoCopy]
    /\ UNCHANGED <<lockVars, recorded, kube, adminCordon>>

RebootFails(n) ==
    /\ pc[n] = "reboot"
    /\ "noreboot" \in Events
    /\ Restart(n)
    /\ UNCHANGED <<lockVars, clusterVars>>

-----------------------------------------------------------------------------
(* The machines and the administrators. *)

\* The machine has gone down and is back.
MachineRestart(n) ==
    /\ host[n].stopping
    /\ \E r \in {FALSE} \union (IF "stuck" \in Events THEN {host[n].required} ELSE {}) :
          host' = [host EXCEPT ![n] = [required |-> r, stopping |-> FALSE]]
    /\ Restart(n)
    /\ Forget(n)
    /\ UNCHANGED <<kube, adminCordon>>

PodRestart(n) ==
    /\ "crash" \in Events
    /\ Restart(n)
    /\ Forget(n)
    /\ UNCHANGED clusterVars

SentinelChanges(n) ==
    /\ \/ "update" \in Events /\ ~host[n].required
       \/ "cancel" \in Events /\ host[n].required
    /\ host' = [host EXCEPT ![n].required = ~@]
    /\ UNCHANGED <<lockVars, daemonVars, kube, adminCordon>>

AdminActs(n) ==
    /\ "admin" \in Events
    /\ \E value \in BOOLEAN :
          /\ adminCordon' = [adminCordon EXCEPT ![n] = value]
          /\ SetCordon(n, value)
    /\ UNCHANGED <<lockVars, daemonVars, host>>

-----------------------------------------------------------------------------
DaemonStep(n) ==
    \/ StartupHolding(n) \/ StartupGetNode(n) \/ StartupUncordon(n) \/ StartupLabels(n)
    \/ StartupUnmark(n) \/ StartupRelease(n) \/ StartupTaint(n)
    \/ TickNothing(n) \/ TickRequired(n) \/ Annotate(n) \/ Blocked(n) \/ Unblocked(n)
    \/ LoopHolding(n) \/ Acquire(n) \/ Refused(n)
    \/ DrainLabels(n) \/ Cordon(n) \/ Evict(n) \/ EvictFails(n)
    \/ YieldLock(n) \/ Retreat(n) \/ RetreatLabels(n)
    \/ Reboot(n) \/ RebootFails(n) \/ LabelPanic(n)

NodeStep(n) == MachineRestart(n) \/ PodRestart(n) \/ SentinelChanges(n) \/ AdminActs(n)

Next ==
    \/ \E n \in Nodes : DaemonStep(n) \/ NodeStep(n)
    \/ (TouchDaemonSet \/ TimePasses) /\ UNCHANGED <<daemonVars, clusterVars>>

Spec == Init /\ [][Next]_vars
-----------------------------------------------------------------------------
(* Fairness: every daemon keeps running, and a machine that is going down    *)
(* comes back; the timer ticks inside the window again and again, and no     *)
(* blocker stays for ever; a node can be drained in the end; conflicts with  *)
(* other writers of the Node or of the DaemonSet do not go on for ever.      *)
Fairness ==
    \A n \in Nodes :
        /\ WF_vars(DaemonStep(n) \/ MachineRestart(n))
        /\ SF_vars(TickRequired(n))
        /\ SF_vars(Annotate(n) /\ pc'[n] = "blockers")
        /\ SF_vars(Unblocked(n))
        /\ SF_vars(Evict(n))
        /\ SF_vars(DaemonStep(n) /\ UpdateDone(n))

LiveSpec == Spec /\ Fairness

-----------------------------------------------------------------------------
(* How the daemon uses the lock. *)

HoldingSteps == {"adopt", "uncordon", "postlabel", "unmark",
                 "prelabel", "cordon", "evict", "reboot", "waiting"}

\* What a daemon is doing with the lock when it is at a step.
ClientState(step) ==
    CASE step \in HoldingSteps -> "held"
      [] step = "acquire" -> "claiming"
      [] step = "acquiring" -> "claimed"
      [] step \in {"release", "yield"} -> "releasing"
      [] step \in {"releasing", "yielding"} -> "released"
      [] OTHER -> "idle"

\* The daemon is a client of the lock, so that all that holds of LockClients
\* holds of it.
Client == INSTANCE LockClients WITH client <- [n \in Nodes |-> ClientState(pc[n])]
ClientSpec == Client!Spec

-----------------------------------------------------------------------------
(* Safety. *)

Disrupting == {n \in Nodes : pc[n] \in HoldingSteps}
Rebooting == {n \in Nodes : host[n].stopping}

\* No more nodes than the lock has slots are being uncordoned, drained or
\* rebooted by their daemons (without a TTL, whatever fails).
DisruptionBounded == TTL = 0 => Cardinality(Disrupting) <= MaxOwners

\* The state is well formed, and the lock's own invariant holds of it: in
\* particular a node that is being disrupted is still in the annotation, so that
\* the daemon that starts after the reboot will find its entry.
KuredInv == TypeOK /\ Client!LockInv

\* Whatever the TTL and the restarts, no daemon drops the live entry of another.
LiveEntryKept == Client!LiveEntryKept

\* Nor does any daemon make the annotation longer than there are slots.
WithinCapacity == Client!WithinCapacity

\* A daemon cordons or uncordons its node only while the node has a slot, or
\* just after it gave it back because the drain failed.
SchedulingUnderLock ==
    [][\A n \in Nodes :
          /\ kube'[n].unschedulable # kube[n].unschedulable
          /\ pc'[n] # pc[n]
          => Listed(n) \/ pc[n] = "retreat"]_vars

\* README.md: "only one node reboots at a time" (or --concurrency of them).
RebootsBounded == Cardinality(Rebooting) <= MaxOwners

\* A machine goes down only cordoned, unless a failed drain is to be ignored.
RebootsCordoned ==
    \A n \in Nodes : host[n].stopping /\ ~ForceReboot => kube[n].unschedulable

\* A cordon the administrator did not ask for is kured's, and the entry in the
\* lock that makes the next startup remove it is still there, or the daemon is
\* about to remove it.
CordonAccounted ==
    \A n \in Nodes :
        kube[n].unschedulable /\ ~adminCordon[n] =>
            \/ pc[n] = "retreat"
            \/ Listed(n) /\ ~locks[Min(Own(n))].unschedulable

\* kured never removes a cordon that an administrator placed.
AdminCordonKept == \A n \in Nodes : adminCordon[n] => kube[n].unschedulable

\* LockAnnotationValue: the metadata of an entry records "if the node was
\* already unschedulable before kured reboot", not the cordon of kured itself.
MetadataTruthful ==
    \A i \in DOMAIN locks : locks[i].unschedulable = adminCordon[locks[i].node]

\* Release "attempts to remove the lock data for a single node": the startup
\* loop is not left through Release while the node still has an entry.
ReleaseFreesSlot ==
    [][\A n \in Nodes :
          pc[n] \in {"release", "releasing"} /\ pc'[n] = "start" => ~Listed(n)']_vars

\* README.md: "uncordoning them after".  A daemon that gives the lock back at
\* startup leaves its node cordoned only if an administrator wants it so.
UncordonedAtRelease ==
    [][\A n \in Nodes :
          /\ pc[n] = "releasing" /\ pc'[n] = "start"
          /\ kube[n].unschedulable
          => adminCordon[n]]_vars

\* The in-progress annotation is on every node that is drained or rebooted
\* while --annotate-nodes is set.
MarkedInProgress ==
    AnnotateNodes =>
    \A n \in Nodes :
        pc[n] \in {"prelabel", "cordon", "evict", "reboot", "waiting"} => kube[n].inProgress

\* The in-progress annotation never outlives its reason: a node that carries it
\* needs a reboot, or is in the lock, so that the next startup will remove it.
\* (As long as no pod is restarted between the reboot command and the reboot,
\* and no sentinel disappears without one.)
MarkAccounted ==
    \A n \in Nodes : kube[n].inProgress => host[n].required \/ Listed(n)

-----------------------------------------------------------------------------
(* Liveness. *)

\* A node whose reboot is required is rebooted in the end.
EveryRebootHappens == \A n \in Nodes : host[n].required ~> ~host[n].required

Settled(n) == <>[](~host[n].required /\ ~host[n].stopping)

\* A node that nobody needs to reboot any more ends as it was: no entry in the
\* lock, cordoned only if an administrator wants it, no mark of kured on it; and
\* the label of a pending reboot stays only on a node that was not uncordoned.
Restored(n) ==
    /\ ~Listed(n)
    /\ kube[n].unschedulable = adminCordon[n]
    /\ ~kube[n].inProgress /\ ~kube[n].taint
    /\ kube[n].label = "pre" => adminCordon[n]
Converges == \A n \in Nodes : Settled(n) => <>[]Restored(n)

\* README.md: "uncordoning them after".
UncordonedAfter ==
    \A n \in Nodes : Settled(n) => <>[](kube[n].unschedulable => adminCordon[n])
=============================================================================
