-------------------------- MODULE KuredCordonProofs --------------------------
(***************************************************************************)
(* What kured leaves in the lock and on the nodes, without a TTL: that a   *)
(* node is in the lock at most once; whose cordon it is, wherever pods and *)
(* machines restart and whatever fails but a drain that makes the daemon   *)
(* retreat; and what the mark of a reboot in progress still stands for.    *)
(***************************************************************************)
EXTENDS KuredNodeProofs

\* The multiple lock does not look for an entry of its caller: a node whose claim
\* was written although the answer was lost would be added again.
Certain == TTL = 0 /\ (~MultiLock \/ "api" \notin Events)

\* Without --force-reboot a failed drain leads to the retreat, which loses cordons.
Steady ==
    /\ Certain /\ "admin" \notin Events
    /\ ForceReboot \/ ("api" \notin Events /\ "drain" \notin Events)

\* What is in the lock, and what is about to be written to it, says of each node
\* what its administrator wants.
DraftsTruthful ==
    \A n \in current : \A i \in DOMAIN draft[n] :
        draft[n][i].unschedulable = adminCordon[draft[n][i].node]

ListedOnce == \A i, j \in DOMAIN locks : locks[i].node = locks[j].node => i = j

\* A node that claims a slot has none.
ClaimsAnew ==
    "api" \notin Events => \A n \in Nodes : pc[n] \in {"acquire", "acquiring"} => ~Listed(n)

OnceInv == ListedOnce /\ ClaimsAnew

RetreatSteps == {"yield", "yielding", "retreat", "relabel"}
TidiedSteps == {"postlabel", "unmark", "release", "releasing"}
ClaimSteps == {"annotate", "blockers", "holding", "acquire", "acquiring"}

\* What a daemon knows and leaves of its node's cordon, step by step.
Account(n) ==
    /\ adminCordon[n] => kube[n].unschedulable
    /\ kube[n].unschedulable /\ ~adminCordon[n] => Listed(n)
    /\ pc[n] \notin RetreatSteps
    /\ pc[n] = "adopt" => recorded[n] = adminCordon[n]
    /\ pc[n] = "uncordon" => ~adminCordon[n] /\ copy[n].unschedulable = kube[n].unschedulable
    /\ pc[n] \in TidiedSteps => kube[n].unschedulable = adminCordon[n]
    /\ pc[n] \in ClaimSteps => copy[n].unschedulable = adminCordon[n] \/ Listed(n)

CordonInv == MetadataTruthful /\ DraftsTruthful /\ \A n \in Nodes : Account(n)

-----------------------------------------------------------------------------
(* The lock.                                                               *)

\* What a step of a node does to the lock.
Claims(n) ==
    /\ pc[n] = "acquire"
    /\ Len(locks) < MaxOwners
    /\ Prepare(n, Append(locks, NewEntry(n, copy[n].unschedulable)))

GivesBack(n) == \E i \in Own(n) : Prepare(n, Lock!AllBut(i))

LockMove(n) ==
    \/ UNCHANGED lockVars
    \/ Forget(n)
    \/ Claims(n)
    \/ GivesBack(n)
    \/ UpdateDone(n) /\ pc[n] \in {"acquiring", "releasing", "yielding"}

\* An attempt to acquire appends an entry, and one to release drops one.
LEMMA Drafts ==
    ASSUME TTL = 0, KuredInv, NEW n \in Nodes
    PROVE  /\ pc[n] = "acquire" /\ AcquireDraft(n, copy[n].unschedulable) => Claims(n)
           /\ ReleaseDraft(n) => GivesBack(n)
<1>1. Lock!TypeOK /\ Lock!WithinCapacity
  BY SameInv DEF KuredInv, Lock!LockInv
<1>2. ASSUME pc[n] = "acquire", AcquireDraft(n, copy[n].unschedulable)
      PROVE  Claims(n)
  <2>1. copy[n].unschedulable \in BOOLEAN
    BY NodeCopies DEF KuredInv, TypeOK, DaemonTypeOK
  <2>2. Lock!AcquireDraft(n, copy[n].unschedulable)
    BY <1>2, SameDrafts, SamePrepared
  <2>3. /\ Lock!Prepare(n, Append(locks, Lock!NewEntry(n, copy[n].unschedulable)))
        /\ Len(locks) < Lock!MaxOwners
    BY <1>1, <2>1, <2>2, Lock!AcquireAppends, LockAssumptions
  <2> QED BY <1>2, <2>3
      DEF Claims, Lock!Prepare, Prepare, Lock!NewEntry, NewEntry, Lock!MaxOwners, MaxOwners,
          Lock!MultiLock, MultiLock
<1>3. ASSUME ReleaseDraft(n) PROVE GivesBack(n)
  <2>1. Lock!ReleaseDraft(n)
    BY <1>3, SameDrafts, SamePrepared
  <2>2. \E i \in Lock!Own(n) : Lock!Prepare(n, Lock!AllBut(i))
    BY <1>1, <2>1, Lock!ReleaseRemoves, LockAssumptions
  <2> QED BY <2>2 DEF GivesBack, Lock!Own, Own, Lock!Prepare, Prepare
<1> QED BY <1>2, <1>3

\* A step of a node does one of these to the lock.
LEMMA LockMoves ==
    ASSUME TTL = 0, KuredInv, NEW n \in Nodes, DaemonStep(n) \/ NodeStep(n)
    PROVE  LockMove(n)
<1>1. CASE Acquire(n)
  BY <1>1, Drafts
  DEF Acquire, LockMove, AcquireOwned, AcquireRefused, UpdateConflict, UpdateFails
<1>2. CASE StartupRelease(n)
  BY <1>2, Drafts DEF StartupRelease, LockMove, ReleaseRefused, UpdateConflict, UpdateFails
<1>3. CASE YieldLock(n)
  BY <1>3, Drafts DEF YieldLock, LockMove, ReleaseRefused, UpdateConflict, UpdateFails
<1>4. CASE MachineRestart(n) \/ PodRestart(n)
  BY <1>4 DEF MachineRestart, PodRestart, LockMove
<1>5. CASE ~(Acquire(n) \/ StartupRelease(n) \/ YieldLock(n) \/ MachineRestart(n) \/ PodRestart(n))
  BY <1>5
  DEF LockMove, DaemonStep, NodeStep,
      StartupHolding, StartupGetNode, StartupUncordon, StartupLabels, StartupUnmark,
      StartupTaint, TickNothing, TickRequired, Annotate, Blocked, Unblocked, LoopHolding,
      Refused, DrainLabels, Cordon, Evict, EvictFails, Retreat, RetreatLabels,
      Reboot, RebootFails, LabelPanic, SentinelChanges, AdminActs
<1> QED BY <1>1, <1>2, <1>3, <1>4, <1>5

\* A write adds an entry of the writer at the end, or drops one.
LEMMA WriteChanges ==
    ASSUME TTL = 0, KuredInv, NEW n \in Nodes, UpdateDone(n)
    PROVE  \/ /\ ClientState(pc[n]) = "claimed" /\ Len(locks) < MaxOwners
              /\ \E e \in Entry : e.node = n /\ locks' = Append(locks, e)
           \/ /\ ClientState(pc[n]) = "released"
              /\ \E i \in Own(n) : locks' = Lock!AllBut(i)
<1>1. n \in current /\ locks' = draft[n] /\ draft[n] \in Seq(Entry)
  BY DEF UpdateDone, KuredInv, TypeOK, LockTypeOK
<1>2. Lock!DraftsAreFresh
  BY SameInv DEF KuredInv, Lock!LockInv
<1>3. CASE ClientState(pc[n]) = "claimed"
  <2>1. /\ Len(locks) < Lock!MaxOwners /\ draft[n] # <<>> /\ Lock!Last(draft[n]).node = n
        /\ draft[n] = Append(locks, Lock!Last(draft[n]))
    BY <1>1, <1>2, <1>3 DEF Lock!DraftsAreFresh
  <2>2. Lock!Last(draft[n]) \in Entry
    BY <1>1, <2>1 DEF Lock!Last
  <2>3. Len(locks) < MaxOwners
    BY <2>1 DEF Lock!MaxOwners, MaxOwners, Lock!MultiLock, MultiLock
  <2> QED BY <1>1, <1>3, <2>1, <2>2, <2>3
<1>4. CASE ClientState(pc[n]) = "released"
  BY <1>1, <1>2, <1>4 DEF Lock!DraftsAreFresh, Lock!Own, Own
<1>5. ClientState(pc[n]) \in {"claimed", "released"}
  BY <1>1, <1>2 DEF Lock!DraftsAreFresh
<1> QED BY <1>3, <1>4, <1>5

\* A write keeps the other nodes in the lock, and puts in a node that claimed.
LEMMA WriteKeepsListed ==
    ASSUME TTL = 0, KuredInv, NEW n \in Nodes, UpdateDone(n)
    PROVE  /\ \A m \in Nodes : m # n /\ Listed(m) => Listed(m)'
           /\ pc[n] = "acquiring" => Listed(n)'
<1>1. n \in current /\ locks' = draft[n]
  BY DEF UpdateDone
<1>2. Lock!LockInv
  BY SameInv DEF KuredInv
<1>3. /\ \A m \in Nodes : m # n /\ Lock!Listed(m) =>
            \E k \in DOMAIN draft[n] : draft[n][k].node = m
      /\ ClientState(pc[n]) = "claimed" => \E k \in DOMAIN draft[n] : draft[n][k].node = n
  BY <1>1, <1>2, Lock!FreshDraft, LockAssumptions
<1>4. ClientState("acquiring") = "claimed"
  BY ClientStateTable
<1>5. \A m \in Nodes : Lock!Listed(m) <=> Listed(m)
  BY DEF Lock!Listed, Lock!Own, Listed, Own
<1>6. \A m \in Nodes : (\E k \in DOMAIN draft[n] : draft[n][k].node = m) => Listed(m)'
  BY <1>1 DEF Listed, Own
<1> QED BY <1>3, <1>4, <1>5, <1>6

\* No step but the end of a node's own Release takes it out of the lock.
LEMMA StaysListed ==
    ASSUME TTL = 0, KuredInv, NEW n \in Nodes, DaemonStep(n) \/ NodeStep(n)
    PROVE  /\ \A m \in Nodes : m # n /\ Listed(m) => Listed(m)'
           /\ Listed(n) /\ pc[n] \notin {"releasing", "yielding"} => Listed(n)'
<1>1. LockMove(n)
  BY LockMoves
<1>2. CASE UpdateDone(n) /\ pc[n] \in {"acquiring", "releasing", "yielding"}
  BY <1>2, WriteKeepsListed
<1>3. CASE UNCHANGED locks
  BY <1>3 DEF Listed, Own
<1> QED BY <1>1, <1>2, <1>3
        DEF LockMove, lockVars, Forget, Claims, GivesBack, Prepare

-----------------------------------------------------------------------------
(* A node is in the lock at most once.                                     *)

\* A node that claims a slot is not in the lock, since the single lock is then
\* empty, and since the answers of the API server are certain.
LEMMA ClaimsUnlisted ==
    ASSUME Certain, KuredInv, OnceInv, NEW n \in Nodes, Len(locks) < MaxOwners,
           pc[n] \in {"acquire", "acquiring"}
    PROVE  ~Listed(n)
<1>1. CASE "api" \notin Events
  BY <1>1 DEF OnceInv, ClaimsAnew
<1>2. CASE ~MultiLock
  <2>1. locks \in Seq(Entry) /\ Len(locks) < 1
    BY <1>2 DEF MaxOwners, KuredInv, TypeOK, LockTypeOK
  <2> QED BY <2>1 DEF Listed, Own
<1> QED BY <1>1, <1>2 DEF Certain

\* A write keeps the list without a second entry of any node, brings in no other
\* node than the writer, and takes a writer that gives its slot back out.
LEMMA WriteOnce ==
    ASSUME Certain, KuredInv, OnceInv, NEW n \in Nodes, UpdateDone(n)
    PROVE  /\ ListedOnce'
           /\ \A m \in Nodes : m # n /\ ~Listed(m) => ~Listed(m)'
           /\ ClientState(pc[n]) = "released" => ~Listed(n)'
<1>1. locks \in Seq(Entry) /\ ListedOnce
  BY DEF KuredInv, TypeOK, LockTypeOK, OnceInv
<1>2. ASSUME ClientState(pc[n]) = "claimed", Len(locks) < MaxOwners,
             NEW e \in Entry, e.node = n, locks' = Append(locks, e)
      PROVE  /\ ListedOnce'
             /\ \A m \in Nodes : m # n /\ ~Listed(m) => ~Listed(m)'
  <2>1. pc[n] \in {"acquire", "acquiring"}
    BY <1>2 DEF ClientState
  <2>2. \A i \in DOMAIN locks : locks[i].node # n
    BY <1>2, <2>1, ClaimsUnlisted DEF Listed, Own
  <2>3. \A i \in DOMAIN locks' :
           \/ i \in DOMAIN locks /\ locks'[i] = locks[i]
           \/ i = Len(locks) + 1 /\ locks'[i] = e
    BY <1>1, <1>2
  <2>4. ListedOnce'
    BY <1>1, <1>2, <2>2, <2>3 DEF ListedOnce
  <2> QED BY <1>2, <2>3, <2>4 DEF Listed, Own
<1>3. ASSUME NEW i \in Own(n), locks' = Lock!AllBut(i)
      PROVE  /\ ListedOnce'
             /\ \A m \in Nodes : ~Listed(m) => ~Listed(m)'
             /\ ~Listed(n)'
  <2>1. i \in DOMAIN locks /\ locks[i].node = n /\ locks \in Seq(Lock!Entry)
    BY <1>1 DEF Own, Lock!Entry, Entry
  <2>2. /\ \A j, k \in DOMAIN locks' : locks'[j].node = locks'[k].node => j = k
        /\ \A k \in DOMAIN locks' : locks'[k].node # n
    BY <1>1, <1>3, <2>1, Lock!AllButOnce, LockAssumptions DEF ListedOnce
  <2>3. \A k \in DOMAIN locks' : \E j \in DOMAIN locks : locks[j] = locks'[k]
    BY <1>3, <2>1, Lock!AllButKeeps, LockAssumptions
  <2> QED BY <2>2, <2>3 DEF ListedOnce, Listed, Own
<1>4. ClientState(pc[n]) = "claimed" => ClientState(pc[n]) # "released"
  OBVIOUS
<1> QED BY <1>2, <1>3, <1>4, WriteChanges DEF Certain

\* The step of a node keeps every node in the lock at most once.
LEMMA OnceStep ==
    ASSUME Certain, KuredInv, OnceInv, NEW n \in Nodes, DaemonStep(n) \/ NodeStep(n)
    PROVE  OnceInv'
<1>0. DaemonTypeOK /\ (UNCHANGED locks \/ UpdateDone(n))
  BY LockMoves
  DEF LockMove, lockVars, Forget, Claims, GivesBack, Prepare, KuredInv, TypeOK, Certain
<1>1. ListedOnce'
  BY <1>0, WriteOnce DEF OnceInv, ListedOnce
<1>2. ASSUME "api" \notin Events, NEW m \in Nodes, m # n,
             pc'[m] \in {"acquire", "acquiring"}
      PROVE  ~Listed(m)'
  <2>1. pc'[m] = pc[m]
    BY <1>0, <1>2, OtherNodes
  <2>2. ~Listed(m)
    BY <1>2, <2>1 DEF OnceInv, ClaimsAnew
  <2> QED BY <1>0, <1>2, <2>2, WriteOnce DEF Listed, Own
<1>3. ASSUME "api" \notin Events, pc'[n] \in {"acquire", "acquiring"}
      PROVE  ~Listed(n)'
  <2>1. \A step : Goto(n, step) => pc'[n] = step
    BY <1>0, Fields
  <2>2. ~Restart(n) /\ ~BackToTimer(n)
    BY <1>0, <1>3, Fields DEF Restart, BackToTimer
  <2>3. \/ LoopHolding(n) /\ HoldingSays(n, FALSE)
        \/ Acquire(n) /\ pc[n] \in {"acquire", "acquiring"}
        \/ SentinelChanges(n) \/ AdminActs(n)
    <3>1. ~(StartupHolding(n) \/ StartupGetNode(n) \/ StartupUncordon(n) \/ StartupLabels(n)
            \/ StartupUnmark(n) \/ StartupRelease(n) \/ StartupTaint(n))
      BY <1>3, <2>1, <2>2
      DEF StartupHolding, StartupGetNode, StartupUncordon, UncordonIsFatal, StartupLabels,
          StartupUnmark, StartupRelease, StartupTaint, TaintFails
    <3>2. ~(TickNothing(n) \/ TickRequired(n) \/ Annotate(n) \/ Blocked(n) \/ Unblocked(n)
            \/ Refused(n) \/ DrainLabels(n) \/ Cordon(n) \/ Evict(n) \/ EvictFails(n))
      BY <1>3, <2>1, <2>2
      DEF TickNothing, TickRequired, TaintFails, Annotate, Blocked, Unblocked, Refused,
          DrainLabels, Cordon, AfterDrainError, Evict, EvictFails
    <3>3. ~(YieldLock(n) \/ Retreat(n) \/ RetreatLabels(n) \/ Reboot(n) \/ RebootFails(n)
            \/ LabelPanic(n) \/ MachineRestart(n) \/ PodRestart(n))
      BY <1>3, <2>1, <2>2
      DEF YieldLock, Retreat, UncordonIsFatal, RetreatLabels, Reboot, RebootFails, LabelPanic,
          MachineRestart, PodRestart
    <3>4. LoopHolding(n) => HoldingSays(n, FALSE)
      BY <1>3, <2>1 DEF LoopHolding, FirstDrainStep
    <3>5. Acquire(n) => pc[n] \in {"acquire", "acquiring"}
      BY DEF Acquire
    <3> QED BY <3>1, <3>2, <3>3, <3>4, <3>5 DEF DaemonStep, NodeStep
  <2>4. CASE LoopHolding(n) /\ HoldingSays(n, FALSE)
    <3>1. ~Holds(n) /\ UNCHANGED locks
      BY <1>3, <2>4 DEF LoopHolding, HoldingSays, GetFails, lockVars
    <3>2. Own(n) = LiveOwn(n)
      BY DEF LiveOwn, TtlExpired, Certain
    <3> QED BY <3>1, <3>2 DEF Holds, Listed, Own
  <2>5. CASE Acquire(n) /\ pc[n] \in {"acquire", "acquiring"}
    <3>1. ~Listed(n)
      BY <1>3, <2>5 DEF OnceInv, ClaimsAnew
    <3>2. UNCHANGED locks
      BY <1>3, <2>1, <2>5
      DEF Acquire, AcquireDraft, AcquireSingleDraft, AcquireMultiDraft, Prepare, AcquireOwned,
          AcquireRefused, UpdateConflict, UpdateFails, Forget, FirstDrainStep, lockVars
    <3> QED BY <3>1, <3>2 DEF Listed, Own
  <2>6. CASE SentinelChanges(n) \/ AdminActs(n)
    BY <1>3, <2>6 DEF SentinelChanges, AdminActs, daemonVars, lockVars, OnceInv, ClaimsAnew,
                      Listed, Own
  <2> QED BY <2>3, <2>4, <2>5, <2>6
<1> QED BY <1>1, <1>2, <1>3 DEF OnceInv, ClaimsAnew

\* No node is in the lock twice, so one Release takes it out, and a node that claims
\* a slot has none.
THEOREM OnceInvariant == ASSUME Certain PROVE Spec => []OnceInv
<1>1. Init => OnceInv
  BY DEF Init, LockInit, OnceInv, ListedOnce, ClaimsAnew, Listed, Own
<1>2. KuredInv /\ OnceInv /\ [Next]_vars => OnceInv'
  <2> SUFFICES ASSUME KuredInv, OnceInv, [Next]_vars PROVE OnceInv'
    OBVIOUS
  <2>1. CASE \E n \in Nodes : DaemonStep(n) \/ NodeStep(n)
    BY <2>1, OnceStep
  <2>2. CASE \/ (TouchDaemonSet \/ TimePasses) /\ UNCHANGED <<daemonVars, clusterVars>>
             \/ UNCHANGED vars
    <3>1. UNCHANGED <<locks, pc>>
      BY <2>2 DEF TouchDaemonSet, TimePasses, daemonVars, vars, lockVars
    <3> QED BY <3>1 DEF OnceInv, ListedOnce, ClaimsAnew, Listed, Own
  <2> QED BY <2>1, <2>2 DEF Next
<1>3. Spec => []KuredInv
  BY KuredInvariant DEF Certain
<1> QED BY <1>1, <1>2, <1>3, PTL DEF Spec

-----------------------------------------------------------------------------
(* What the lock says.                                                     *)

\* The lock says the truth after each step.
LEMMA TruthfulStep ==
    ASSUME Steady, KuredInv, OnceInv, CordonInv, NEW n \in Nodes, DaemonStep(n) \/ NodeStep(n)
    PROVE  MetadataTruthful' /\ DraftsTruthful'
<1>0. /\ UNCHANGED adminCordon
      /\ draft \in [Nodes -> Seq(Entry)] /\ current \subseteq Nodes /\ locks \in Seq(Entry)
  BY StepShapes DEF Shapes, HostStep, AdminActs, Steady, KuredInv, TypeOK, LockTypeOK
<1>1. LockMove(n)
  BY LockMoves DEF Steady, Certain
<1>2. CASE UNCHANGED lockVars
  BY <1>0, <1>2 DEF lockVars, CordonInv, MetadataTruthful, DraftsTruthful
<1>3. CASE Forget(n)
  <2>1. /\ locks' = locks /\ current' \subseteq current
        /\ \A m \in current' : draft'[m] = draft[m]
    BY <1>0, <1>3 DEF Forget
  <2> QED BY <1>0, <2>1 DEF CordonInv, MetadataTruthful, DraftsTruthful
<1>4. ASSUME NEW annotation, Prepare(n, annotation),
             \A i \in DOMAIN annotation :
                annotation[i].unschedulable = adminCordon[annotation[i].node]
      PROVE  MetadataTruthful' /\ DraftsTruthful'
  <2>1. /\ locks' = locks /\ current' = current \union {n}
        /\ draft'[n] = annotation /\ \A m \in current : m # n => draft'[m] = draft[m]
    BY <1>0, <1>4 DEF Prepare
  <2> QED BY <1>0, <1>4, <2>1 DEF CordonInv, MetadataTruthful, DraftsTruthful
<1>5. CASE Claims(n)
  <2> DEFINE e == NewEntry(n, copy[n].unschedulable)
  <2>1. ~Listed(n)
    BY <1>5, ClaimsUnlisted DEF Claims, Steady
  <2>2. e.unschedulable = adminCordon[n] /\ e.node = n
    BY <1>5, <2>1 DEF Claims, CordonInv, Account, ClaimSteps, NewEntry
  <2> HIDE DEF e
  <2>3. \A i \in DOMAIN Append(locks, e) :
           \/ Append(locks, e)[i] = e
           \/ i \in DOMAIN locks /\ Append(locks, e)[i] = locks[i]
    BY <1>0
  <2>4. \A i \in DOMAIN Append(locks, e) :
           Append(locks, e)[i].unschedulable = adminCordon[Append(locks, e)[i].node]
    BY <2>2, <2>3 DEF CordonInv, MetadataTruthful
  <2>5. Prepare(n, Append(locks, e))
    BY <1>5 DEF Claims, e
  <2> QED BY <1>4, <2>4, <2>5
<1>6. CASE GivesBack(n)
  <2>1. PICK i \in Own(n) : Prepare(n, Lock!AllBut(i))
    BY <1>6 DEF GivesBack
  <2>2. i \in DOMAIN locks /\ locks \in Seq(Lock!Entry)
    BY <1>0 DEF Own, Lock!Entry, Entry
  <2>3. \A k \in DOMAIN Lock!AllBut(i) : \E j \in DOMAIN locks : locks[j] = Lock!AllBut(i)[k]
    BY <2>2, Lock!AllButKeeps, LockAssumptions
  <2>4. \A k \in DOMAIN Lock!AllBut(i) :
           Lock!AllBut(i)[k].unschedulable = adminCordon[Lock!AllBut(i)[k].node]
    BY <2>3 DEF CordonInv, MetadataTruthful
  <2> QED BY <1>4, <2>1, <2>4
<1>7. CASE UpdateDone(n)
  BY <1>0, <1>7 DEF UpdateDone, CordonInv, MetadataTruthful, DraftsTruthful
<1> QED BY <1>1, <1>2, <1>3, <1>5, <1>6, <1>7 DEF LockMove

-----------------------------------------------------------------------------
(* The daemon and its node.                                                *)

\* The truth values that the account of a node compares.
LEMMA Booleans ==
    ASSUME TypeOK, NEW n \in Nodes
    PROVE  {copy[n].unschedulable, kube[n].unschedulable, adminCordon[n], recorded[n]} \subseteq BOOLEAN
  BY NodeCopies, NodeObjects DEF TypeOK, DaemonTypeOK

\* The step of a node keeps its account.
LEMMA AccountStep ==
    ASSUME Steady, KuredInv, CordonInv, NEW n \in Nodes, DaemonStep(n) \/ NodeStep(n)
    PROVE  Account(n)'
<1> USE DEF RetreatSteps, TidiedSteps, ClaimSteps
<1> DEFINE K == kube[n].unschedulable
<1>0. /\ DaemonTypeOK /\ Account(n) /\ UNCHANGED adminCordon
      /\ pc[n] \notin RetreatSteps
      /\ K \in BOOLEAN /\ adminCordon[n] \in BOOLEAN /\ copy[n].unschedulable \in BOOLEAN
      /\ recorded[n] \in BOOLEAN
  BY StepShapes, Booleans
  DEF Shapes, HostStep, AdminActs, Steady, KuredInv, TypeOK, CordonInv, Account
<1>1. pc[n] # "releasing" /\ Listed(n) => Listed(n)'
  BY <1>0, StaysListed DEF Steady, Certain
\* Where nothing is asked of the step that comes next.
<1>a. ASSUME K' = K \/ (~K' /\ ~adminCordon[n]), (Listed(n) => Listed(n)') \/ K = adminCordon[n],
             pc'[n] \notin RetreatSteps \union TidiedSteps \union ClaimSteps \union {"adopt", "uncordon"}
      PROVE  Account(n)'
  BY <1>a, <1>0 DEF Account
\* Steps of a pass that change neither node nor copy.
<1>b. ASSUME K' = K, Listed(n) => Listed(n)', copy'[n].unschedulable = copy[n].unschedulable,
             pc[n] \in ClaimSteps,
             pc'[n] \notin RetreatSteps \union TidiedSteps \union {"adopt", "uncordon"}
      PROVE  Account(n)'
  BY <1>b, <1>0 DEF Account
\* Steps that tidy up.
<1>c. ASSUME K' = K, Listed(n) => Listed(n)', K = adminCordon[n], pc'[n] \in TidiedSteps
      PROVE  Account(n)'
  BY <1>c, <1>0 DEF Account
<1>r. Restart(n) => pc'[n] = "boot"
  BY <1>0, Fields DEF Restart
<1>t. BackToTimer(n) => pc'[n] = "idle"
  BY <1>0, Fields DEF BackToTimer
<1>k. UNCHANGED kube => K' = K
  OBVIOUS
<1>p. \A step : Goto(n, step) => pc'[n] = step
  BY <1>0, Fields
<1>w. /\ \A v : SetCordon(n, v) => K' = v
      /\ \A v : SetInProgress(n, v) \/ SetTaint(n, v) \/ UpdateLabels(n, v) => K' = K
  BY <1>0, Fields
<1> HIDE DEF K
<1>2. CASE StartupHolding(n)
  <2>1. UNCHANGED kube /\ pc[n] = "boot"
    BY <1>2 DEF StartupHolding, clusterVars
  <2>2. CASE Goto(n, "start")
    BY <1>1, <1>a, <1>k, <1>p, <2>1, <2>2
  <2>3. ASSUME NEW i \in LiveOwn(n), Goto(n, "adopt"),
               recorded' = [recorded EXCEPT ![n] = locks[i].unschedulable]
        PROVE  Account(n)'
    <3>1. i \in DOMAIN locks /\ locks[i].node = n
      BY DEF LiveOwn, Own
    <3>2. locks[i].unschedulable = adminCordon[n]
      BY <3>1 DEF CordonInv, MetadataTruthful
    <3>3. recorded'[n] = adminCordon[n]
      BY <2>3, <3>2 DEF KuredInv, TypeOK
    <3>4. K' = K /\ pc'[n] = "adopt" /\ (Listed(n) => Listed(n)')
      BY <1>1, <1>k, <1>p, <2>1, <2>3
    <3> QED BY <1>0, <3>3, <3>4 DEF Account, K
  <2> QED BY <1>2, <2>2, <2>3 DEF StartupHolding
<1>3. CASE StartupGetNode(n)
  <2>1. /\ UNCHANGED kube /\ pc[n] = "adopt" /\ recorded[n] = adminCordon[n]
        /\ adminCordon[n] => K
    BY <1>0, <1>3 DEF StartupGetNode, clusterVars, Account, K
  <2>2. CASE Restart(n)
    BY <1>1, <1>a, <1>k, <1>r, <2>1, <2>2
  <2>3. CASE ReadNode(n) /\ Goto(n, IF recorded[n] THEN "unmark" ELSE "uncordon")
    <3>1. copy'[n].unschedulable = K /\ K' = K /\ (Listed(n) => Listed(n)')
      BY <1>0, <1>1, <1>k, <2>1, <2>3, Fields DEF K
    <3>2. pc'[n] = IF recorded[n] THEN "unmark" ELSE "uncordon"
      BY <1>p, <2>3
    <3>3. CASE recorded[n]
      BY <1>0, <1>c, <2>1, <3>1, <3>2, <3>3
    <3>4. CASE ~recorded[n]
      BY <1>0, <2>1, <3>1, <3>2, <3>4 DEF Account, K
    <3> QED BY <3>3, <3>4
  <2> QED BY <1>3, <2>2, <2>3 DEF StartupGetNode
<1>4. CASE StartupUncordon(n)
  <2>1. pc[n] = "uncordon" /\ ~adminCordon[n] /\ copy[n].unschedulable = K
    BY <1>0, <1>4 DEF StartupUncordon, Account, K
  <2>2. CASE UncordonIsFatal(n)
    <3>1. Restart(n) /\ (K' = FALSE \/ K' = K)
      BY <1>k, <1>w, <2>2 DEF UncordonIsFatal
    <3> QED BY <1>1, <1>a, <1>r, <2>1, <3>1
  <2>3. CASE UncordonSucceeds(n) /\ Goto(n, IF UseLabels THEN "postlabel" ELSE "unmark")
    <3>1. K' = FALSE
      BY <1>0, <1>k, <1>w, <2>1, <2>3 DEF UncordonSucceeds
    <3>2. pc'[n] \in {"postlabel", "unmark"}
      BY <1>p, <2>3
    <3> QED BY <1>0, <2>1, <3>1, <3>2 DEF Account, K
  <2> QED BY <1>4, <2>2, <2>3 DEF StartupUncordon
<1>5. CASE StartupLabels(n)
  <2>1. pc[n] = "postlabel" /\ K' = K /\ pc'[n] = "unmark" /\ K = adminCordon[n]
    BY <1>0, <1>p, <1>w, <1>5 DEF StartupLabels, Account, K
  <2> QED BY <1>1, <1>c, <2>1
<1>6. CASE StartupUnmark(n)
  <2>1. pc[n] = "unmark" /\ K' = K /\ K = adminCordon[n] /\ (Goto(n, "release") \/ Restart(n))
    BY <1>0, <1>k, <1>w, <1>6 DEF StartupUnmark, Account, K
  <2> QED BY <1>1, <1>a, <1>c, <1>p, <1>r, <2>1
<1>7. CASE StartupRelease(n)
  <2>1. pc[n] \in {"release", "releasing"} /\ K' = K /\ K = adminCordon[n]
    BY <1>0, <1>k, <1>7 DEF StartupRelease, clusterVars, Account, K
  <2>2. pc'[n] \in {"releasing", "boot", "start", "release"}
    BY <1>p, <1>7 DEF StartupRelease
  <2> QED BY <1>0, <2>1, <2>2 DEF Account, K
<1>8. CASE StartupTaint(n) \/ TickNothing(n) \/ Refused(n)
  <2>1. pc[n] \in {"start", "idle", "refused"} /\ K' = K /\ (BackToTimer(n) \/ Restart(n))
    BY <1>k, <1>w, <1>8 DEF StartupTaint, TickNothing, Refused, TaintFails
  <2> QED BY <1>1, <1>a, <1>r, <1>t, <2>1
<1>9. CASE TickRequired(n)
  <2>1. pc[n] = "idle" /\ K' = K /\ (Listed(n) => Listed(n)')
    BY <1>1, <1>k, <1>9 DEF TickRequired, clusterVars
  <2>2. CASE Restart(n)
    BY <1>a, <1>r, <2>1, <2>2
  <2>3. CASE ReadNode(n) /\ Goto(n, IF AnnotateNodes /\ ~kube[n].inProgress
                                    THEN "annotate" ELSE "blockers")
    <3>1. copy'[n].unschedulable = K /\ pc'[n] \in {"annotate", "blockers"}
      BY <1>0, <1>p, <2>3, Fields DEF K
    <3> QED BY <1>0, <2>1, <3>1 DEF Account, K
  <2> QED BY <1>9, <2>2, <2>3 DEF TickRequired
<1>10. CASE Annotate(n)
  <2>1. pc[n] = "annotate" /\ K' = K
    BY <1>k, <1>w, <1>10 DEF Annotate
  <2>2. CASE BackToTimer(n)
    BY <1>1, <1>a, <1>t, <2>1, <2>2
  <2>3. CASE Goto(n, "blockers") /\ UNCHANGED copy
    BY <1>1, <1>b, <1>p, <2>1, <2>3
  <2> QED BY <1>10, <2>2, <2>3 DEF Annotate
<1>11. CASE Blocked(n)
  BY <1>1, <1>a, <1>k, <1>t, <1>11 DEF Blocked, clusterVars
<1>12. CASE Unblocked(n) \/ LoopHolding(n) \/ Acquire(n)
  <2>1. /\ K' = K /\ UNCHANGED copy
        /\ pc[n] \in {"blockers", "holding", "acquire", "acquiring"}
        /\ pc'[n] \in {"holding", "acquire", "acquiring", "refused", "prelabel", "cordon"}
    BY <1>k, <1>p, <1>12 DEF Unblocked, LoopHolding, Acquire, FirstDrainStep, clusterVars
  <2> QED BY <1>1, <1>b, <2>1
<1>13. CASE DrainLabels(n)
  BY <1>1, <1>a, <1>p, <1>w, <1>13 DEF DrainLabels
<1>14. CASE Cordon(n)
  <2>1. Listed(n)
    BY <1>14, ClientStateTable
    DEF Cordon, HoldingSteps, KuredInv, Client!LockInv, Client!HeldIsListed, Client!Holders,
        Client!Listed, Client!Own, Listed, Own, Steady, Certain
  <2>2. /\ pc[n] = "cordon" /\ (K' = TRUE \/ K' = K) /\ pc'[n] \in {"evict", "reboot"}
    BY <1>k, <1>p, <1>w, <1>14 DEF Cordon, AfterDrainError, ApiFails, Steady
  <2> QED BY <1>0, <1>1, <2>1, <2>2 DEF Account, K
<1>15. CASE Evict(n) \/ EvictFails(n)
  <2>1. pc[n] = "evict" /\ K' = K /\ pc'[n] = "reboot"
    BY <1>k, <1>p, <1>15 DEF Evict, EvictFails, AfterDrainError, Steady, clusterVars
  <2> QED BY <1>1, <1>a, <2>1
<1>16. CASE YieldLock(n) \/ Retreat(n) \/ RetreatLabels(n)
  BY <1>0, <1>16 DEF YieldLock, Retreat, RetreatLabels
<1>17. CASE Reboot(n)
  BY <1>1, <1>a, <1>k, <1>p, <1>17 DEF Reboot
<1>18. CASE RebootFails(n) \/ LabelPanic(n)
  BY <1>1, <1>a, <1>k, <1>r, <1>18 DEF RebootFails, LabelPanic, clusterVars
<1>19. CASE MachineRestart(n) \/ PodRestart(n)
  <2>1. K' = K /\ pc'[n] = "boot" /\ UNCHANGED locks
    BY <1>k, <1>r, <1>19 DEF MachineRestart, PodRestart, Forget, clusterVars
  <2>2. Listed(n) => Listed(n)'
    BY <2>1 DEF Listed, Own
  <2> QED BY <1>a, <2>1, <2>2
<1>20. CASE SentinelChanges(n)
  <2>1. UNCHANGED <<pc, copy, recorded, kube, locks>>
    BY <1>20 DEF SentinelChanges, daemonVars, lockVars
  <2> QED BY <1>0, <2>1 DEF Account, Listed, Own
<1>21. ~AdminActs(n)
  BY DEF AdminActs, Steady
<1> QED BY <1>2, <1>3, <1>4, <1>5, <1>6, <1>7, <1>8, <1>9, <1>10, <1>11, <1>12, <1>13, <1>14,
           <1>15, <1>16, <1>17, <1>18, <1>19, <1>20, <1>21 DEF DaemonStep, NodeStep

\* The steps of a node leave the accounts of the others.
LEMMA OtherAccounts ==
    ASSUME Steady, KuredInv, CordonInv, NEW n \in Nodes, DaemonStep(n) \/ NodeStep(n),
           NEW m \in Nodes, m # n
    PROVE  Account(m)'
<1>1. /\ pc'[m] = pc[m] /\ copy'[m] = copy[m] /\ kube'[m] = kube[m]
      /\ adminCordon'[m] = adminCordon[m]
  BY OtherNodes DEF KuredInv, TypeOK
<1>2. recorded'[m] = recorded[m]
  <2>1. \/ UNCHANGED recorded
        \/ \E value : recorded' = [recorded EXCEPT ![n] = value]
    BY DEF DaemonStep, NodeStep, daemonVars, Restart, BackToTimer, UncordonIsFatal, TaintFails,
           StartupHolding, StartupGetNode, StartupUncordon, StartupLabels, StartupUnmark,
           StartupRelease, StartupTaint, TickNothing, TickRequired, Annotate, Blocked,
           Unblocked, LoopHolding, Acquire, Refused, DrainLabels, Cordon, Evict, EvictFails,
           YieldLock, Retreat, RetreatLabels, Reboot, RebootFails, LabelPanic, MachineRestart,
           PodRestart, SentinelChanges, AdminActs
  <2> QED BY <2>1 DEF KuredInv, TypeOK
<1>3. Listed(m) => Listed(m)'
  BY StaysListed DEF Steady, Certain
<1>4. Account(m)
  BY DEF CordonInv
<1> QED BY <1>1, <1>2, <1>3, <1>4 DEF Account

\* The invariant holds at the start.
LEMMA CordonInit == Init => CordonInv
<1> SUFFICES ASSUME Init PROVE CordonInv
  OBVIOUS
<1>1. locks = <<>> /\ current = {}
  BY DEF Init, LockInit
<1>2. \A n \in Nodes : kube[n].unschedulable = adminCordon[n] /\ pc[n] = "boot"
  BY DEF Init
<1>3. \A n \in Nodes : Account(n)
  BY <1>2 DEF Account, RetreatSteps, TidiedSteps, ClaimSteps
<1> QED BY <1>1, <1>3 DEF CordonInv, MetadataTruthful, DraftsTruthful

\* The invariant is inductive.
LEMMA CordonNext ==
    ASSUME Steady, KuredInv, OnceInv, CordonInv, [Next]_vars
    PROVE  CordonInv'
<1>1. ASSUME NEW n \in Nodes, DaemonStep(n) \/ NodeStep(n)
      PROVE  CordonInv'
  <2>1. \A m \in Nodes : Account(m)'
    BY <1>1, AccountStep, OtherAccounts
  <2>2. MetadataTruthful' /\ DraftsTruthful'
    BY <1>1, TruthfulStep
  <2> QED BY <2>1, <2>2 DEF CordonInv
<1>2. CASE TouchDaemonSet /\ UNCHANGED <<daemonVars, clusterVars>>
  <2>1. /\ UNCHANGED <<locks, draft, adminCordon, kube, pc, copy, recorded>> /\ current' = {}
    BY <1>2 DEF TouchDaemonSet, daemonVars, clusterVars
  <2> QED BY <2>1 DEF CordonInv, MetadataTruthful, DraftsTruthful, Account, Listed, Own
<1>3. CASE UNCHANGED vars
  <2>1. UNCHANGED <<locks, draft, current, adminCordon, kube, pc, copy, recorded>>
    BY <1>3 DEF vars, lockVars, daemonVars, clusterVars
  <2> QED BY <2>1 DEF CordonInv, MetadataTruthful, DraftsTruthful, Account, Listed, Own
<1>4. CASE TimePasses /\ UNCHANGED <<daemonVars, clusterVars>>
  <2>1. UNCHANGED <<locks, draft, current, adminCordon, kube, pc, copy, recorded>>
    BY <1>4 DEF TimePasses, daemonVars, clusterVars
  <2> QED BY <2>1 DEF CordonInv, MetadataTruthful, DraftsTruthful, Account, Listed, Own
<1> QED BY <1>1, <1>2, <1>3, <1>4 DEF Next

\* The entries and the drafts of the lock say what the administrator wants, and
\* every node can tell the cordon it has to remove.
THEOREM CordonInvariant == ASSUME Steady PROVE Spec => []CordonInv
<1>1. KuredInv /\ OnceInv /\ CordonInv /\ [Next]_vars => CordonInv'
  BY CordonNext
<1>2. Spec => []KuredInv /\ []OnceInv
  BY KuredInvariant, OnceInvariant DEF Steady, Certain
<1> QED BY <1>1, <1>2, CordonInit, PTL DEF Spec

-----------------------------------------------------------------------------
(* What the accounts add up to.                                            *)

\* The entry in the lock says of the node what its administrator wants, and never
\* takes kured's own cordon for an earlier one.
THEOREM MetadataIsTruthful == ASSUME Steady PROVE Spec => []MetadataTruthful
<1>1. CordonInv => MetadataTruthful
  BY DEF CordonInv
<1> QED BY <1>1, CordonInvariant, PTL

\* kured never removes the cordon of an administrator.
THEOREM AdminCordonStays == ASSUME Steady PROVE Spec => []AdminCordonKept
<1>1. CordonInv => AdminCordonKept
  BY DEF CordonInv, Account, AdminCordonKept
<1> QED BY <1>1, CordonInvariant, PTL

\* A cordon that no administrator asked for is in the lock, with the metadata that
\* makes the next startup remove it.
THEOREM CordonIsAccounted == ASSUME Steady PROVE Spec => []CordonAccounted
<1>1. ASSUME Steady, OnceInv, CordonInv
      PROVE  CordonAccounted
  <2> SUFFICES ASSUME NEW n \in Nodes, kube[n].unschedulable, ~adminCordon[n]
               PROVE  Listed(n) /\ ~locks[Min(Own(n))].unschedulable
    BY DEF CordonAccounted
  <2>1. Listed(n)
    BY <1>1 DEF CordonInv, Account
  <2>2. PICK i \in DOMAIN locks : locks[i].node = n
    BY <2>1 DEF Listed, Own
  <2>3. Own(n) = {i}
    BY <1>1, <2>2 DEF Own, OnceInv, ListedOnce
  <2>4. Min(Own(n)) = i
    BY <1>1, <2>3 DEF Min
  <2>5. locks[i].unschedulable = adminCordon[n]
    BY <1>1, <2>2 DEF CordonInv, MetadataTruthful
  <2> QED BY <2>1, <2>4, <2>5
<1>2. Spec => []OnceInv
  BY OnceInvariant DEF Steady
<1> QED BY <1>1, <1>2, CordonInvariant, PTL

\* A daemon that gives the lock back at startup has uncordoned its node, unless an
\* administrator wants it cordoned.
THEOREM UncordonsAtRelease == ASSUME Steady PROVE Spec => UncordonedAtRelease
<1> DEFINE Uncordoned == \A n \in Nodes :
              /\ pc[n] = "releasing" /\ pc'[n] = "start"
              /\ kube[n].unschedulable
              => adminCordon[n]
<1>1. CordonInv => Uncordoned
  BY DEF CordonInv, Account, TidiedSteps
<1>2. UncordonedAtRelease <=> [][Uncordoned]_vars
  BY DEF UncordonedAtRelease
<1> HIDE DEF Uncordoned
<1> QED BY <1>1, <1>2, CordonInvariant, PTL

\* The startup loop is left through Release only by a node that has no entry in the
\* lock any more.
THEOREM ReleaseFrees == ASSUME Certain PROVE Spec => ReleaseFreesSlot
<1> DEFINE Freed == \A n \in Nodes :
              pc[n] \in {"release", "releasing"} /\ pc'[n] = "start" => ~Listed(n)'
<1>1. ASSUME KuredInv, OnceInv, Next, NEW n \in Nodes, pc[n] \in {"release", "releasing"}, pc'[n] = "start"
      PROVE  ~Listed(n)'
  <2>0. DaemonTypeOK
    BY <1>1 DEF KuredInv, TypeOK
  <2>1. DaemonStep(n) \/ NodeStep(n)
    <3>1. PICK m \in Nodes : DaemonStep(m) \/ NodeStep(m)
      BY <1>1 DEF Next, daemonVars
    <3> QED BY <1>1, <2>0, <3>1, OtherNodes
  <2>2. \A step : Goto(n, step) => step = "start"
    BY <1>1, <2>0, Fields
  <2>3. pc'[n] # pc[n]
    BY <1>1
  <2>4. pc[n] = "releasing" /\ UpdateDone(n)
    BY <1>1, <2>1, <2>2, <2>3
    DEF DaemonStep, NodeStep, daemonVars, Restart, StartupHolding, StartupGetNode,
        StartupUncordon, StartupLabels, StartupUnmark, StartupRelease, StartupTaint,
        TickNothing, TickRequired, Annotate, Blocked, Unblocked, LoopHolding, Acquire, Refused,
        DrainLabels, Cordon, Evict, EvictFails, YieldLock, Retreat, RetreatLabels, Reboot,
        RebootFails, LabelPanic, MachineRestart, PodRestart, SentinelChanges, AdminActs
  <2>5. ClientState(pc[n]) = "released"
    BY <2>4, ClientStateTable
  <2> QED BY <1>1, <2>4, <2>5, WriteOnce
<1>2. KuredInv /\ OnceInv /\ [Next]_vars => [Freed]_vars
  BY <1>1
<1>3. ReleaseFreesSlot <=> [][Freed]_vars
  BY DEF ReleaseFreesSlot
<1>4. Spec => []KuredInv /\ []OnceInv
  BY KuredInvariant, OnceInvariant DEF Certain
<1> HIDE DEF Freed
<1> QED BY <1>2, <1>3, <1>4, PTL DEF Spec

-----------------------------------------------------------------------------
(* The mark of a reboot in progress.                                       *)

\* No TTL, no restart between the reboot command and the reboot, and no sentinel
\* that disappears without one.
Undisturbed == TTL = 0 /\ "crash" \notin Events /\ "cancel" \notin Events

\* From the check of the sentinel until the reboot is under way or given up.
RequiredSteps == {"annotate", "blockers", "holding", "acquire", "acquiring", "prelabel",
                  "cordon", "evict", "reboot", "waiting", "yield", "yielding"}

\* Why a node carries the mark, and what its daemon knows of that.
Mark(n) ==
    /\ kube[n].inProgress => AnnotateNodes /\ (host[n].required \/ Listed(n))
    /\ pc[n] = "annotate" => AnnotateNodes
    /\ pc[n] \in RequiredSteps => host[n].required
    /\ pc[n] \in {"uncordon", "postlabel", "unmark"} => copy[n].inProgress = kube[n].inProgress
    /\ pc[n] \in {"release", "releasing"} => ~kube[n].inProgress \/ host[n].required

MarksInv == \A n \in Nodes : Mark(n)

\* Only a machine that comes back loses its sentinel, and it is still in the lock.
LEMMA SentinelStays ==
    ASSUME Undisturbed, KuredInv, NodesInv, NEW n \in Nodes, DaemonStep(n) \/ NodeStep(n)
    PROVE  /\ MachineRestart(n) => Listed(n)
           /\ host[n].required /\ ~MachineRestart(n) => host'[n].required
<1>1. host \in [Nodes -> Machine] /\ host[n] \in Machine
  BY DEF KuredInv, TypeOK, DaemonTypeOK
<1>2. ASSUME MachineRestart(n) PROVE Listed(n)
  <2>1. pc[n] = "waiting"
    BY <1>2 DEF MachineRestart, NodesInv, NodeInv, Waits, Undisturbed
  <2> QED BY <2>1, ClientStateTable
      DEF HoldingSteps, KuredInv, Client!LockInv, Client!HeldIsListed, Client!Holders,
          Client!Listed, Client!Own, Listed, Own, Undisturbed
<1>3. ASSUME host[n].required, ~MachineRestart(n) PROVE host'[n].required
  <2>1. CASE UNCHANGED host
    BY <1>3, <2>1
  <2>2. CASE Reboot(n)
    <3>1. \A m \in Machine : [m EXCEPT !.stopping = TRUE].required = m.required
      BY DEF Machine
    <3> QED BY <1>1, <1>3, <2>2, <3>1 DEF Reboot
  <2>3. ~SentinelChanges(n)
    BY <1>3 DEF SentinelChanges, Undisturbed
  <2> QED BY <1>3, <2>1, <2>2, <2>3, StepShapes DEF Shapes, HostStep
<1> QED BY <1>2, <1>3

\* The step of a node keeps the account of its mark.
LEMMA MarkStep ==
    ASSUME Undisturbed, KuredInv, NodesInv, MarksInv, NEW n \in Nodes,
           DaemonStep(n) \/ NodeStep(n)
    PROVE  Mark(n)'
<1> USE DEF RequiredSteps
<1> DEFINE P == kube[n].inProgress
           R == host[n].required
<1>0. /\ DaemonTypeOK /\ Mark(n)
      /\ P \in BOOLEAN /\ R \in BOOLEAN /\ copy[n].inProgress \in BOOLEAN
  <2>1. /\ DaemonTypeOK /\ Mark(n)
        /\ kube[n] \in NodeObject /\ copy[n] \in NodeCopy /\ host[n] \in Machine
    BY DEF KuredInv, TypeOK, DaemonTypeOK, MarksInv
  <2>2. /\ \A k \in NodeObject : k.inProgress \in BOOLEAN
        /\ \A k \in NodeCopy : k.inProgress \in BOOLEAN
        /\ \A m \in Machine : m.required \in BOOLEAN
    BY DEF NodeObject, NodeCopy, Machine
  <2> QED BY <2>1, <2>2
<1>1. pc[n] \notin {"releasing", "yielding"} /\ Listed(n) => Listed(n)'
  BY StaysListed DEF Undisturbed
<1>2. /\ MachineRestart(n) => Listed(n)
      /\ R /\ ~MachineRestart(n) => R'
  BY SentinelStays
\* Where nothing is asked of the step that comes next.
<1>a. ASSUME P' = P \/ ~P', (Listed(n) => Listed(n)') \/ R \/ ~P, ~MachineRestart(n),
             pc'[n] \notin RequiredSteps \union {"uncordon", "postlabel", "unmark", "release", "releasing"}
      PROVE  Mark(n)'
  BY <1>a, <1>0, <1>2 DEF Mark
\* Steps of a pass.
<1>b. ASSUME P' = P, Listed(n) => Listed(n)', ~MachineRestart(n), pc[n] \in RequiredSteps,
             pc'[n] \in RequiredSteps \ {"annotate"}
      PROVE  Mark(n)'
  BY <1>b, <1>0, <1>2 DEF Mark
<1>r. Restart(n) => pc'[n] = "boot"
  BY <1>0, Fields DEF Restart
<1>t. BackToTimer(n) => pc'[n] = "idle"
  BY <1>0, Fields DEF BackToTimer
<1>k. UNCHANGED kube => P' = P
  OBVIOUS
<1>p. \A step : Goto(n, step) => pc'[n] = step
  BY <1>0, Fields
<1>w. /\ \A v : SetInProgress(n, v) => P' = v
      /\ \A v : SetCordon(n, v) \/ SetTaint(n, v) \/ UpdateLabels(n, v) => P' = P
  BY <1>0, Fields
<1>m. MachineRestart(n) => Mark(n)'
  <2> SUFFICES ASSUME MachineRestart(n) PROVE Mark(n)'
    OBVIOUS
  <2>1. P' = P /\ pc'[n] = "boot" /\ UNCHANGED locks /\ Listed(n)
    BY <1>2, <1>k, <1>r DEF MachineRestart, Forget
  <2>2. Listed(n)'
    BY <2>1 DEF Listed, Own
  <2> QED BY <1>0, <2>1, <2>2 DEF Mark
<1> SUFFICES ASSUME ~MachineRestart(n) PROVE Mark(n)'
  BY <1>m
<1> HIDE DEF P, R
<1>3. CASE StartupHolding(n)
  <2>1. pc[n] = "boot" /\ P' = P /\ pc'[n] \in {"adopt", "start"}
    BY <1>3, <1>k, <1>p DEF StartupHolding, clusterVars
  <2> QED BY <1>1, <1>a, <2>1
<1>4. CASE StartupGetNode(n)
  <2>1. pc[n] = "adopt" /\ P' = P /\ UNCHANGED kube
    BY <1>4, <1>k DEF StartupGetNode, clusterVars
  <2>2. CASE Restart(n)
    BY <1>1, <1>a, <1>r, <2>1, <2>2
  <2>3. CASE ReadNode(n) /\ Goto(n, IF recorded[n] THEN "unmark" ELSE "uncordon")
    <3>1. copy'[n].inProgress = P' /\ pc'[n] \in {"unmark", "uncordon"}
      BY <1>0, <1>p, <2>1, <2>3, Fields DEF P
    <3> QED BY <1>0, <1>1, <1>2, <2>1, <3>1 DEF Mark, P, R
  <2> QED BY <1>4, <2>2, <2>3 DEF StartupGetNode
<1>5. CASE StartupUncordon(n)
  <2>1. pc[n] = "uncordon" /\ P' = P
    BY <1>5, <1>k, <1>w DEF StartupUncordon, UncordonSucceeds, UncordonIsFatal
  <2>2. CASE UncordonIsFatal(n)
    BY <1>1, <1>a, <1>r, <2>1, <2>2 DEF UncordonIsFatal
  <2>3. CASE Goto(n, IF UseLabels THEN "postlabel" ELSE "unmark") /\ UNCHANGED <<copy, recorded>>
    <3>1. pc'[n] \in {"postlabel", "unmark"}
      BY <1>p, <2>3
    <3> QED BY <1>0, <1>1, <1>2, <2>1, <2>3, <3>1 DEF Mark, P, R
  <2> QED BY <1>5, <2>2, <2>3 DEF StartupUncordon
<1>6. CASE StartupLabels(n)
  <2>1. pc[n] = "postlabel" /\ P' = P /\ pc'[n] = "unmark" /\ UNCHANGED copy
    BY <1>6, <1>p, <1>w DEF StartupLabels
  <2> QED BY <1>0, <1>1, <1>2, <2>1 DEF Mark, P, R
<1>7. CASE StartupUnmark(n)
  <2>1. pc[n] = "unmark" /\ copy[n].inProgress = P /\ (P' = P \/ ~P')
    BY <1>0, <1>7, <1>k, <1>w DEF StartupUnmark, Mark, P
  <2>2. CASE Restart(n)
    BY <1>1, <1>a, <1>r, <2>1, <2>2
  <2>3. CASE Goto(n, "release") /\ (~P' \/ R \/ ~AnnotateNodes)
    <3>1. pc'[n] = "release" /\ (~P' \/ R)
      BY <1>0, <1>p, <2>1, <2>3 DEF Mark, P
    <3> QED BY <1>0, <1>1, <1>2, <2>1, <3>1 DEF Mark, P, R
  <2>4. \/ Restart(n)
        \/ Goto(n, "release") /\ (~P' \/ R \/ ~AnnotateNodes)
    <3>1. SetInProgress(n, FALSE) => ~P'
      BY <1>w
    <3> QED BY <1>7, <1>k, <2>1, <3>1 DEF StartupUnmark, R
  <2> QED BY <2>2, <2>3, <2>4
<1>8. CASE StartupRelease(n)
  <2>1. pc[n] \in {"release", "releasing"} /\ P' = P /\ (~P \/ R)
    BY <1>0, <1>7, <1>k, <1>8 DEF StartupRelease, clusterVars, Mark, P, R
  <2>2. pc'[n] \in {"releasing", "boot", "start", "release"}
    BY <1>p, <1>8 DEF StartupRelease
  <2> QED BY <1>0, <1>2, <2>1, <2>2 DEF Mark, P, R
<1>9. CASE StartupTaint(n) \/ TickNothing(n) \/ Refused(n)
  <2>1. /\ pc[n] \in {"start", "idle", "refused"} /\ P' = P
        /\ BackToTimer(n) \/ Restart(n)
    BY <1>k, <1>w, <1>9 DEF StartupTaint, TickNothing, Refused, TaintFails
  <2> QED BY <1>1, <1>a, <1>r, <1>t, <2>1
<1>10. CASE TickRequired(n)
  <2>1. pc[n] = "idle" /\ P' = P /\ R
    BY <1>k, <1>10 DEF TickRequired, clusterVars, R
  <2>2. CASE Restart(n)
    BY <1>1, <1>a, <1>r, <2>1, <2>2
  <2>3. CASE Goto(n, IF AnnotateNodes /\ ~kube[n].inProgress THEN "annotate" ELSE "blockers")
    <3>1. (pc'[n] = "annotate" /\ AnnotateNodes) \/ pc'[n] = "blockers"
      BY <1>p, <2>3
    <3> QED BY <1>0, <1>1, <1>2, <2>1, <3>1 DEF Mark, P, R
  <2> QED BY <1>10, <2>2, <2>3 DEF TickRequired
<1>11. CASE Annotate(n)
  <2>1. /\ pc[n] = "annotate" /\ R /\ AnnotateNodes
        /\ pc'[n] \in {"idle", "blockers"}
    BY <1>0, <1>p, <1>t, <1>11 DEF Annotate, Mark, R
  <2> QED BY <1>0, <1>2, <2>1 DEF Mark, R
<1>12. CASE Blocked(n)
  BY <1>1, <1>a, <1>k, <1>t, <1>12 DEF Blocked, clusterVars
<1>13. CASE Unblocked(n) \/ LoopHolding(n) \/ Acquire(n)
  <2>1. /\ P' = P /\ pc[n] \in {"blockers", "holding", "acquire", "acquiring"}
        /\ pc'[n] \in {"holding", "acquire", "acquiring", "refused", "prelabel", "cordon"}
    BY <1>k, <1>p, <1>13 DEF Unblocked, LoopHolding, Acquire, FirstDrainStep, clusterVars
  <2> QED BY <1>1, <1>a, <1>b, <2>1
<1>14. CASE DrainLabels(n) \/ Cordon(n) \/ Evict(n) \/ EvictFails(n) \/ Reboot(n)
  <2>1. /\ P' = P /\ pc[n] \in {"prelabel", "cordon", "evict", "reboot"}
        /\ pc'[n] \in {"cordon", "evict", "reboot", "yield", "waiting"}
    BY <1>k, <1>p, <1>w, <1>14
    DEF DrainLabels, Cordon, Evict, EvictFails, Reboot, AfterDrainError, clusterVars
  <2> QED BY <1>1, <1>b, <2>1
<1>15. CASE YieldLock(n)
  <2>1. /\ P' = P /\ pc[n] \in {"yield", "yielding"} /\ R
        /\ pc'[n] \in {"yield", "yielding", "retreat"}
    BY <1>0, <1>k, <1>p, <1>15 DEF YieldLock, clusterVars, Mark, R
  <2> QED BY <1>0, <1>2, <2>1 DEF Mark, P, R
<1>16. CASE Retreat(n) \/ RetreatLabels(n)
  <2>1. /\ P' = P /\ pc[n] \in {"retreat", "relabel"} /\ pc'[n] \in {"relabel", "idle", "boot"}
    BY <1>k, <1>p, <1>r, <1>t, <1>w, <1>16
    DEF Retreat, RetreatLabels, UncordonSucceeds, UncordonIsFatal
  <2> QED BY <1>1, <1>a, <2>1
<1>17. CASE RebootFails(n) \/ LabelPanic(n)
  <2>1. /\ P' = P /\ pc[n] \in {"reboot", "postlabel", "prelabel", "relabel"}
        /\ pc'[n] = "boot"
    BY <1>k, <1>r, <1>17 DEF RebootFails, LabelPanic, clusterVars
  <2> QED BY <1>1, <1>a, <2>1
<1>18. ~PodRestart(n)
  BY DEF PodRestart, Undisturbed
<1>19. CASE SentinelChanges(n)
  <2>1. UNCHANGED <<pc, copy, kube, locks>>
    BY <1>19 DEF SentinelChanges, daemonVars, lockVars
  <2> QED BY <1>0, <1>2, <2>1 DEF Mark, P, R, Listed, Own
<1>20. CASE AdminActs(n)
  <2>1. UNCHANGED <<pc, copy, host, locks>> /\ P' = P
    BY <1>20, <1>w DEF AdminActs, daemonVars, lockVars
  <2> QED BY <1>0, <1>2, <2>1 DEF Mark, P, R, Listed, Own
<1> QED BY <1>3, <1>4, <1>5, <1>6, <1>7, <1>8, <1>9, <1>10, <1>11, <1>12, <1>13, <1>14,
           <1>15, <1>16, <1>17, <1>18, <1>19, <1>20 DEF DaemonStep, NodeStep

\* The marks are accounted for at the start and after every step.
LEMMA MarksNext ==
    ASSUME Undisturbed, KuredInv, NodesInv, MarksInv, [Next]_vars
    PROVE  MarksInv'
<1>1. ASSUME NEW n \in Nodes, DaemonStep(n) \/ NodeStep(n)
      PROVE  MarksInv'
  <2> SUFFICES ASSUME NEW m \in Nodes, m # n PROVE Mark(m)'
    BY <1>1, MarkStep DEF MarksInv
  <2>1. pc'[m] = pc[m] /\ copy'[m] = copy[m] /\ kube'[m] = kube[m] /\ host'[m] = host[m]
    BY <1>1, OtherNodes DEF KuredInv, TypeOK
  <2>2. Listed(m) => Listed(m)'
    BY <1>1, StaysListed DEF Undisturbed
  <2> QED BY <2>1, <2>2 DEF MarksInv, Mark
<1>2. CASE (TouchDaemonSet \/ TimePasses) /\ UNCHANGED <<daemonVars, clusterVars>>
  <2>1. UNCHANGED <<locks, kube, host, pc, copy>>
    BY <1>2 DEF TouchDaemonSet, TimePasses, daemonVars, clusterVars
  <2> QED BY <2>1 DEF MarksInv, Mark, Listed, Own
<1>3. CASE UNCHANGED vars
  <2>1. UNCHANGED <<locks, kube, host, pc, copy>>
    BY <1>3 DEF vars, lockVars, daemonVars, clusterVars
  <2> QED BY <2>1 DEF MarksInv, Mark, Listed, Own
<1> QED BY <1>1, <1>2, <1>3 DEF Next

\* A node that carries the mark still needs its reboot, or is in the lock, where
\* the daemon that starts next will find it and remove the mark.
THEOREM MarkIsAccounted == ASSUME Undisturbed PROVE Spec => []MarkAccounted
<1>1. Init => MarksInv
  BY DEF Init, MarksInv, Mark, RequiredSteps
<1>2. KuredInv /\ NodesInv /\ MarksInv /\ [Next]_vars => MarksInv'
  BY MarksNext
<1>3. MarksInv => MarkAccounted
  BY DEF MarksInv, Mark, MarkAccounted
<1>4. Spec => []KuredInv
  BY KuredInvariant DEF Undisturbed
<1> QED BY <1>1, <1>2, <1>3, <1>4, NodesInvariant, PTL DEF Spec
=============================================================================
