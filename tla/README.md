# kured in TLA+

Models, model-checking runs and machine-checked proofs for kured, the Kubernetes
reboot daemon. Paths below are relative to the root of the repository.

kured runs one pod per node (a DaemonSet). Each pod watches its machine for a
reboot sentinel; when a reboot is required, the window is open and nothing blocks
it, the pod takes a cluster-wide lock, cordons and drains its node, reboots the
machine, and after the reboot undoes what it did and gives the lock back. The
only memory that survives a reboot is what is in the API server: the lock (one
annotation of kured's DaemonSet) and the Node object.

## 1. Inventory

| part | source | state | operations |
|---|---|---|---|
| reboot lock | `pkg/daemonsetlock` | the lock annotation; the copy of the DaemonSet a call works on | `Acquire`, `Release`, `Holding` of a single and a multiple variant; `GetDaemonSet` (poll until timeout); `ttlExpired`, `canAcquireMultiple` |
| reboot daemon | `cmd/kured/main.go` 567-727 | program counter, the Node object read in this pass, the lock entry found at startup | startup loop, main loop |
| cordon, drain, uncordon, labels | `main.go` 418-480, 537-565 | `spec.unschedulable`, node labels | `drain`, `uncordon`, `updateNodeLabels` |
| node annotations | `main.go` 493-535 | `kured-reboot-in-progress` | `addNodeAnnotations`, `deleteNodeAnnotation` |
| taint | `pkg/taints` | `exists` flag, `spec.taints` | `New`, `Enable`, `Disable`, `preferNoSchedule` |
| time window | `pkg/timewindow` | none (pure) | `New`, `Contains`, weekday sets |
| ticks | `pkg/delaytick` | a goroutine and an unbuffered channel | `New` |
| blockers | `pkg/blockers` | none | `RebootBlocked`, `IsBlocked`, `ActiveAlerts` |
| checkers, rebooters | `pkg/checkers`, `pkg/reboot` | the host | `RebootRequired`, `Reboot` |
| configuration | `main.go` 116-416, `pflags.go`, `internal/validators.go` | flags | parsing and validation, once |
| metrics, notifications | `main.go` 482-491 and the `shoutrrr.Send` calls | a gauge | none that feeds back |

How they interact: the daemons never talk to each other. They share the DaemonSet
(read, then an `Update` that the API server refuses with a conflict if anybody wrote
in between) and each writes its own Node object, which administrators and the
cluster write too. Within a pod one goroutine runs `rebootAsRequired`; the metrics
goroutine only reads.

What is hard here:

* reads and conditional writes of several nodes interleave, conflicts are retried,
  and an `Update` may take effect although its answer is an error;
* a pod or a machine may stop at any step, and its successor has only the lock
  entry and the Node to tell what to undo;
* the Node is read once per pass and used several calls later;
* errors are handled in four ways: retried, logged and ignored, treated as "no",
  and fatal (`log.Fatalf`, after which the kubelet starts the pod again);
* lock entries may expire while their owner still acts;
* nodes compete for the lock, and each must get its turn.

What makes each part correct:

* lock: at most `--concurrency` nodes act on it; the entry of a node that acts is
  never dropped by another; a restart costs no slot; Release frees the slot;
* daemon: every cordon it places is accounted for until it is removed; cordons of
  administrators stay; machines go down cordoned, and only within the lock; every
  required reboot happens, and in the end nothing of kured is left on the node;
* taint: the own taint is added and removed without touching another, whoever writes
  the list of taints at the same time;
* time window: a reboot is attempted only in a pass that started inside the window, and
  no tick inside the window is turned away;
* ticks: they keep their rhythm however long the passes take, and passes without a pause
  between them are few;
* blockers: what objected all along is never missed between two queries, and an error
  always blocks;
* a rollout that changes `--concurrency`: each of the two lock formats still bounds its
  own holders.

## 2. Modules

| module | what it is |
|---|---|
| `LockAnnotation` | the annotation, and every step of `pkg/daemonsetlock` on it |
| `LockClients` | any number of nodes that use the lock in any order, crash, and race |
| `RebootSlots` | the abstract promise of the lock: slots that are granted, used and returned |
| `LockRollout` | pods of the single and of the multiple lock, with different clocks, on one annotation |
| `Kured` | the daemon, the Node objects, the machines and the administrators, on top of `LockAnnotation` |
| `Taints` | `pkg/taints` with its JSON patches, against other writers of the Node |
| `TaintSwitch` | the abstract promise of `Taints`, which is what `Kured` uses: a switch |
| `TimeWindow`, `Blockers` | the pure part of `pkg/timewindow` and `pkg/blockers`, with what the flags say |
| `Schedule` | the goroutine of `pkg/delaytick`, and the pass of the main loop up to the lock |
| `Sublists` | what a loop keeps of a list |
| `SequenceFacts` | lemmas about sequences and sublists |
| `LockClientsProofs` | theorems about `LockClients`, without and with a TTL |
| `LockRolloutProofs` | theorems about `LockRollout` |
| `KuredProofs`, `KuredNodeProofs`, `KuredCordonProofs` | theorems about `Kured`: the lock, each node by itself, cordons and marks |
| `TaintsProofs`, `ScheduleProofs` | theorems about `Taints` and `Schedule` |
| `MCLockClients`, `MCLockRollout`, `MCKured`, `MCTaints`, `MCSchedule` | what TLC checks, with the `.cfg` files |

`Kured` extends `LockAnnotation`, so both clients of the lock use the same steps;
`Kured` is shown to be a `LockClients` client (`ClientSpec`), and `LockClients` to
implement `RebootSlots` (`SlotsSpec`). `LockRollout` instantiates `LockAnnotation` once
for each pod, with the annotation as that pod decodes it. `Taints` is shown to implement
`TaintSwitch` (`SwitchSpec`). In `Kured` the window, the sentinel command and the
blockers are choices (`TickNothing`, `Blocked`); `Schedule` says when they are made, and
its "attempt" is all that `Kured` does after them.

### The lock

A call of `Acquire` or `Release` is two steps: `GetDaemonSet` with the decision
(`AcquireDraft`, `AcquireOwned`, `AcquireRefused`, `ReleaseDraft`, `ReleaseRefused`),
and the `Update` (`UpdateDone`, `UpdateConflict`, `UpdateFails`). Any step of any
other node may come between. `draft[n]` is the annotation that `n` is about to
write. The resource version is kept as the set `current` of nodes whose copy is
still the latest: a read adds the reader, every write empties the set, and so does
`TouchDaemonSet`, a write by somebody else (the DaemonSet controller). `UpdateFails`
is any other error, with the write applied or not. `Holding` is one read; an error
of it is logged by its callers, who go on with `false` (`HoldingSays`).

The annotation is a sequence of entries. The single lock is the case of at most one
entry, with its own rules (a live entry settles `Acquire`; `Release` looks only at
the owner). Both variants are modelled by their own operators and chosen by
`MultiLock`, as `New` does. What the loops of the multiple lock keep of the list, those
that have not expired or all but the own one, is a `Sublist`, an operator with a plain
definition: the prover knows nothing of `SelectSeq`, and cannot instantiate a module
that takes `RemoveAt` from the library with other parameters, as `LockRollout` does. `TtlExpired` compares with a global clock; only in
`LockRollout` do the pods' clocks differ.

### The daemon

`pc[n]` names the call that the goroutine of node `n` makes next; one action is the
code from one call of the API server or the host to the next. `copy[n]` is the Node
object read in this pass, reset when the code cannot use it any more; `recorded[n]`
is the bit of the lock entry that startup found. `kube[n]` is what the API server
holds of the Node, `host[n]` the machine (its sentinel, and whether the reboot
command was issued), `adminCordon[n]` what the administrator wants.

| code | actions |
|---|---|
| startup loop, `main.go` 571-617 | `StartupHolding`, `StartupGetNode`, `StartupUncordon`, `StartupLabels`, `StartupUnmark`, `StartupRelease` |
| `taints.New` and first `Disable`, 619-624 | `StartupTaint` |
| window, sentinel, `Nodes().Get`, 628-646 | `TickNothing`, `TickRequired` |
| annotation, blockers, 648-668 | `Annotate`, `Blocked`, `Unblocked` |
| lock, 671-686 | `LoopHolding`, `Acquire`, `Refused` |
| `drain`, 689 | `DrainLabels`, `Cordon`, `Evict`, `EvictFails` |
| failed drain, 690-702 | `YieldLock`, `Retreat`, `RetreatLabels` |
| reboot, 706-725 | `Reboot`, `RebootFails` |

The annotation (`Annotate`) is patched with the whole Node as `addNodeAnnotations` has
just read it, its resource version included, so that any other writer of the Node in
between makes the patch fail, without an outage: the pass then ends like one whose call
failed (658).

External: the kubectl drain helper (`RunCordonOrUncordon` sends nothing when the copy
it is given is already as wanted, and marks the copy otherwise), the kubelet
(`PodRestart`, `Restart`), the machine (`MachineRestart`), whoever creates and removes
the sentinel (`SentinelChanges`), administrators (`AdminActs`).

`Events` names what may go wrong in a run: failing calls of the API server (`"api"`),
restarts (`"crash"`), failing drains and reboot commands, label flags without `=`
(`"badlabel"`: `updateNodeLabels` takes the second half of the split and panics, inside
`drain` or `uncordon`), reboots that leave the sentinel, new updates, sentinels that
disappear, and administrators.

What the data abstraction leaves out: delays (every step may take any time), messages,
the most-recent-reboot-needed annotation, names and values of labels, and the pods
themselves.

### Rollouts

`LockRollout` keeps the format of the annotation (`none`, `single`, `multi`) beside its
entries. `json.Unmarshal` ignores fields it does not know, so the multiple lock decodes
the value of a single one as an empty list and overwrites it, and the single lock decodes
a list as an entry of nobody, without a TTL, which it never takes (`Decode`,
`DecodedTTL`; `LockExpires` states what `--lock-ttl` says, and `expired_list` refutes it).
The decisions on what was decoded are those of `LockAnnotation`.
`Offset[n]` is how far the clock of `n` is ahead; `lease[n]` is the true time at which
the entry that the pod of `n` relies on was written. A restart may change
`concurrency[n]`.

Calls fail as in `Kured`, and may always fail here. An error of `Holding` counts as "no", so
that `Ask` may claim a slot for a node that has one, which the multiple lock then records
twice, while the single lock's `Acquire` is settled by its own live entry. An error of the
read in `Release` ends it (`GiveBack`), and an error of an `Update` that is not a conflict
ends the call, with the write applied or not (`UpdateFails`): after such an `Acquire` the
node is listed, and its pod does not know.

### Taints

`preferNoSchedule` is two steps: the read of the Node with the choice of the patch, and
the patch. A patch is what kind it is (create the list, append, remove at an offset)
with what its `test` operations compare: all of `/spec` for the first, the offset for
the last. Between the two steps other clients add and remove taints and write the rest of
the spec. They may add a taint of kured's key with another effect, which `taintExists`
takes for kured's own, and remove kured's. They do not add kured's own taint: a client that
writes back a whole list which it had read before kured removed its taint would leave it
on a node whose kured believes it gone, and `Disable` then returns without looking
(`SkippedDisableIsRight` is false then). Every error ends the process.

### Schedule

An instant is half a unit of the schedule: the first moment of the unit or its last
nanosecond, because `TimeWindow` compares a start without and an end with a fraction of
a second. A day has `DayUnits` units, and one day per behaviour may be longer or shorter;
what `time.Date` answers for a wall clock time that occurs twice or never is any of the
two (`Date`). `Contains` is the code; `InWindow` is what the help texts of
`--reboot-days`, `--start-time` and `--end-time` say, on the wall clock.

The goroutine of `delaytick.New` is `sender`: asleep for the random delay, then with the
first tick in its hand, then ranging over the ticker, whose channel holds one tick
(`buffer`) and drops what does not fit; the channel of the loop holds none, so a tick is
in the goroutine's hand until the loop receives it (`Receive`). A goroutine that can run
does so before time passes; calls of the loop take any time. A fatal error or the reboot
starts a new process with a new channel (`Restart`).

`RebootBlocked` asks one blocker after the other and stops at the first that blocks
(`AskBlocker`); between two queries alerts and pods come and go, and the servers stop
answering (`WorldChanges`). `objections` holds what has objected at every moment since
the pass started, by what the flags say (`Objects`), not by the code.

## 3. Runs

Passing runs (all with deadlock checked):

| run | question |
|---|---|
| `lock_clients` | three nodes on the single lock, lost answers, conflicts, crashes at any step: exclusion, the inductive invariant `LockInv`, and that the lock implements `RebootSlots` |
| `kured_force` | single lock, `--force-reboot`, annotations, taint and labels on, every failure and a label flag that panics, nodes cordoned by administrators before: the daemon is a client of the lock, one node is disrupted at a time, cordons change only under the lock, are accounted for and restored, metadata is truthful, slots are freed |
| `kured_retreat` | without `--force-reboot`, every failure except a restarted pod: one machine at a time goes down, cordoned, and no annotation outlives its reason |
| `kured_multi` | two daemons on two slots that expire, failing calls, lost answers that record a node twice, sentinels that disappear, administrators at any time: no live entry of another is dropped, no entry too many |
| `kured_live` | drains that fail for a while: every reboot happens, every cordon is accounted for, and in the end everything is as it was |
| `lock_rollout` | three pods that run `--concurrency` 1 or 2 and change it at restarts, a TTL, one clock ahead, failing calls and lost answers: the holders of each format are bounded, the list is no longer than the larger `--concurrency`, and young entries are kept |
| `taints` | kured's taint among three others and one of its own key, with other writers at any moment and failing calls: foreign taints are untouched, there is one taint of kured at most, and the switch is implemented |
| `schedule` | every window on days of the usual length, longer and shorter ones, and every setting of the alert filters with two selectors: rhythm, bursts, window and blockers |

Bounds. Two nodes are enough for two daemons to race and for one to see the other's
entry; in `lock_clients` a third waits while two race. A drain, an API call or a reboot
may fail any number of times: no failure is counted. In `kured_multi` the TTL is one unit
of a clock that moves once, so that entries written before expire and those written
after do not; duplicates of one node arise from lost answers. In `lock_rollout` an entry
can be young, of an age at which only the clock that is ahead takes it for expired, and
expired for all (TTL 3, skew 1, clock up to 4); `expired_list` needs a TTL of 1 only.
`MaxTaints` is 4: the list is empty,
holds one taint, or several on either side of kured's. A day of six units has windows
that are empty but for one unit, that wrap midnight, and that do not; six days pass, with
the changed one and the days on both sides of it inside; a period of four instants lets
passes last several periods. The blockers' family of `schedule` needs no time, only
order, and ends at instant 3. `kured_force`, `kured_multi` and `lock_rollout` use the
symmetry of nodes that have equal clocks, and `taints` that of the other clients'
taints; `kured_live`, which checks liveness, uses none.

Fairness (`LiveSpec`). Each daemon keeps running and a machine that is going down
comes back (weak fairness per node: the goroutine is never blocked for ever by
another). Strong fairness says that a tick falls into the window again and again
(`TickRequired`: the ticker of `delaytick` never stops, which `Rhythm` shows), that
blockers are not there at every pass (`Unblocked`), that a node can be drained in the end
(`Evict`), that the patch of the annotation is not refused with a conflict at every pass
(`Annotate`: it carries the resource version of a Node that was read one call before, while
the kubelet writes it every few seconds at most), and that an `Update` is not refused with a conflict for ever
(`DaemonStep /\ UpdateDone`: the other writers of the DaemonSet are the controller and the
other daemons, who write only a few times per reboot, while the loop retries every
second). `Acquire` itself gets no fairness: that every node gets the lock follows from
these.

Runs that refute a statement of the docs, comments or tests:

| run | what happens |
|---|---|
| `drained_cordon` | a failed drain uncordons a node that an administrator had cordoned (`main.go` 698 does not look at `nodeMeta`) |
| `two_reboots` | a pod restarted between the reboot command and the shutdown frees the lock, and a second node reboots |
| `leaked_lock` | an error of the first `Holding` (573) ends the startup loop: the node stays cordoned, and the lock held (with `--force-reboot`, so that no retreat is involved, and without a TTL, so that nothing expires) |
| `expired_list` | `--lock-ttl`, "expire lock annotation after this duration" (`main.go` 149): a list whose entries are all older than the TTL, by every clock, still keeps the single lock from a pod, which decodes it to an entry of nobody that has no TTL (`daemonsetlock.go` 148-154) |

More behaviours show in the models, without a run of their own, since nothing in the
repository says otherwise or since a passing property states the exception:

* a TTL that runs out during the reboot leaves the node cordoned (`UncordonedAfter` under
  `LiveSpec` fails with `TTL = 1` and `MaxNow = 1`), because the startup's `Holding` does
  not accept the expired entry;
* a lost answer of `Acquire` followed by a failing `Holding` records a node twice in the
  multiple lock, and `Release` drops one of the two (`ReleaseFreesSlot` fails with
  `Concurrency = 2` and `"api"`);
* a pod restarted between the `Release` of a failed drain (693) and the `uncordon` (698)
  leaves a cordon that nothing accounts for; the next pass records it as an earlier one, and
  nobody removes it after the reboot (`CordonAccounted`, `MetadataTruthful` and
  `UncordonedAtRelease` fail with `"drain"` and `"crash"` and without `--force-reboot`; an
  `uncordon` that fails, which is fatal, in place of the restart does the same);
* while an administrator is at work during a pass, the metadata of the lock is that of the
  Node as it was read (641), and the startup then removes a cordon placed since
  (`MetadataTruthful` and `AdminCordonKept` fail with `"admin"`);
* a node uncordoned by an administrator after it was read (641) is drained without being
  cordoned, since the helper sends nothing for a copy that is cordoned;
* a sentinel that disappears between the annotation (654) and the lock leaves the
  annotation for ever (`MarkAccounted` with `"cancel"`);
* the window is looked at when a pass starts (629), and nothing bounds the time at which
  the reboot command is run;
* on a day of more than 24 hours a wrapped window ends early, and in the last nanosecond
  of `--end-time` a wrapped window is compared with the wrong start: `WindowNotMissed`
  names both exceptions;
* while `--concurrency` changes from 1 to more, the two formats have holders side by side,
  one more than either allows (`HoldersBounded` counts them apart).

The passing runs state what holds beside these: `kured_force` allows restarts because
with `--force-reboot` the retreat is never taken, and so says nothing of the retreat,
which is in `kured_retreat`, `kured_live` and `drained_cordon`; it has no administrator at
work while kured is; `kured_retreat` has no restarts because of `two_reboots`; `MutualExclusion` and `DisruptionBounded` are about a lock without
TTL because an expired entry is meant to be given away.

## 4. Proofs

The theorems hold for every value of the constants: every finite set of nodes, every
`--concurrency`, TTL and set of events, all flags, any lists and windows, except where an
assumption is named. They rest on the assumptions of the modules that declare the
constants (`NodesAssumption`, `ConcurrencyAssumption`, `TaintsAssumption`, ...), which TLC
evaluates in every run.

### The lock

`LockClientsProofs`, without a TTL:

* `LockInvariant`: `Spec => []LockInv`;
* `Exclusion`: `Spec => []MutualExclusion`;
* `ImplementsSlots`: `Spec => SlotsSpec`.

Mutual exclusion is not inductive: it says nothing of a node that has read the
annotation and not written yet. `LockInv` adds that: a node that acts is listed
(`HeldIsListed`), the list fits (`WithinCapacity`), and the draft of a node whose copy
is still the latest is the list plus or minus one entry of its own
(`DraftsAreFresh`). A write is made only with the latest copy, so it keeps the other
holders listed (`FreshDraft`, `WriteStep`); a read prepares what `DraftsAreFresh` says
(`PrepareStep`, from `AcquireAppends` and `ReleaseRemoves`); every other step makes
no draft fresh and no node a holder that is not listed (`QuietStep`). Exclusion then is
the pigeonhole principle on the positions of the holders' entries (`ListedBound`).

With any TTL, and for both locks:

* `ExpiryInvariant`: `Spec => []ExpiryInv`;
* `Capacity`: `Spec => []WithinCapacity`;
* `LiveEntriesStay`: `Spec => LiveEntryKept`.

`ExpiryInv` says of a fresh draft that it drops an entry of another node only if the
entry has expired, and that it fits: the multiple lock appends to a list that is shorter
than `--concurrency`, or to what is left of a full one after the expired entries, of which
there is at least one, are dropped, and that is shorter too (`SublistElements`). Time only
makes more entries expire (`StaysExpired`).

### The lock during a rollout

`LockRolloutProofs` proves of pods with different versions and clocks:

* `RolloutInvariant`: `Spec => []RolloutInv`;
* `RolloutExcludes`: `Spec => []HoldersBounded`;
* `YoungEntriesAreKept`: `Spec => YoungEntryKept`.

A step of one pod can be judged by another with another clock, so nothing can be said of
"expired"; what all agree on is `Young`, an age at which no pod, however its clock goes,
takes the entry for expired. `RolloutInv` says that the list is no longer than the largest
version allows, that a young holder is listed with an entry written when its lease says,
unless it holds the single lock and a list has been written over it (`HolderIsListed`),
that there is at most one young holder of the single lock, and of a pod whose copy is
still the latest that its draft keeps every young entry of the others, has its own if it
claims one, and is not too long either (`DraftIsSound`). The last is where the formats
matter: a multiple lock that finds a single entry drafts a list without it, and the single
lock never drafts over a list. The assumptions
(`RolloutAssumption`) are that nodes have names (`Nobody` is none of them), that one of
the versions is the largest, and that clocks are ahead by at most `MaxSkew`.

### The daemon

`KuredProofs` carries this over to the daemons:

* `ImplementsClient`: `Spec => ClientSpec`, with or without a TTL;
* `DisruptionIsBounded`: `Spec => []DisruptionBounded`;
* `KuredInvariant`: without a TTL, `Spec => []KuredInv`;
* `LiveEntriesStay`, `CapacityIsKept`: those of the lock, for both locks and any TTL;
* `SchedulesUnderLock`: without a TTL, `Spec => SchedulingUnderLock`.

The first is a step simulation: `ClientState` says which client a daemon is at each of
its steps, each call of the lock is the step of `LockClients` of the same name
(`SameDrafts`, `SameAnswers`, `SameUpdates`, `AcquireSim`, `ReleaseSim`), a restart inside
a call is `Crash`, and every other step leaves the lock alone and at most lets go of it
(`SilentStep`, `StepSim`). It needs that the daemon's state is well formed
(`DaemonTypes`), which does not depend on the lock. The others use the theorems
about `LockClients` through the instance `Lock`, whose client is the daemon;
`DisruptionBounded` is `MutualExclusion` there, since a daemon disrupts its node exactly
while its client holds the lock (`DisruptingHolds`). The bound is on daemons that act,
not on machines that are going down: `two_reboots` shows that the latter is not a
consequence.

`KuredNodeProofs` is about what a daemon makes of its own node. `NodeInv` says that from the
annotation on the node is marked, that a machine that goes down is waited for (if no
pod restarts), and that a node that was seen or made cordoned stays so until the machine goes down
(without `--force-reboot` and without administrators). From it: `MarkedWhileInProgress`
(no assumption), `CordonedBeforeReboot` (no `"crash"`, no `"admin"`) and, with
`DisruptionIsBounded`, `FewGoDown` (no `"crash"`, no TTL).

`KuredCordonProofs` is about what the startup after a reboot can tell, without a TTL and
with either lock. The multiple lock does not look for an entry of its caller: after a lost
answer it adds the node again, and a Release then leaves an entry behind. `Certain`
excludes that (the single lock, or no `"api"`), and `OnceInv` says that no node is in the
lock twice and that a node that claims a slot is not in it (`OnceInvariant`). It is
inductive because a write appends one entry of the writer or drops one (`WriteChanges`),
and because a list without one position repeats none of the others (`AllButOnce`). From
it: `ReleaseFrees`.

Under `Steady` (`Certain`, no administrator at work while kured is, and no retreat:
`--force-reboot`, or no failing drain) `CordonInv` says that entries and drafts carry the
administrator's wish, and of each node, step by step, what its daemon knows of it
(`Account`): a cordon of kured is in the lock; the copy a pass works with shows the
administrator's cordon or the node is listed already; the steps that tidy up are reached
only with the node as the administrator wants it. It gives `MetadataIsTruthful`,
`AdminCordonStays`, `CordonIsAccounted` and `UncordonsAtRelease`. Under `Undisturbed` (no
`"crash"`, no `"cancel"`) `MarksInv` gives `MarkIsAccounted`, for both locks, lost answers
included: a sentinel is lost only by a machine that comes back, and its daemon was
waiting, in the lock; the lock is left only by a startup that removed the mark or still
needs the reboot, or by a retreat that does.

### Taints and schedule

`TaintsProofs`: `TaintInvariant`, `KeepsForeign` and `ImplementsSwitch`, for lists of any
length. The inductive invariant says that the list has no duplicates, that a taint that
kured believes gone is gone and that a patch is of the kind its argument asks for. A
patch that removes applies only if the taint at its offset is still kured's
(`PatchApplies`), so what it removes is that one; one that is refused ends the process.

`ScheduleProofs`: `TicksInvariant` counts the ticks that are in the hand, in the buffer
and already passed since the ticker fired (two at most), and bounds the time waited by
what is left on the timer; `Types` is the type invariant (every instant the loop keeps is
one of the days modelled); `KeepsRhythm` and `BurstsAreShort` follow. `BlockersAreRespected`:
whatever has objected since the pass started is found by a query (`FoundBy`) that is still
to come, since one that has come would have ended the pass. `AttemptsAreInWindow` and
`WindowIsNotMissed` are arithmetic: the instant of `t` on the wall clock against the two
ends as `time.Date` takes them, for windows that wrap and that do not, before, on and
after the day of the change.

### Only model-checked

* liveness: `EveryRebootHappens` and `Converges` in `kured_live` (fairness and ENABLED are
  beyond the prover);
* cordons outside the hypotheses of `KuredCordonProofs` (the retreat, administrators at any
  time, a node that a lost answer recorded twice): there the statements are false or have
  exceptions, and `kured_live` checks `CordonAccounted` with failing drains.

Every other property of a passing run is stated by a theorem.

## 5. Not modelled

* Flags, environment and validation (`main.go` 116-416, `pflags.go`,
  `internal/validators.go`): they run once, before any state exists; the flags that
  matter are constants. So are the parsers of times, zones, days and labels; of labels,
  that one without `=` panics is modelled.
* Metrics and notifications: nothing reads them back. The metrics goroutine calls the
  same checker, which ends the process when the sentinel command cannot be run; that is
  `PodRestart`, which is possible at every step.
* The sentinel command, the reboot command and the signal (`pkg/checkers`,
  `pkg/reboot`): their answers are choices in `Kured` and `Schedule`. A reboot command
  that reports an error although the machine goes down leads to the same state as a pod
  that restarts while it waits (`Reboot`, then `PodRestart`), and is covered by `"crash"`.
* The pods of a node one by one: a drain succeeds or fails as a whole.
* The most-recent-reboot-needed annotation, which nothing reads.
* Other clients that write kured's own taint back into the list (see Taints above).
* A write whose answer is lost and that lands only after the daemon has restarted: a lost
  answer is a write that was applied before or never.
* Two pods of one node at a time: the DaemonSet controller starts a pod when the former
  is gone.
* Manifests, build and tests.

## 6. What could come next

Pods one by one, with `--skip-wait-for-delete-timeout` and `--drain-grace-period`; what
remains true of cordons after a retreat, as a theorem.
