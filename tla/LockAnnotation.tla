--------------------------- MODULE LockAnnotation ---------------------------
(***************************************************************************)
(* The cluster-wide reboot lock of kured (pkg/daemonsetlock): one          *)
(* annotation of kured's own DaemonSet, which every kured pod reads with   *)
(* GetDaemonSet and rewrites with Update.                                  *)
(*                                                                         *)
(* The API server refuses an Update whose copy of the DaemonSet is not the *)
(* latest one.  Of the resource version only that is kept: "current" is    *)
(* the set of nodes whose copy is still the latest, and every write        *)
(* empties it.  "draft" is the annotation a node is about to write.        *)
(*                                                                         *)
(* The annotation is a sequence of entries.  The single lock writes one    *)
(* entry or deletes the annotation (<<>>); the multiple lock writes a list *)
(* of them, and the absent annotation reads as the empty list.             *)
(***************************************************************************)
EXTENDS Integers, FiniteSets, Sequences, Sublists

CONSTANTS
    Nodes,        \* the node ids, one kured pod on each
    Concurrency,  \* --concurrency
    TTL,          \* --lock-ttl in ticks of the clock; 0 is "never expires"
    MaxNow,       \* bound of the clock
    Events        \* what may happen in a run; "api": a call of the API server fails

ASSUME NodesAssumption == IsFiniteSet(Nodes)
ASSUME ConcurrencyAssumption == Concurrency \in Nat
ASSUME TimeAssumption == TTL \in Nat /\ MaxNow \in Nat

VARIABLES
    now,          \* the clock (all nodes agree on it)
    locks,        \* the lock annotation
    current,      \* the nodes whose copy of the DaemonSet is the latest
    draft         \* the annotation each node is about to write

lockVars == <<now, locks, current, draft>>

Entry == [node : Nodes, unschedulable : BOOLEAN, created : Nat]

\* New: more than one owner takes the multiple lock.
MultiLock == Concurrency > 1
MaxOwners == IF MultiLock THEN Concurrency ELSE 1

LockTypeOK ==
    /\ now \in 0..MaxNow
    /\ locks \in Seq(Entry)
    /\ current \subseteq Nodes
    /\ draft \in [Nodes -> Seq(Entry)]

LockInit ==
    /\ now = 0
    /\ locks = <<>>
    /\ current = {}
    /\ draft = [n \in Nodes |-> <<>>]

-----------------------------------------------------------------------------
(* Reading the annotation. *)

TtlExpired(e) == TTL > 0 /\ now - e.created >= TTL

Own(n) == {i \in DOMAIN locks : locks[i].node = n}

LiveOwn(n) == {i \in Own(n) : ~TtlExpired(locks[i])}

Listed(n) == Own(n) # {}

IsFirst(i, indices) == i \in indices /\ \A j \in indices : i <= j

\* Holding returns true, with the first live entry of n.
Holds(n) == LiveOwn(n) # {}

\* GetDaemonSet polled until its timeout and gave up.
GetFails == "api" \in Events

\* The answer of Holding as its callers use it: an error is logged, and the
\* flag that came with it is false.
HoldingSays(n, holding) ==
    \/ holding = Holds(n)
    \/ GetFails /\ ~holding

-----------------------------------------------------------------------------
(* Acquire and Release: GetDaemonSet, a decision, and an Update. *)

NewEntry(n, unschedulable) ==
    [node |-> n, unschedulable |-> unschedulable, created |-> now]

\* n has read the latest DaemonSet and is about to write "annotation".
Prepare(n, annotation) ==
    /\ draft' = [draft EXCEPT ![n] = annotation]
    /\ current' = current \union {n}
    /\ UNCHANGED <<now, locks>>

SingleSettledExpired == locks # <<>> /\ TtlExpired(locks[1])  \* mutant

\* A live entry settles the single lock's Acquire: it is mine, or it is not.
SingleSettled == locks # <<>> /\ ~TtlExpired(locks[1])

\* mutant: the test of the loop inverted
ExpiredEntries == Sublist(locks, {i \in DOMAIN locks : TtlExpired(locks[i])})

\* The entries canAcquireMultiple keeps when the list is full.
LiveEntries == Sublist(locks, {i \in DOMAIN locks : ~TtlExpired(locks[i])})

FreeSpaceOffByOne == Len(locks) <= MaxOwners  \* mutant

\* canAcquireMultiple.  It does not look for an entry of the caller.
FreeSpace ==
    \/ Len(locks) < MaxOwners
    \/ \E i \in DOMAIN locks : TtlExpired(locks[i])

KeptAlways == locks  \* mutant: expired entries are counted free, not removed

KeptEntries == IF Len(locks) < MaxOwners THEN locks ELSE LiveEntries

AcquireSingleDraft(n, unschedulable) ==
    /\ ~MultiLock
    /\ ~SingleSettled
    /\ Prepare(n, <<NewEntry(n, unschedulable)>>)

AcquireMultiDraft(n, unschedulable) ==
    /\ MultiLock
    /\ FreeSpace
    /\ Prepare(n, Append(KeptEntries, NewEntry(n, unschedulable)))

AcquireDraft(n, unschedulable) ==
    \/ AcquireSingleDraft(n, unschedulable)
    \/ AcquireMultiDraft(n, unschedulable)

\* Acquire returns true without writing: only the single lock does that.
AcquireOwned(n) ==
    /\ ~MultiLock /\ SingleSettled /\ locks[1].node = n
    /\ UNCHANGED lockVars

\* Acquire returns false: the lock is taken, or the DaemonSet cannot be read.
AcquireRefused(n) ==
    /\ \/ ~MultiLock /\ SingleSettled /\ locks[1].node # n
       \/ MultiLock /\ ~FreeSpace
       \/ GetFails
    /\ UNCHANGED lockVars

\* Release deletes the single lock whatever its age, if n wrote it.
ReleaseSingleDraft(n) ==
    /\ ~MultiLock
    /\ locks # <<>> /\ locks[1].node = n
    /\ Prepare(n, <<>>)

\* The list without its entry at i.
AllBut(i) == Sublist(locks, DOMAIN locks \ {i})

\* Release drops the first entry of n, whatever its age.
ReleaseMultiDraft(n) ==
    /\ MultiLock
    /\ \E i \in Own(n) : IsFirst(i, Own(n)) /\ Prepare(n, AllBut(i))

ReleaseDraft(n) == ReleaseSingleDraft(n) \/ ReleaseMultiDraft(n)

\* Release returns an error before it writes.
ReleaseRefused(n) ==
    /\ ~Listed(n) \/ GetFails
    /\ UNCHANGED lockVars

-----------------------------------------------------------------------------
(* The Update that ends an attempt. *)

\* n forgets its copy of the DaemonSet.
Forget(n) ==
    /\ current' = current \ {n}
    /\ draft' = [draft EXCEPT ![n] = <<>>]
    /\ UNCHANGED <<now, locks>>

\* mutant: a write that does not check the resource version
UpdateUnchecked(n) ==
    /\ locks' = draft[n]
    /\ current' = current \ {n}
    /\ draft' = [draft EXCEPT ![n] = <<>>]
    /\ UNCHANGED now

UpdateDone(n) ==
    /\ n \in current
    /\ locks' = draft[n]
    /\ current' = {}
    /\ draft' = [draft EXCEPT ![n] = <<>>]
    /\ UNCHANGED now

\* StatusReasonConflict: the caller starts again at GetDaemonSet.
UpdateConflict(n) == n \notin current /\ Forget(n)

\* Any other error; the write may have been applied before the answer was lost.
UpdateFails(n) ==
    /\ "api" \in Events
    /\ Forget(n) \/ UpdateDone(n)

-----------------------------------------------------------------------------
(* The environment. *)

\* Another client writes the DaemonSet: its controller updates the status.
TouchDaemonSet ==
    /\ current # {}
    /\ current' = {}
    /\ UNCHANGED <<now, locks, draft>>

\* Only the age of an entry depends on the clock.
TimePasses ==
    /\ now < MaxNow
    /\ now' = now + 1
    /\ UNCHANGED <<locks, current, draft>>
=============================================================================
