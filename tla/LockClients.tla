----------------------------- MODULE LockClients -----------------------------
(***************************************************************************)
(* The reboot lock under any pattern of use: each node may call Holding,   *)
(* Acquire and Release whenever it likes, believe the answers, lose its    *)
(* memory at any point, and race with every other node on the DaemonSet.   *)
(* The kured daemon (module Kured) is one such client.                     *)
(***************************************************************************)
EXTENDS LockAnnotation, SequencesExt

VARIABLE
    client        \* what each node is doing with the lock

vars == <<lockVars, client>>

\* idle: neither holds nor wants; claiming, releasing: inside the call, before
\* the read of the DaemonSet; claimed, released: after it, about to Update;
\* held: was told that it holds the lock.
ClientStates == {"idle", "claiming", "claimed", "held", "releasing", "released"}

TypeOK ==
    /\ LockTypeOK
    /\ client \in [Nodes -> ClientStates]

Init ==
    /\ LockInit
    /\ client = [n \in Nodes |-> "idle"]

Goes(n, from, to) ==
    /\ client[n] = from
    /\ client' = [client EXCEPT ![n] = to]

\* Holding says yes to a node that did not know.
SeeHeld(n) ==
    /\ Holds(n)
    /\ Goes(n, "idle", "held")
    /\ UNCHANGED lockVars

\* A node that holds the lock forgets it, and will have to ask again.
LoseTrack(n) ==
    /\ Goes(n, "held", "idle")
    /\ UNCHANGED lockVars

\* Acquire is called by a node that believes it does not hold the lock.
StartAcquire(n) ==
    /\ Goes(n, "idle", "claiming")
    /\ UNCHANGED lockVars

TryAcquire(n) ==
    \/ \E unschedulable \in BOOLEAN :
          AcquireDraft(n, unschedulable) /\ Goes(n, "claiming", "claimed")
    \/ AcquireOwned(n) /\ Goes(n, "claiming", "held")
    \/ AcquireRefused(n) /\ Goes(n, "claiming", "idle")

EndAcquire(n) ==
    \/ UpdateDone(n) /\ Goes(n, "claimed", "held")
    \/ UpdateConflict(n) /\ Goes(n, "claimed", "claiming")
    \/ UpdateFails(n) /\ Goes(n, "claimed", "idle")

\* Release may be called by a node that holds the lock, or held it before it
\* lost an answer; it stops acting on the lock first.
StartRelease(n) ==
    /\ Goes(n, "idle", "releasing") \/ Goes(n, "held", "releasing")
    /\ UNCHANGED lockVars

TryRelease(n) ==
    \/ ReleaseDraft(n) /\ Goes(n, "releasing", "released")
    \/ ReleaseRefused(n) /\ Goes(n, "releasing", "idle")

EndRelease(n) ==
    \/ UpdateDone(n) /\ Goes(n, "released", "idle")
    \/ UpdateConflict(n) /\ Goes(n, "released", "releasing")
    \/ UpdateFails(n) /\ Goes(n, "released", "idle")

\* The pod or the machine restarts; what is in the API server stays.
Crash(n) ==
    /\ client' = [client EXCEPT ![n] = "idle"]
    /\ Forget(n)

ClientStep(n) ==
    \/ SeeHeld(n) \/ LoseTrack(n)
    \/ StartAcquire(n) \/ TryAcquire(n) \/ EndAcquire(n)
    \/ StartRelease(n) \/ TryRelease(n) \/ EndRelease(n)
    \/ Crash(n)

Next ==
    \/ \E n \in Nodes : ClientStep(n)
    \/ TouchDaemonSet /\ UNCHANGED client
    \/ TimePasses /\ UNCHANGED client

Spec == Init /\ [][Next]_vars

-----------------------------------------------------------------------------
Holders == {n \in Nodes : client[n] = "held"}

\* No more nodes believe they hold the lock than there are slots, whatever the
\* interleaving of reads, conflicting Updates, lost answers and restarts.
\* (Only without a TTL: an expired entry is given away while its owner acts.)
MutualExclusion == TTL = 0 => Cardinality(Holders) <= MaxOwners

\* A node that was told it holds the lock is still recorded in the annotation:
\* no Acquire, Release or retry of another node drops its entry.
HeldIsListed == TTL = 0 => \A n \in Holders : Listed(n)

\* The annotation never has more entries than slots, duplicates and expired
\* entries included.
WithinCapacity == Len(locks) <= MaxOwners

\* A copy that is still the latest was the base of what its reader will write:
\* Acquire's draft is the annotation plus one entry of the caller, Release's is
\* the annotation without one of the caller's.
DraftsAreFresh ==
    TTL = 0 =>
    \A n \in current :
        /\ client[n] \in {"claimed", "released"}
        /\ client[n] = "claimed" =>
              /\ Len(locks) < MaxOwners
              /\ draft[n] # <<>> /\ Last(draft[n]).node = n
              /\ draft[n] = Append(locks, Last(draft[n]))
        /\ client[n] = "released" =>
              \E i \in Own(n) : draft[n] = AllBut(i)

\* The inductive invariant behind MutualExclusion.
LockInv == TypeOK /\ WithinCapacity /\ HeldIsListed /\ DraftsAreFresh

\* Whatever the TTL, an entry that has not expired leaves the annotation only
\* by the Release of the node that wrote it.
LiveEntryKept ==
    [][\A i \in DOMAIN locks :
          \/ TtlExpired(locks[i])
          \/ \E j \in DOMAIN locks' : locks'[j] = locks[i]
          \/ client[locks[i].node] = "released"]_vars

\* The lock implements the slots it promises.
Slots == INSTANCE RebootSlots WITH
    Slots <- MaxOwners,
    holders <- {n \in Nodes : Listed(n)},
    using <- Holders
SlotsSpec == Slots!SlotSpec
=============================================================================
