----------------------------- MODULE LockRollout -----------------------------
(***************************************************************************)
(* The reboot lock while the pods that share it differ: --concurrency is   *)
(* being changed, so that some pods run the single lock and some the       *)
(* multiple one on the same annotation, and their clocks are not equal.    *)
(*                                                                         *)
(* The decisions are those of LockAnnotation, instantiated for each pod    *)
(* with what the pod sees: the annotation as its own format decodes it,    *)
(* and its own clock.                                                      *)
(***************************************************************************)
EXTENDS Integers, FiniteSets, Sequences

CONSTANTS
    Nodes,
    Versions,     \* the values of --concurrency that are rolled out
    TTL,          \* --lock-ttl
    MaxNow,       \* bound of the clock
    Offset,       \* how far each node's clock is ahead
    MaxSkew       \* bound of the offsets

\* In the single format a value without "nodeID" decodes to an entry of nobody.
Nobody == ""

ASSUME RolloutAssumption ==
    /\ IsFiniteSet(Nodes) /\ Nobody \notin Nodes
    /\ Versions \subseteq Nat
    /\ \E c \in Versions : \A d \in Versions : d <= c
    /\ TTL \in Nat /\ MaxNow \in Nat /\ MaxSkew \in Nat
    /\ Offset \in [Nodes -> 0..MaxSkew]

VARIABLES
    now,          \* the true time
    annotation,   \* the lock annotation: its JSON format and its entries
    current,      \* the nodes whose copy of the DaemonSet is the latest
    draft,        \* the entries each node is about to write
    concurrency,  \* what each pod runs with
    client,       \* what each pod is doing with the lock
    lease         \* the true time at which the entry a pod relies on was written

vars == <<now, annotation, current, draft, concurrency, client, lease>>

\* What the single lock makes of a list.
Stranger == [node |-> Nobody, unschedulable |-> FALSE, created |-> 0]

\* The true time at which an entry was written.
Written(e) == e.created - Offset[e.node]

Entry == {e \in [node : Nodes, unschedulable : {FALSE}, created : 0..(MaxNow + MaxSkew)] :
             Written(e) \in 0..MaxNow}

TypeOK ==
    /\ now \in 0..MaxNow
    /\ annotation.format \in {"none", "single", "multi"}
    /\ annotation.locks \in Seq(Entry)
    /\ annotation.format = "single" => Len(annotation.locks) = 1
    /\ annotation.format = "none" => annotation.locks = <<>>
    /\ current \subseteq Nodes
    /\ draft \in [Nodes -> Seq(Entry)]
    /\ concurrency \in [Nodes -> Versions]
    /\ client \in [Nodes -> {"idle", "claimed", "held", "releasing", "released"}]
    /\ lease \in [Nodes -> 0..MaxNow]

Init ==
    /\ now = 0
    /\ annotation = [format |-> "none", locks |-> <<>>]
    /\ current = {}
    /\ draft = [n \in Nodes |-> <<>>]
    /\ concurrency \in [Nodes -> Versions]
    /\ client = [n \in Nodes |-> "idle"]
    /\ lease = [n \in Nodes |-> 0]

-----------------------------------------------------------------------------
(* What a pod sees. *)

IsMulti(c) == c > 1

Foreign(c) == annotation.format = (IF IsMulti(c) THEN "single" ELSE "multi")

\* mutant: the single lock ignores a list as the multiple lock ignores an entry
DecodeNothing(c) == IF Foreign(c) THEN <<>> ELSE annotation.locks

\* json.Unmarshal ignores the fields it does not know: the multiple lock finds
\* no list in the value of a single one, the single lock an entry of nobody.
Decode(c) ==
    IF ~Foreign(c) THEN annotation.locks
    ELSE IF IsMulti(c) THEN <<>> ELSE <<Stranger>>

\* The entry of nobody has no TTL either.
DecodedTTL(c) == IF Foreign(c) THEN 0 ELSE TTL

\* Release deletes the annotation of the single lock, and empties the other's list.
Encode(c, locks) ==
    [format |-> IF IsMulti(c) THEN "multi" ELSE IF locks = <<>> THEN "none" ELSE "single",
     locks |-> locks]

Clock(n) == now + Offset[n]

\* The lock as the pod of n, with --concurrency c, decides on it.
Pod(n, c, ttl) == INSTANCE LockAnnotation WITH
    Concurrency <- c, TTL <- ttl, MaxNow <- MaxNow + MaxSkew, Events <- {},
    now <- Clock(n), locks <- Decode(c)

Goes(n, from, to) ==
    /\ client[n] = from
    /\ client' = [client EXCEPT ![n] = to]

\* n reads the DaemonSet and decides to claim a slot, or finds that it holds one.
\* It claims one whatever it has: an error of Holding counts as "no", and the
\* multiple lock does not look for an entry of its caller.
Ask(n) ==
    /\ UNCHANGED <<now, annotation, concurrency>>
    /\ \E c \in Versions, ttl \in {0, TTL} :
          /\ c = concurrency[n] /\ ttl = DecodedTTL(c)
          /\ \/ /\ Pod(n, c, ttl)!AcquireDraft(n, FALSE)
                /\ Goes(n, "idle", "claimed")
                /\ lease' = [lease EXCEPT ![n] = now]
             \/ \E i \in Pod(n, c, ttl)!LiveOwn(n) :
                   /\ Pod(n, c, ttl)!IsFirst(i, Pod(n, c, ttl)!LiveOwn(n))
                   /\ Goes(n, "idle", "held")
                   /\ lease' = [lease EXCEPT ![n] = Decode(c)[i].created - Offset[n]]
                   /\ UNCHANGED <<current, draft>>

\* n reads the DaemonSet and decides to remove its entry, or gives up: it finds
\* none, or it cannot read the DaemonSet.
GiveBack(n) ==
    /\ UNCHANGED <<now, annotation, concurrency>>
    /\ lease' = [lease EXCEPT ![n] = 0]
    /\ \E c \in Versions, ttl \in {0, TTL} :
          /\ c = concurrency[n] /\ ttl = DecodedTTL(c)
          /\ \/ /\ Pod(n, c, ttl)!ReleaseDraft(n)
                /\ Goes(n, "held", "released") \/ Goes(n, "releasing", "released")
             \/ /\ Goes(n, "held", "idle") \/ Goes(n, "releasing", "idle")
                /\ UNCHANGED <<current, draft>>

\* mutant: an Update that does not check the resource version
UpdateUnchecked(n) ==
    /\ annotation' = Encode(concurrency[n], draft[n])
    /\ Goes(n, "claimed", "held") \/ Goes(n, "released", "idle")
    /\ current' = current \ {n}
    /\ draft' = [draft EXCEPT ![n] = <<>>]
    /\ UNCHANGED <<now, concurrency, lease>>

\* The Update: done, or refused because the DaemonSet has changed, and then the
\* loop of Acquire or Release goes round again.
Update(n) ==
    /\ \/ n \in current /\ annotation' = Encode(concurrency[n], draft[n]) /\ current' = {}
             /\ (Goes(n, "claimed", "held") \/ Goes(n, "released", "idle"))
             /\ UNCHANGED lease
       \/ n \notin current /\ UNCHANGED <<annotation, current>>
             /\ (Goes(n, "claimed", "idle") \/ Goes(n, "released", "releasing"))
             /\ lease' = [lease EXCEPT ![n] = 0]
    /\ draft' = [draft EXCEPT ![n] = <<>>]
    /\ UNCHANGED <<now, concurrency>>

\* Any other error of the Update, whether or not it was applied: Acquire or Release
\* gives up.
UpdateFails(n) ==
    /\ \/ n \in current /\ annotation' = Encode(concurrency[n], draft[n]) /\ current' = {}
       \/ UNCHANGED annotation /\ current' = current \ {n}
    /\ Goes(n, "claimed", "idle") \/ Goes(n, "released", "idle")
    /\ lease' = [lease EXCEPT ![n] = 0]
    /\ draft' = [draft EXCEPT ![n] = <<>>]
    /\ UNCHANGED <<now, concurrency>>

\* The pod is replaced by one of any version, or crashes.
Restart(n) ==
    /\ \E c \in Versions : concurrency' = [concurrency EXCEPT ![n] = c]
    /\ client' = [client EXCEPT ![n] = "idle"]
    /\ lease' = [lease EXCEPT ![n] = 0]
    /\ current' = current \ {n}
    /\ draft' = [draft EXCEPT ![n] = <<>>]
    /\ UNCHANGED <<now, annotation>>

\* Anyone else writes the DaemonSet: the rollout itself changes its flags.
Touch ==
    /\ current # {}
    /\ current' = {}
    /\ UNCHANGED <<now, annotation, draft, concurrency, client, lease>>

TimePasses ==
    /\ now < MaxNow
    /\ now' = now + 1
    /\ UNCHANGED <<annotation, current, draft, concurrency, client, lease>>

Next ==
    \/ \E n \in Nodes : Ask(n) \/ GiveBack(n) \/ Update(n) \/ UpdateFails(n) \/ Restart(n)
    \/ Touch \/ TimePasses

Spec == Init /\ [][Next]_vars

-----------------------------------------------------------------------------
\* The age at which some pod, however its clock goes, may take an entry for
\* expired.
SafeAge == TTL - MaxSkew
Young(written) == TTL = 0 \/ now - written < SafeAge

Holders(multi) ==
    {n \in Nodes : client[n] = "held" /\ Young(lease[n]) /\ IsMulti(concurrency[n]) = multi}

\* The largest --concurrency, and the longest list it allows.
LargestVersion == CHOOSE c \in Versions : \A d \in Versions : d <= c
MostOwners == IF IsMulti(LargestVersion) THEN LargestVersion ELSE 1

\* While versions are mixed and clocks differ, each lock still bounds its own
\* pods: one holder of the single lock and --concurrency of the multiple one.
\* Together they may be one more than any version allows.
HoldersBounded ==
    /\ Cardinality(Holders(FALSE)) <= 1
    /\ Cardinality(Holders(TRUE)) <= LargestVersion

\* The entry a pod relies on.
Grant(n) == [node |-> n, unschedulable |-> FALSE, created |-> lease[n] + Offset[n]]

Occurs(e, list) == \E i \in DOMAIN list : list[i] = e

\* A pod that may still write has a draft that its lock allows: it has the pod's
\* own claim, and all entries but the one it gives back and those that have
\* expired, except when the multiple lock is about to overwrite the single.
DraftIsSound(n) ==
    /\ client[n] \in {"claimed", "released"}
    /\ Len(draft[n]) <= MostOwners
    /\ client[n] = "claimed" => Occurs(Grant(n), draft[n])
    /\ ~IsMulti(concurrency[n]) => annotation.format # "multi" /\ Len(draft[n]) <= 1
    /\ \A i \in DOMAIN annotation.locks :
          LET e == annotation.locks[i] IN
          \/ IsMulti(concurrency[n]) /\ annotation.format = "single"
          \/ Occurs(e, draft[n])
          \/ client[n] = "claimed" /\ ~Young(Written(e))
          \/ client[n] = "released" /\ e.node = n

\* A holder whose entry is young has it in the annotation, unless it holds the
\* single lock and the multiple one has overwritten that.
HolderIsListed(n) ==
    /\ annotation.format # "none"
    /\ ~Foreign(concurrency[n]) => Occurs(Grant(n), annotation.locks)
    /\ IsMulti(concurrency[n]) => annotation.format = "multi"

\* The invariant of the rollout: the state is well formed, no mixture of versions
\* makes the list longer than the largest of them allows, what is about to be
\* written is sound, and what the holders rely on is written.
RolloutInv ==
    /\ TypeOK
    /\ Len(annotation.locks) <= MostOwners
    /\ \A n \in current : DraftIsSound(n)
    /\ \A n \in Holders(TRUE) \union Holders(FALSE) : HolderIsListed(n)
    /\ \A m, n \in Holders(FALSE) : m = n

\* An entry leaves the annotation before some clock can take it for expired only
\* by the Release of its node, or when the multiple lock overwrites the single.
YoungEntryKept ==
    [][\A i \in DOMAIN annotation.locks :
          LET e == annotation.locks[i] IN
          \/ ~Young(Written(e))
          \/ Occurs(e, annotation'.locks)
          \/ client[e.node] = "released"
          \/ annotation.format = "single" /\ annotation'.format = "multi"]_vars

\* What makes Acquire refuse a pod.
Refuses(n, c, ttl) ==
    IF IsMulti(c) THEN ~Pod(n, c, ttl)!FreeSpace ELSE Pod(n, c, ttl)!SingleSettled

\* main.go, --lock-ttl: "expire lock annotation after this duration".  An
\* annotation all of whose entries are older than that, whatever clock is asked,
\* keeps no pod from the lock.
LockExpires ==
    /\ TTL > 0 /\ annotation.locks # <<>>
    /\ \A i \in DOMAIN annotation.locks : now - Written(annotation.locks[i]) >= TTL + MaxSkew
    => \A n \in Nodes, c \in Versions, ttl \in {0, TTL} :
          c = concurrency[n] /\ ttl = DecodedTTL(c) => ~Refuses(n, c, ttl)
=============================================================================
