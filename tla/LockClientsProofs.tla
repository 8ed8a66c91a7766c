-------------------------- MODULE LockClientsProofs --------------------------
(***************************************************************************)
(* The lock without a TTL excludes, for every set of nodes, every          *)
(* --concurrency and every set of events: its invariant LockInv, mutual    *)
(* exclusion, and that it implements the slots of RebootSlots.             *)
(***************************************************************************)
EXTENDS LockClients, FiniteSetTheorems, SequenceFacts

(* Facts about the operators of LockAnnotation. *)

\* Without a TTL nothing expires, so that Acquire appends an entry of the caller
\* to an annotation with room for it.
LEMMA AcquireAppends ==
    ASSUME TTL = 0, TypeOK, WithinCapacity,
           NEW n \in Nodes, NEW u \in BOOLEAN, AcquireDraft(n, u)
    PROVE  /\ Prepare(n, Append(locks, NewEntry(n, u)))
           /\ Len(locks) < MaxOwners
<1>1. \A e \in Entry : ~TtlExpired(e)
  BY SMT DEF TtlExpired
<1>2. /\ locks \in Seq(Entry) /\ Len(locks) \in Nat /\ DOMAIN locks = 1..Len(locks)
      /\ \A i \in DOMAIN locks : locks[i] \in Entry
  BY LenProperties, ElementOfSeq DEF TypeOK, LockTypeOK
<1>3. CASE AcquireSingleDraft(n, u)
  <2>1. locks = <<>>
    BY <1>1, <1>2, <1>3, EmptySeq, SMT DEF AcquireSingleDraft, SingleSettled
  <2>2. Append(locks, NewEntry(n, u)) = <<NewEntry(n, u)>> /\ Len(locks) = 0
    BY <2>1, SMT
  <2>3. MaxOwners = 1
    BY <1>3 DEF AcquireSingleDraft, MaxOwners
  <2> QED BY <1>3, <2>2, <2>3, SMT DEF AcquireSingleDraft
<1>4. CASE AcquireMultiDraft(n, u)
  <2>1. Len(locks) < MaxOwners
    BY <1>1, <1>2, <1>4, SMT DEF AcquireMultiDraft, FreeSpace
  <2>2. KeptEntries = locks
    BY <2>1 DEF KeptEntries
  <2> QED BY <1>4, <2>1, <2>2 DEF AcquireMultiDraft
<1> QED BY <1>3, <1>4 DEF AcquireDraft

\* All entries but one, and no other.
LEMMA AllButKeeps ==
    ASSUME locks \in Seq(Entry), NEW i \in DOMAIN locks
    PROVE  /\ AllBut(i) \in Seq(Entry)
           /\ Len(AllBut(i)) = Len(locks) - 1
           /\ \A j \in DOMAIN locks : j # i =>
                 \E k \in DOMAIN AllBut(i) : AllBut(i)[k] = locks[j]
           /\ \A k \in DOMAIN AllBut(i) : \E j \in DOMAIN locks : locks[j] = AllBut(i)[k]
           /\ Draws(AllBut(i), locks, DOMAIN locks \ {i})
<1> DEFINE c == AllBut(i)
<1>1. c = Sublist(locks, DOMAIN locks \ {i})
  BY DEF AllBut
<1> HIDE DEF c
<1>2. c \in Seq(Entry) /\ Len(c) = Len(locks) - 1
  BY <1>1, SublistDropsOne
<1>3. \A j \in DOMAIN locks : j # i => \E k \in DOMAIN c : c[k] = locks[j]
  BY <1>1, SublistDropsOne
<1>4. Draws(c, locks, DOMAIN locks \ {i})
  BY <1>1, SublistDropsOne
<1>5. \A k \in DOMAIN c : \E j \in DOMAIN locks : locks[j] = c[k]
  BY <1>4 DEF Draws
<1> QED BY <1>2, <1>3, <1>4, <1>5 DEF c

\* A list in which every node has one entry at most stays one, without the node
\* whose entry is dropped.
LEMMA AllButOnce ==
    ASSUME locks \in Seq(Entry), NEW i \in DOMAIN locks,
           \A j, k \in DOMAIN locks : locks[j].node = locks[k].node => j = k
    PROVE  /\ \A j, k \in DOMAIN AllBut(i) : AllBut(i)[j].node = AllBut(i)[k].node => j = k
           /\ \A k \in DOMAIN AllBut(i) : AllBut(i)[k].node # locks[i].node
<1>1. PICK at \in [DOMAIN AllBut(i) -> DOMAIN locks \ {i}] :
         IsInjective(at) /\ \A k \in DOMAIN at : AllBut(i)[k] = locks[at[k]]
  BY AllButKeeps DEF Draws
<1> QED BY <1>1 DEF IsInjective

\* Release prepares the annotation without one entry of the caller.
LEMMA ReleaseRemoves ==
    ASSUME TypeOK, WithinCapacity, NEW n \in Nodes, ReleaseDraft(n)
    PROVE  \E i \in Own(n) : Prepare(n, AllBut(i))
<1>1. locks \in Seq(Entry) /\ Len(locks) \in Nat /\ DOMAIN locks = 1..Len(locks)
  BY LenProperties DEF TypeOK, LockTypeOK
<1>2. CASE ReleaseSingleDraft(n)
  <2>1. Len(locks) <= 1 /\ locks # <<>> /\ locks[1].node = n
    BY <1>2 DEF ReleaseSingleDraft, WithinCapacity, MaxOwners
  <2>2. Len(locks) = 1 /\ 1 \in Own(n)
    BY <1>1, <2>1, EmptySeq, SMT DEF Own
  <2>3. AllBut(1) = <<>>
    <3>1. 1 \in DOMAIN locks
      BY <1>1, <2>2, SMT
    <3>2. AllBut(1) \in Seq(Entry) /\ Len(AllBut(1)) = 0
      BY <1>1, <2>2, <3>1, AllButKeeps, SMT
    <3> QED BY <3>2, EmptySeq
  <2> QED BY <1>2, <2>2, <2>3 DEF ReleaseSingleDraft
<1>3. CASE ReleaseMultiDraft(n)
  BY <1>3 DEF ReleaseMultiDraft
<1> QED BY <1>2, <1>3 DEF ReleaseDraft

-----------------------------------------------------------------------------
(* The inductive invariant. *)

\* There is at least one slot.
LEMMA MaxOwnersIsPositive == MaxOwners \in Nat /\ MaxOwners >= 1
  BY ConcurrencyAssumption, SMT DEF MaxOwners, MultiLock

\* The invariant holds at the start.
LEMMA InitInv == Init => LockInv
<1> SUFFICES ASSUME Init PROVE LockInv
  OBVIOUS
<1>1. <<>> \in Seq(Entry) /\ Len(<<>>) = 0
  BY EmptySeq
<1>2. TypeOK
  BY <1>1, TimeAssumption, SMT DEF Init, LockInit, TypeOK, LockTypeOK, ClientStates
<1>3. WithinCapacity
  BY <1>1, MaxOwnersIsPositive, SMT DEF Init, LockInit, WithinCapacity
<1>4. HeldIsListed /\ DraftsAreFresh
  BY DEF Init, LockInit, HeldIsListed, DraftsAreFresh, Holders
<1> QED BY <1>2, <1>3, <1>4 DEF LockInv

\* What a node has prepared while its copy is the latest keeps the entries of
\* the other nodes, fits, and lists a node that is claiming.
LEMMA FreshDraft ==
    ASSUME TTL = 0, LockInv, NEW n \in Nodes, n \in current
    PROVE  /\ draft[n] \in Seq(Entry)
           /\ Len(draft[n]) <= MaxOwners
           /\ \A m \in Nodes : m # n /\ Listed(m) =>
                 \E k \in DOMAIN draft[n] : draft[n][k].node = m
           /\ client[n] = "claimed" =>
                 \E k \in DOMAIN draft[n] : draft[n][k].node = n
<1>1. /\ locks \in Seq(Entry) /\ draft[n] \in Seq(Entry)
      /\ Len(locks) \in Nat /\ Len(locks) <= MaxOwners
      /\ DOMAIN locks = 1..Len(locks)
      /\ DOMAIN draft[n] = 1..Len(draft[n])
  BY LenProperties DEF LockInv, TypeOK, LockTypeOK, WithinCapacity
<1>2. \A m \in Nodes : Listed(m) => \E j \in DOMAIN locks : locks[j].node = m
  BY DEF Listed, Own
<1>3. CASE client[n] = "claimed"
  <2> DEFINE e == Last(draft[n])
  <2>1. /\ Len(locks) < MaxOwners /\ draft[n] # <<>> /\ e.node = n
        /\ draft[n] = Append(locks, e)
    BY <1>3 DEF LockInv, DraftsAreFresh
  <2>2. e \in Entry
    BY <1>1, <2>1, EmptySeq, SMT DEF Last
  <2> HIDE DEF e
  <2>3. /\ Len(draft[n]) = Len(locks) + 1
        /\ \A i \in 1..Len(locks) : draft[n][i] = locks[i]
        /\ draft[n][Len(locks) + 1] = e
    BY <1>1, <2>1, <2>2, AppendProperties
  <2>4. Len(draft[n]) <= MaxOwners
    BY <1>1, <2>1, <2>3, MaxOwnersIsPositive, SMT
  <2>5. \A i \in DOMAIN locks : i \in DOMAIN draft[n] /\ draft[n][i] = locks[i]
    BY <1>1, <2>3, SMT
  <2>6. Len(locks) + 1 \in DOMAIN draft[n]
    BY <1>1, <2>3, SMT
  <2> QED BY <1>1, <1>2, <2>1, <2>3, <2>4, <2>5, <2>6
<1>4. CASE client[n] = "released"
  <2>1. PICK i \in Own(n) : draft[n] = AllBut(i)
    BY <1>4 DEF LockInv, DraftsAreFresh
  <2>2. i \in DOMAIN locks /\ locks[i].node = n
    BY <2>1 DEF Own
  <2> DEFINE r == AllBut(i)
  <2>3. /\ Len(r) = Len(locks) - 1
        /\ \A j \in DOMAIN locks : j # i => \E k \in DOMAIN r : r[k] = locks[j]
    BY <1>1, <2>2, AllButKeeps, Zenon
  <2> HIDE DEF r
  <2>4. Len(r) <= MaxOwners
    <3>1. Len(r) = Len(locks) - 1
      BY <2>3
    <3> QED BY <1>1, <3>1, MaxOwnersIsPositive, SMT
  <2>5. draft[n] = r
    BY <2>1 DEF r
  <2> QED BY <1>1, <1>2, <1>4, <2>2, <2>3, <2>4, <2>5
<1>5. client[n] \in {"claimed", "released"}
  BY DEF LockInv, DraftsAreFresh
<1> QED BY <1>3, <1>4, <1>5

\* A step that writes nothing to the annotation, prepares nothing, and lets no
\* node believe in a slot it does not have, keeps the invariant.
LEMMA QuietStep ==
    ASSUME TTL = 0, LockInv, TypeOK',
           locks' = locks, current' \subseteq current,
           \A m \in current' : client'[m] = client[m] /\ draft'[m] = draft[m],
           \A m \in Nodes : client'[m] = "held" => client[m] = "held" \/ Listed(m)
    PROVE  LockInv'
<1>1. WithinCapacity'
  BY DEF LockInv, WithinCapacity
<1>2. HeldIsListed'
  BY DEF LockInv, HeldIsListed, Holders, Listed, Own
<1>3. DraftsAreFresh'
  <2> SUFFICES ASSUME NEW m \in current'
               PROVE  /\ client'[m] \in {"claimed", "released"}
                      /\ client'[m] = "claimed" =>
                            /\ Len(locks) < MaxOwners
                            /\ draft'[m] # <<>> /\ Last(draft'[m]).node = m
                            /\ draft'[m] = Append(locks, Last(draft'[m]))
                      /\ client'[m] = "released" =>
                            \E i \in Own(m) : draft'[m] = AllBut(i)
    BY DEF DraftsAreFresh, Own, AllBut
  <2>1. m \in current /\ client'[m] = client[m] /\ draft'[m] = draft[m]
    OBVIOUS
  <2> QED BY <2>1 DEF LockInv, DraftsAreFresh
<1> QED BY <1>1, <1>2, <1>3 DEF LockInv

\* The Update of a fresh copy keeps the invariant: a node that claimed is now
\* listed, and every other node is listed as it was.
LEMMA WriteStep ==
    ASSUME TTL = 0, LockInv, NEW n \in Nodes, UpdateDone(n),
           NEW to \in {"held", "idle"}, client' = [client EXCEPT ![n] = to],
           to = "held" => client[n] = "claimed"
    PROVE  LockInv'
<1>1. /\ n \in current /\ locks' = draft[n] /\ current' = {}
      /\ draft' = [draft EXCEPT ![n] = <<>>] /\ now' = now
  BY DEF UpdateDone
<1>2. /\ draft[n] \in Seq(Entry) /\ Len(draft[n]) <= MaxOwners
      /\ \A m \in Nodes : m # n /\ Listed(m) => \E k \in DOMAIN draft[n] : draft[n][k].node = m
      /\ client[n] = "claimed" => \E k \in DOMAIN draft[n] : draft[n][k].node = n
  BY <1>1, FreshDraft
<1>3. TypeOK'
  <2>1. <<>> \in Seq(Entry)
    BY EmptySeq
  <2>2. draft' \in [Nodes -> Seq(Entry)]
    BY <1>1, <2>1 DEF LockInv, TypeOK, LockTypeOK
  <2>3. client' \in [Nodes -> ClientStates]
    BY DEF LockInv, TypeOK, ClientStates
  <2> QED BY <1>1, <1>2, <2>2, <2>3 DEF LockInv, TypeOK, LockTypeOK
<1>4. WithinCapacity'
  BY <1>1, <1>2 DEF WithinCapacity, MaxOwners, MultiLock
<1>5. HeldIsListed'
  <2> SUFFICES ASSUME NEW m \in Nodes, client'[m] = "held"
               PROVE  \E k \in DOMAIN locks' : locks'[k].node = m
    BY DEF HeldIsListed, Holders, Listed, Own
  <2>1. CASE m = n
    BY <1>1, <1>2, <2>1 DEF LockInv, TypeOK
  <2>2. CASE m # n
    <3>1. client[m] = "held"
      BY <2>2 DEF LockInv, TypeOK
    <3>2. Listed(m)
      BY <3>1 DEF LockInv, HeldIsListed, Holders
    <3> QED BY <1>1, <1>2, <2>2, <3>2
  <2> QED BY <2>1, <2>2
<1>6. DraftsAreFresh'
  BY <1>1 DEF DraftsAreFresh
<1> QED BY <1>3, <1>4, <1>5, <1>6 DEF LockInv

\* A node that has just read the annotation prepares what its call promises.
LEMMA PrepareStep ==
    ASSUME TTL = 0, LockInv, NEW n \in Nodes, NEW annotation \in Seq(Entry),
           Prepare(n, annotation), client[n] # "held",
           NEW to \in {"claimed", "released"}, client' = [client EXCEPT ![n] = to],
           to = "claimed" => /\ Len(locks) < MaxOwners
                             /\ annotation # <<>> /\ Last(annotation).node = n
                             /\ annotation = Append(locks, Last(annotation)),
           to = "released" => \E i \in Own(n) : annotation = AllBut(i)
    PROVE  LockInv'
<1>1. /\ draft' = [draft EXCEPT ![n] = annotation]
      /\ current' = current \union {n}
      /\ now' = now /\ locks' = locks
  BY DEF Prepare
<1>2. client'[n] = to /\ \A m \in Nodes : m # n => client'[m] = client[m]
  BY DEF LockInv, TypeOK
<1>3. draft'[n] = annotation /\ \A m \in Nodes : m # n => draft'[m] = draft[m]
  BY <1>1 DEF LockInv, TypeOK, LockTypeOK
<1>4. TypeOK'
  BY <1>1 DEF LockInv, TypeOK, LockTypeOK, ClientStates
<1>5. WithinCapacity'
  BY <1>1 DEF LockInv, WithinCapacity
<1>6. HeldIsListed'
  BY <1>1, <1>2 DEF LockInv, HeldIsListed, Holders, Listed, Own
<1>7. DraftsAreFresh'
  <2>0. Own(n)' = Own(n) /\ (\A i : AllBut(i)' = AllBut(i))
    BY <1>1 DEF Own, AllBut
  <2> SUFFICES ASSUME NEW m \in current'
               PROVE  /\ client'[m] \in {"claimed", "released"}
                      /\ client'[m] = "claimed" =>
                            /\ Len(locks) < MaxOwners
                            /\ draft'[m] # <<>> /\ Last(draft'[m]).node = m
                            /\ draft'[m] = Append(locks, Last(draft'[m]))
                      /\ client'[m] = "released" =>
                            \E i \in Own(m) : draft'[m] = AllBut(i)
    BY <1>1, <2>0 DEF DraftsAreFresh, Own
  <2>1. CASE m = n
    BY <1>2, <1>3, <2>1
  <2>2. CASE m # n
    <3>1. m \in current /\ m \in Nodes
      BY <1>1, <2>2 DEF LockInv, TypeOK, LockTypeOK
    <3>2. client'[m] = client[m] /\ draft'[m] = draft[m]
      BY <1>2, <1>3, <2>2, <3>1
    <3> QED BY <3>1, <3>2 DEF LockInv, DraftsAreFresh
  <2> QED BY <2>1, <2>2
<1> QED BY <1>4, <1>5, <1>6, <1>7 DEF LockInv

\* Every step of a client keeps the invariant.
LEMMA ClientInv ==
    ASSUME TTL = 0, LockInv, NEW n \in Nodes, ClientStep(n)
    PROVE  LockInv'
<1>0. /\ locks \in Seq(Entry) /\ draft \in [Nodes -> Seq(Entry)]
      /\ client \in [Nodes -> ClientStates] /\ current \subseteq Nodes
      /\ now \in 0..MaxNow
      /\ <<>> \in Seq(Entry)
  BY EmptySeq DEF LockInv, TypeOK, LockTypeOK
<1>a. \A m \in current : client[m] \in {"claimed", "released"}
  BY DEF LockInv, DraftsAreFresh
<1>b. ASSUME UNCHANGED lockVars, NEW from \in ClientStates, NEW to \in ClientStates,
             Goes(n, from, to), from \notin {"claimed", "released"},
             to = "held" => Listed(n)
      PROVE  LockInv'
  <2>1. /\ locks' = locks /\ current' = current /\ draft' = draft /\ now' = now
        /\ client[n] = from /\ client' = [client EXCEPT ![n] = to]
    BY <1>b DEF lockVars, Goes
  <2>2. TypeOK'
    BY <1>0, <2>1 DEF TypeOK, LockTypeOK
  <2>3. n \notin current
    BY <1>a, <1>b, <2>1
  <2>4. \A m \in current' : client'[m] = client[m] /\ draft'[m] = draft[m]
    BY <1>0, <2>1, <2>3
  <2>5. \A m \in Nodes : client'[m] = "held" => client[m] = "held" \/ Listed(m)
    BY <1>0, <1>b, <2>1
  <2> QED BY <2>1, <2>2, <2>4, <2>5, QuietStep
<1>c. ASSUME Forget(n), NEW to \in ClientStates \ {"held"},
             client' = [client EXCEPT ![n] = to]
      PROVE  LockInv'
  <2>1. /\ locks' = locks /\ current' = current \ {n} /\ now' = now
        /\ draft' = [draft EXCEPT ![n] = <<>>]
    BY <1>c DEF Forget
  <2>2. TypeOK'
    BY <1>0, <1>c, <2>1 DEF TypeOK, LockTypeOK
  <2>3. \A m \in current' : client'[m] = client[m] /\ draft'[m] = draft[m]
    BY <1>0, <1>c, <2>1
  <2>4. \A m \in Nodes : client'[m] = "held" => client[m] = "held" \/ Listed(m)
    BY <1>0, <1>c
  <2> QED BY <2>1, <2>2, <2>3, <2>4, QuietStep
<1>1. CASE SeeHeld(n)
  <2>1. Listed(n)
    BY <1>1 DEF SeeHeld, Holds, LiveOwn, Listed
  <2> QED BY <1>b, <1>1, <2>1 DEF SeeHeld, ClientStates
<1>2. CASE LoseTrack(n)
  BY <1>b, <1>2 DEF LoseTrack, ClientStates
<1>3. CASE StartAcquire(n)
  BY <1>b, <1>3 DEF StartAcquire, ClientStates
<1>4. CASE TryAcquire(n)
  <2>1. ASSUME NEW u \in BOOLEAN, AcquireDraft(n, u), Goes(n, "claiming", "claimed")
        PROVE  LockInv'
    <3> DEFINE e == NewEntry(n, u)
    <3>1. Prepare(n, Append(locks, e)) /\ Len(locks) < MaxOwners
      BY <2>1, AcquireAppends DEF LockInv
    <3>2. e \in Entry /\ e.node = n
      BY <1>0, SMT DEF NewEntry, Entry
    <3> HIDE DEF e
    <3>3. /\ Append(locks, e) \in Seq(Entry) /\ Append(locks, e) # <<>>
          /\ Last(Append(locks, e)) = e
      <4>1. /\ Append(locks, e) \in Seq(Entry)
            /\ Len(Append(locks, e)) = Len(locks) + 1
            /\ Append(locks, e)[Len(locks) + 1] = e
        BY <1>0, <3>2, AppendProperties
      <4>2. Len(locks) \in Nat /\ Len(<<>>) = 0
        BY <1>0, LenProperties, EmptySeq
      <4>3. Append(locks, e) # <<>>
        BY <4>1, <4>2, SMT
      <4> QED BY <4>1, <4>3 DEF Last
    <3>4. client[n] # "held" /\ client' = [client EXCEPT ![n] = "claimed"]
      BY <2>1 DEF Goes
    <3> QED BY <3>1, <3>2, <3>3, <3>4, PrepareStep
  <2>2. ASSUME AcquireOwned(n), Goes(n, "claiming", "held")
        PROVE  LockInv'
    <3>1. locks # <<>> /\ locks[1].node = n /\ UNCHANGED lockVars
      BY <2>2 DEF AcquireOwned, SingleSettled
    <3>2. 1 \in DOMAIN locks
      BY <1>0, <3>1, EmptySeq, LenProperties, SMT
    <3>3. Listed(n)
      BY <3>1, <3>2 DEF Listed, Own
    <3> QED BY <1>b, <2>2, <3>1, <3>3 DEF ClientStates
  <2>3. ASSUME AcquireRefused(n), Goes(n, "claiming", "idle")
        PROVE  LockInv'
    BY <1>b, <2>3 DEF AcquireRefused, ClientStates
  <2> QED BY <1>4, <2>1, <2>2, <2>3 DEF TryAcquire
<1>5. CASE EndAcquire(n)
  <2>1. ASSUME UpdateDone(n), Goes(n, "claimed", "held")
        PROVE  LockInv'
    BY <2>1, WriteStep DEF Goes
  <2>2. ASSUME UpdateConflict(n), Goes(n, "claimed", "claiming")
        PROVE  LockInv'
    BY <1>c, <2>2 DEF UpdateConflict, Goes, ClientStates
  <2>3. ASSUME UpdateFails(n), Goes(n, "claimed", "idle")
        PROVE  LockInv'
    <3>1. CASE Forget(n)
      BY <1>c, <2>3, <3>1 DEF Goes, ClientStates
    <3>2. CASE UpdateDone(n)
      BY <2>3, <3>2, WriteStep DEF Goes
    <3> QED BY <2>3, <3>1, <3>2 DEF UpdateFails
  <2> QED BY <1>5, <2>1, <2>2, <2>3 DEF EndAcquire
<1>6. CASE StartRelease(n)
  BY <1>b, <1>6 DEF StartRelease, ClientStates
<1>7. CASE TryRelease(n)
  <2>1. ASSUME ReleaseDraft(n), Goes(n, "releasing", "released")
        PROVE  LockInv'
    <3>1. PICK i \in Own(n) : Prepare(n, AllBut(i))
      BY <2>1, ReleaseRemoves DEF LockInv
    <3>2. i \in DOMAIN locks
      BY DEF Own
    <3>3. AllBut(i) \in Seq(Entry)
      BY <1>0, <3>2, AllButKeeps
    <3>4. client[n] # "held" /\ client' = [client EXCEPT ![n] = "released"]
      BY <2>1 DEF Goes
    <3> QED BY <3>1, <3>3, <3>4, PrepareStep
  <2>2. ASSUME ReleaseRefused(n), Goes(n, "releasing", "idle")
        PROVE  LockInv'
    BY <1>b, <2>2 DEF ReleaseRefused, ClientStates
  <2> QED BY <1>7, <2>1, <2>2 DEF TryRelease
<1>8. CASE EndRelease(n)
  <2>1. ASSUME UpdateDone(n), Goes(n, "released", "idle")
        PROVE  LockInv'
    BY <2>1, WriteStep DEF Goes
  <2>2. ASSUME UpdateConflict(n), Goes(n, "released", "releasing")
        PROVE  LockInv'
    BY <1>c, <2>2 DEF UpdateConflict, Goes, ClientStates
  <2>3. ASSUME UpdateFails(n), Goes(n, "released", "idle")
        PROVE  LockInv'
    <3>1. CASE Forget(n)
      BY <1>c, <2>3, <3>1 DEF Goes, ClientStates
    <3>2. CASE UpdateDone(n)
      BY <2>3, <3>2, WriteStep DEF Goes
    <3> QED BY <2>3, <3>1, <3>2 DEF UpdateFails
  <2> QED BY <1>8, <2>1, <2>2, <2>3 DEF EndRelease
<1>9. CASE Crash(n)
  BY <1>c, <1>9 DEF Crash, ClientStates
<1> QED
  BY <1>1, <1>2, <1>3, <1>4, <1>5, <1>6, <1>7, <1>8, <1>9 DEF ClientStep

\* The invariant is inductive without a TTL.
LEMMA NextInv == ASSUME TTL = 0, LockInv, [Next]_vars PROVE LockInv'
<1>1. ASSUME NEW n \in Nodes, ClientStep(n)
      PROVE  LockInv'
  BY <1>1, ClientInv
<1>2. CASE TouchDaemonSet /\ UNCHANGED client
  <2>1. /\ locks' = locks /\ current' = {} /\ draft' = draft /\ now' = now
        /\ client' = client
    BY <1>2 DEF TouchDaemonSet
  <2>2. TypeOK'
    BY <2>1 DEF LockInv, TypeOK, LockTypeOK
  <2> QED BY <2>1, <2>2, QuietStep
<1>3. CASE TimePasses /\ UNCHANGED client
  <2>1. /\ locks' = locks /\ current' = current /\ draft' = draft /\ now' = now + 1
        /\ client' = client /\ now < MaxNow
    BY <1>3 DEF TimePasses
  <2>2. now \in 0..MaxNow /\ MaxNow \in Nat
    BY TimeAssumption DEF LockInv, TypeOK, LockTypeOK
  <2>3. now' \in 0..MaxNow
    BY <2>1, <2>2, SMT
  <2>4. TypeOK'
    BY <2>1, <2>3 DEF LockInv, TypeOK, LockTypeOK
  <2> QED BY <2>1, <2>4, QuietStep
<1>4. CASE UNCHANGED vars
  <2>1. /\ locks' = locks /\ current' = current /\ draft' = draft /\ now' = now
        /\ client' = client
    BY <1>4 DEF vars, lockVars
  <2>2. TypeOK'
    BY <2>1 DEF LockInv, TypeOK, LockTypeOK
  <2> QED BY <2>1, <2>2, QuietStep
<1> QED BY <1>1, <1>2, <1>3, <1>4 DEF Next

\* The invariant of the lock: as long as entries do not expire, whatever fails
\* and whoever restarts, the annotation fits, a node that acts on its slot is
\* in it, and what a fresh reader is about to write is the annotation plus or
\* minus one entry of its own (GetDaemonSet ... Update of daemonsetlock.go).
THEOREM LockInvariant == ASSUME TTL = 0 PROVE Spec => []LockInv
<1>1. Init => LockInv
  BY InitInv
<1>2. LockInv /\ [Next]_vars => LockInv'
  BY NextInv
<1> QED BY <1>1, <1>2, PTL DEF Spec

-----------------------------------------------------------------------------
(* Exclusion: an annotation that fits lists no more nodes than it has slots. *)

\* As many nodes as a sequence lists, it has entries.
LEMMA ListedBound ==
    ASSUME NEW s \in Seq(Entry), NEW S \in SUBSET Nodes,
           \A n \in S : \E i \in DOMAIN s : s[i].node = n
    PROVE  Cardinality(S) <= Len(s)
<1> DEFINE f == [n \in S |-> CHOOSE i \in DOMAIN s : s[i].node = n]
<1>1. Len(s) \in Nat /\ DOMAIN s = 1..Len(s)
  BY LenProperties
<1>2. IsFiniteSet(S) /\ Cardinality(S) \in Nat
  BY NodesAssumption, FS_Subset, FS_CardinalityType
<1>3. IsFiniteSet(DOMAIN s) /\ Cardinality(DOMAIN s) = Len(s)
  <2>1. 1 \in Int /\ Len(s) \in Int
    BY <1>1, SMT
  <2>2. IsFiniteSet(1..Len(s)) /\ Cardinality(1..Len(s)) = IF 1 > Len(s) THEN 0 ELSE Len(s) - 1 + 1
    BY <2>1, FS_Interval, Zenon
  <2>3. (IF 1 > Len(s) THEN 0 ELSE Len(s) - 1 + 1) = Len(s)
    BY <1>1, SMT
  <2> QED BY <1>1, <2>2, <2>3, Zenon
<1>4. \A n \in S : f[n] \in DOMAIN s /\ s[f[n]].node = n
  OBVIOUS
<1>5. f \in [S -> DOMAIN s]
  BY <1>4
<1> HIDE DEF f
<1>6. CASE Cardinality(DOMAIN s) < Cardinality(S)
  <2>1. \E x, y \in S : x # y /\ f[x] = f[y]
    BY <1>2, <1>3, <1>5, <1>6, FS_PigeonHole
  <2> QED BY <1>4, <2>1
<1> QED BY <1>1, <1>2, <1>3, <1>6, SMT

\* MutualExclusion follows from the invariant.
LEMMA InvExcludes == LockInv => MutualExclusion
<1> SUFFICES ASSUME LockInv, TTL = 0 PROVE Cardinality(Holders) <= MaxOwners
  BY DEF MutualExclusion
<1>1. locks \in Seq(Entry) /\ Len(locks) <= MaxOwners /\ Len(locks) \in Nat
  BY LenProperties DEF LockInv, TypeOK, LockTypeOK, WithinCapacity
<1>2. Holders \in SUBSET Nodes /\ \A n \in Holders : \E i \in DOMAIN locks : locks[i].node = n
  BY DEF LockInv, HeldIsListed, Holders, Listed, Own
<1>3. Cardinality(Holders) <= Len(locks)
  BY <1>1, <1>2, ListedBound
<1>4. Cardinality(Holders) \in Nat
  BY <1>2, NodesAssumption, FS_Subset, FS_CardinalityType
<1> QED BY <1>1, <1>3, <1>4, MaxOwnersIsPositive, SMT

\* The promise of the lock: without a TTL at most --concurrency nodes believe
\* that they hold it, in every interleaving of Acquire, Release, Holding,
\* conflicts, lost answers and restarts.
THEOREM Exclusion == Spec => []MutualExclusion
<1>1. CASE TTL = 0
  <2>1. Spec => []LockInv
    BY <1>1, LockInvariant
  <2> QED BY <2>1, InvExcludes, PTL
<1>2. CASE TTL # 0
  <2>1. MutualExclusion
    BY <1>2 DEF MutualExclusion
  <2> QED BY <2>1, PTL
<1> QED BY <1>1, <1>2

-----------------------------------------------------------------------------
(* The lock implements RebootSlots. *)

Listing == {n \in Nodes : Listed(n)}

\* What a node has prepared while its copy is the latest lists only nodes that
\* are listed already, and itself if it is claiming.
LEMMA DraftLists ==
    ASSUME TTL = 0, LockInv, NEW n \in Nodes, n \in current,
           NEW k \in DOMAIN draft[n]
    PROVE  \/ \E j \in DOMAIN locks : locks[j].node = draft[n][k].node
           \/ client[n] = "claimed" /\ draft[n][k].node = n
<1>1. /\ locks \in Seq(Entry) /\ draft[n] \in Seq(Entry)
      /\ Len(locks) \in Nat
      /\ DOMAIN locks = 1..Len(locks)
      /\ DOMAIN draft[n] = 1..Len(draft[n])
  BY LenProperties DEF LockInv, TypeOK, LockTypeOK
<1>2. CASE client[n] = "claimed"
  <2> DEFINE e == Last(draft[n])
  <2>1. draft[n] # <<>> /\ e.node = n /\ draft[n] = Append(locks, e)
    BY <1>2 DEF LockInv, DraftsAreFresh
  <2>2. e \in Entry
    BY <1>1, <2>1, EmptySeq, SMT DEF Last
  <2> HIDE DEF e
  <2>3. /\ Len(draft[n]) = Len(locks) + 1
        /\ \A i \in 1..Len(locks) : draft[n][i] = locks[i]
        /\ draft[n][Len(locks) + 1] = e
    BY <1>1, <2>1, <2>2, AppendProperties
  <2>4. k \in 1..Len(locks) \/ k = Len(locks) + 1
    BY <1>1, <2>3, SMT
  <2> QED BY <1>1, <1>2, <2>1, <2>3, <2>4
<1>3. CASE client[n] = "released"
  <2>1. PICK i \in Own(n) : draft[n] = AllBut(i)
    BY <1>3 DEF LockInv, DraftsAreFresh
  <2>2. i \in DOMAIN locks
    BY <2>1 DEF Own
  <2> DEFINE r == AllBut(i)
  <2>3. \A j \in DOMAIN r : \E m \in DOMAIN locks : locks[m] = r[j]
    BY <1>1, <2>2, AllButKeeps, Zenon
  <2>4. draft[n] = r
    BY <2>1
  <2> HIDE DEF r
  <2>5. \E m \in DOMAIN locks : locks[m] = draft[n][k]
    BY <2>3, <2>4
  <2> QED BY <2>5
<1>4. client[n] \in {"claimed", "released"}
  BY DEF LockInv, DraftsAreFresh
<1> QED BY <1>2, <1>3, <1>4

\* An Update adds its writer to the nodes listed if it claimed, and removes at
\* most its writer if it did not.
LEMMA WriteLists ==
    ASSUME TTL = 0, LockInv, NEW n \in Nodes, UpdateDone(n)
    PROVE  \/ client[n] = "claimed" /\ Listing' = Listing \union {n}
           \/ client[n] = "released" /\ Listing' \in {Listing, Listing \ {n}}
<1>1. n \in current /\ locks' = draft[n]
  BY DEF UpdateDone
<1>2. \A m \in Nodes : m # n => (Listed(m) <=> Listed(m)')
  <2>1. \A m \in Nodes : m # n /\ Listed(m) => Listed(m)'
    BY <1>1, FreshDraft DEF Listed, Own
  <2>2. \A m \in Nodes : m # n /\ Listed(m)' => Listed(m)
    BY <1>1, DraftLists DEF Listed, Own
  <2> QED BY <2>1, <2>2
<1>3. CASE client[n] = "claimed"
  <2>1. Listed(n)'
    BY <1>1, <1>3, FreshDraft DEF Listed, Own
  <2> QED BY <1>2, <1>3, <2>1 DEF Listing
<1>4. CASE client[n] = "released"
  <2>1. CASE Listed(n) /\ ~Listed(n)'
    <3>1. Listing' = Listing \ {n}
      BY <1>2, <2>1 DEF Listing
    <3> QED BY <1>4, <3>1
  <2>2. CASE ~Listed(n) /\ Listed(n)'
    BY <1>1, <1>4, <2>2, DraftLists DEF Listed, Own
  <2>3. CASE Listed(n) <=> Listed(n)'
    <3>1. Listing' = Listing
      BY <1>2, <2>3 DEF Listing
    <3> QED BY <1>4, <3>1
  <2> QED BY <2>1, <2>2, <2>3
<1>5. client[n] \in {"claimed", "released"}
  BY <1>1 DEF LockInv, DraftsAreFresh
<1> QED BY <1>3, <1>4, <1>5

\* RebootSlots counts with the same Cardinality.
LEMMA SlotsCardinality == \A S : Slots!Cardinality(S) = Cardinality(S)
  BY DEF Slots!Cardinality, Cardinality

\* Every step of a client is a step of RebootSlots or changes no slot.
LEMMA ClientSteps ==
    ASSUME TTL = 0, LockInv, LockInv', NEW n \in Nodes, ClientStep(n)
    PROVE  \/ Slots!Grant(n) \/ Slots!GrantUnseen(n) \/ Slots!Resume(n)
           \/ Slots!Quit(n) \/ Slots!Return(n)
           \/ Listing' = Listing /\ Holders' = Holders
<1>0. client \in [Nodes -> ClientStates] /\ Holders \subseteq Nodes
  BY DEF LockInv, TypeOK, Holders
<1>a. ASSUME NEW to, client' = [client EXCEPT ![n] = to]
      PROVE  Holders' = IF to = "held" THEN Holders \union {n} ELSE Holders \ {n}
  BY <1>0, <1>a DEF Holders
<1>b. ASSUME locks' = locks
      PROVE  Listing' = Listing
  BY <1>b DEF Listing, Listed, Own
<1>c. Cardinality(Listing') <= MaxOwners
  <2>1. locks' \in Seq(Entry) /\ Len(locks') <= MaxOwners /\ Len(locks') \in Nat
    BY LenProperties DEF LockInv, TypeOK, LockTypeOK, WithinCapacity, MaxOwners, MultiLock
  <2>2. /\ Listing' \in SUBSET Nodes
        /\ \A m \in Listing' : \E i \in DOMAIN locks' : locks'[i].node = m
    BY DEF Listing, Listed, Own
  <2>3. Cardinality(Listing') <= Len(locks')
    BY <2>1, <2>2, ListedBound
  <2>4. Cardinality(Listing') \in Nat
    BY <2>2, NodesAssumption, FS_Subset, FS_CardinalityType
  <2> QED BY <2>1, <2>3, <2>4, MaxOwnersIsPositive, SMT
<1>e. ASSUME locks' = locks, NEW to, client' = [client EXCEPT ![n] = to], to # "held"
      PROVE  Slots!Quit(n)
  BY <1>a, <1>b, <1>e DEF Slots!Quit, Listing
<1>f. ASSUME locks' = locks, client' = [client EXCEPT ![n] = "held"], Listed(n)
      PROVE  Slots!Resume(n)
  BY <1>a, <1>b, <1>f DEF Slots!Resume, Listing
<1>g. ASSUME UpdateDone(n), client[n] = "claimed", client' = [client EXCEPT ![n] = "held"]
      PROVE  Slots!Grant(n)
  <2>1. Listing' = Listing \union {n}
    BY <1>g, WriteLists
  <2>2. Holders' = Holders \union {n}
    BY <1>a, <1>g
  <2>3. Slots!Cardinality(Listing \union {n}) <= MaxOwners
    BY <1>c, <2>1, SlotsCardinality
  <2> QED BY <2>1, <2>2, <2>3 DEF Slots!Grant, Listing
<1>h. ASSUME UpdateDone(n), client[n] = "claimed", client' = [client EXCEPT ![n] = "idle"]
      PROVE  Slots!GrantUnseen(n)
  <2>1. Listing' = Listing \union {n}
    BY <1>h, WriteLists
  <2>2. Holders' = Holders
    BY <1>a, <1>h DEF Holders
  <2>3. Slots!Cardinality(Listing \union {n}) <= MaxOwners
    BY <1>c, <2>1, SlotsCardinality
  <2> QED BY <2>1, <2>2, <2>3 DEF Slots!GrantUnseen, Listing
<1>i. ASSUME UpdateDone(n), client[n] = "released", client' = [client EXCEPT ![n] = "idle"]
      PROVE  Slots!Return(n) \/ (Listing' = Listing /\ Holders' = Holders)
  <2>1. Listing' \in {Listing, Listing \ {n}}
    BY <1>i, WriteLists
  <2>2. Holders' = Holders /\ n \notin Holders
    BY <1>a, <1>i DEF Holders
  <2> QED BY <2>1, <2>2 DEF Slots!Return, Listing
<1>1. CASE SeeHeld(n)
  <2>1. Listed(n)
    BY <1>1 DEF SeeHeld, Holds, LiveOwn, Listed
  <2> QED BY <1>f, <1>1, <2>1 DEF SeeHeld, Goes, lockVars
<1>2. CASE LoseTrack(n)
  BY <1>e, <1>2 DEF LoseTrack, Goes, lockVars
<1>3. CASE StartAcquire(n)
  BY <1>e, <1>3 DEF StartAcquire, Goes, lockVars
<1>4. CASE TryAcquire(n)
  <2>1. ASSUME NEW u \in BOOLEAN, AcquireDraft(n, u), Goes(n, "claiming", "claimed")
        PROVE  Slots!Quit(n)
    <3>1. Prepare(n, Append(locks, NewEntry(n, u)))
      BY <2>1, AcquireAppends DEF LockInv
    <3>2. locks' = locks
      BY <3>1 DEF Prepare
    <3> QED BY <1>e, <2>1, <3>2 DEF Goes
  <2>2. ASSUME AcquireOwned(n), Goes(n, "claiming", "held")
        PROVE  Slots!Resume(n)
    <3>1. locks # <<>> /\ locks[1].node = n /\ locks' = locks
      BY <2>2 DEF AcquireOwned, SingleSettled, lockVars
    <3>2. 1 \in DOMAIN locks
      BY <3>1, EmptySeq, LenProperties, SMT DEF LockInv, TypeOK, LockTypeOK
    <3>3. Listed(n)
      BY <3>1, <3>2 DEF Listed, Own
    <3> QED BY <1>f, <2>2, <3>1, <3>3 DEF Goes
  <2>3. ASSUME AcquireRefused(n), Goes(n, "claiming", "idle")
        PROVE  Slots!Quit(n)
    BY <1>e, <2>3 DEF AcquireRefused, Goes, lockVars
  <2> QED BY <1>4, <2>1, <2>2, <2>3 DEF TryAcquire
<1>5. CASE EndAcquire(n)
  <2>1. ASSUME UpdateDone(n), Goes(n, "claimed", "held")
        PROVE  Slots!Grant(n)
    BY <1>g, <2>1 DEF Goes
  <2>2. ASSUME UpdateConflict(n), Goes(n, "claimed", "claiming")
        PROVE  Slots!Quit(n)
    BY <1>e, <2>2 DEF UpdateConflict, Forget, Goes
  <2>3. ASSUME UpdateFails(n), Goes(n, "claimed", "idle")
        PROVE  Slots!GrantUnseen(n) \/ Slots!Quit(n)
    BY <1>e, <1>h, <2>3 DEF UpdateFails, Forget, Goes
  <2> QED BY <1>5, <2>1, <2>2, <2>3 DEF EndAcquire
<1>6. CASE StartRelease(n)
  BY <1>e, <1>6 DEF StartRelease, Goes, lockVars
<1>7. CASE TryRelease(n)
  <2>1. ASSUME ReleaseDraft(n), Goes(n, "releasing", "released")
        PROVE  Slots!Quit(n)
    <3>1. locks' = locks
      BY <2>1, ReleaseRemoves DEF LockInv, Prepare
    <3> QED BY <1>e, <2>1, <3>1 DEF Goes
  <2>2. ASSUME ReleaseRefused(n), Goes(n, "releasing", "idle")
        PROVE  Slots!Quit(n)
    BY <1>e, <2>2 DEF ReleaseRefused, Goes, lockVars
  <2> QED BY <1>7, <2>1, <2>2 DEF TryRelease
<1>8. CASE EndRelease(n)
  <2>1. ASSUME UpdateConflict(n), Goes(n, "released", "releasing")
        PROVE  Slots!Quit(n)
    BY <1>e, <2>1 DEF UpdateConflict, Forget, Goes
  <2>2. ASSUME Forget(n), Goes(n, "released", "idle")
        PROVE  Slots!Quit(n)
    BY <1>e, <2>2 DEF Forget, Goes
  <2> QED BY <1>i, <1>8, <2>1, <2>2 DEF EndRelease, UpdateFails, Goes
<1>9. CASE Crash(n)
  BY <1>e, <1>9 DEF Crash, Forget
<1> QED
  BY <1>1, <1>2, <1>3, <1>4, <1>5, <1>6, <1>7, <1>8, <1>9 DEF ClientStep

\* The lock refines the slots it promises: the nodes in the annotation are those
\* that were granted a slot, and only they act; a restart costs no slot.
THEOREM ImplementsSlots == ASSUME TTL = 0 PROVE Spec => SlotsSpec
<1>1. Init => Slots!SlotInit
  <2> SUFFICES ASSUME Init PROVE Listing = {} /\ Holders = {}
    BY DEF Slots!SlotInit, Listing
  <2>1. locks = <<>> /\ DOMAIN locks = {}
    BY EmptySeq, LenProperties, SMT DEF Init, LockInit
  <2> QED BY <2>1 DEF Init, Listing, Listed, Own, Holders
<1>2. LockInv /\ LockInv' /\ [Next]_vars => [Slots!SlotNext]_(Slots!slotVars)
  <2> SUFFICES ASSUME LockInv, LockInv', [Next]_vars
               PROVE  Slots!SlotNext \/ (Listing' = Listing /\ Holders' = Holders)
    BY DEF Slots!slotVars, Listing
  <2>1. ASSUME NEW n \in Nodes, ClientStep(n)
        PROVE  Slots!SlotNext \/ (Listing' = Listing /\ Holders' = Holders)
    BY <2>1, ClientSteps DEF Slots!SlotNext
  <2>2. ASSUME locks' = locks, client' = client
        PROVE  Listing' = Listing /\ Holders' = Holders
    BY <2>2 DEF Listing, Listed, Own, Holders
  <2> QED BY <2>1, <2>2 DEF Next, TouchDaemonSet, TimePasses, vars, lockVars
<1>3. Spec => []LockInv
  BY LockInvariant
<1> QED BY <1>1, <1>2, <1>3, PTL DEF Spec, SlotsSpec, Slots!SlotSpec

-----------------------------------------------------------------------------
(* Either lock with any --lock-ttl: an expired entry may be given away     *)
(* while its owner acts on it, a live one may not.                         *)

\* What a node has prepared while its copy is the latest: Acquire drops nothing
\* but what has expired, Release nothing that is not the caller's.
DraftsSpareLive ==
    \A n \in current :
        /\ client[n] \in {"claimed", "released"}
        /\ Len(draft[n]) <= MaxOwners
        /\ \A i \in DOMAIN locks :
              \/ \E k \in DOMAIN draft[n] : draft[n][k] = locks[i]
              \/ client[n] = "claimed" /\ TtlExpired(locks[i])
              \/ client[n] = "released" /\ locks[i].node = n

\* The inductive invariant, for a lock whose entries expire.
ExpiryInv == TypeOK /\ WithinCapacity /\ DraftsSpareLive

\* The invariant holds at the start.
LEMMA ExpiryInit == Init => ExpiryInv
  BY InitInv DEF LockInv, ExpiryInv, DraftsSpareLive, Init, LockInit

\* What the clock has let expire stays expired.
LEMMA StaysExpired ==
    ASSUME TypeOK, TypeOK', now' = now \/ now' = now + 1, NEW e \in Entry, TtlExpired(e)
    PROVE  TtlExpired(e)'
<1>1. e.created \in Nat /\ now \in Int /\ TTL \in Nat
  BY TimeAssumption DEF TypeOK, LockTypeOK, Entry
<1>2. TTL > 0 /\ now' - e.created >= TTL
  BY <1>1, SMT DEF TtlExpired
<1> QED BY <1>2 DEF TtlExpired

\* A step that writes nothing and makes no copy fresh.
LEMMA ExpiryQuiet ==
    ASSUME ExpiryInv, TypeOK', locks' = locks, now' = now \/ now' = now + 1,
           current' \subseteq current,
           \A m \in current' : client'[m] = client[m] /\ draft'[m] = draft[m]
    PROVE  ExpiryInv'
<1>1. WithinCapacity'
  BY DEF ExpiryInv, WithinCapacity, MaxOwners, MultiLock
<1>2. \A i \in DOMAIN locks : TtlExpired(locks[i]) => TtlExpired(locks[i])'
  <2> SUFFICES ASSUME NEW i \in DOMAIN locks, TtlExpired(locks[i])
               PROVE  TtlExpired(locks[i])'
    OBVIOUS
  <2>1. locks[i] \in Entry /\ TypeOK
    BY DEF ExpiryInv, TypeOK, LockTypeOK
  <2>2. \A e \in Entry : TtlExpired(e) => TtlExpired(e)'
    BY <2>1, StaysExpired
  <2> QED BY <2>1, <2>2 DEF TtlExpired
<1>3. DraftsSpareLive'
  BY <1>2 DEF ExpiryInv, DraftsSpareLive, MaxOwners, MultiLock
<1> QED BY <1>1, <1>3 DEF ExpiryInv

\* The Update of a fresh copy.
LEMMA ExpiryWrite ==
    ASSUME ExpiryInv, NEW n \in Nodes, UpdateDone(n), NEW to \in ClientStates,
           client' = [client EXCEPT ![n] = to]
    PROVE  ExpiryInv'
<1>1. /\ n \in current /\ locks' = draft[n] /\ current' = {}
      /\ draft' = [draft EXCEPT ![n] = <<>>] /\ now' = now
  BY DEF UpdateDone
<1>2. <<>> \in Seq(Entry)
  BY EmptySeq
<1>3. TypeOK'
  BY <1>1, <1>2 DEF ExpiryInv, TypeOK, LockTypeOK
<1>4. WithinCapacity'
  BY <1>1 DEF ExpiryInv, DraftsSpareLive, WithinCapacity, MaxOwners, MultiLock
<1> QED BY <1>1, <1>3, <1>4 DEF ExpiryInv, DraftsSpareLive

\* A read that prepares a draft.
LEMMA ExpiryPrepare ==
    ASSUME ExpiryInv, NEW n \in Nodes, NEW annotation \in Seq(Entry),
           Len(annotation) <= MaxOwners, Prepare(n, annotation),
           NEW to \in {"claimed", "released"}, client' = [client EXCEPT ![n] = to],
           \A i \in DOMAIN locks :
              \/ \E k \in DOMAIN annotation : annotation[k] = locks[i]
              \/ to = "claimed" /\ TtlExpired(locks[i])
              \/ to = "released" /\ locks[i].node = n
    PROVE  ExpiryInv'
<1>1. /\ draft' = [draft EXCEPT ![n] = annotation]
      /\ current' = current \union {n}
      /\ now' = now /\ locks' = locks
  BY DEF Prepare
<1>2. TypeOK'
  BY <1>1 DEF ExpiryInv, TypeOK, LockTypeOK, ClientStates
<1>3. WithinCapacity'
  BY <1>1 DEF ExpiryInv, WithinCapacity, MaxOwners, MultiLock
<1>4. /\ client'[n] = to /\ draft'[n] = annotation
      /\ \A m \in Nodes : m # n => client'[m] = client[m] /\ draft'[m] = draft[m]
  BY <1>1 DEF ExpiryInv, TypeOK, LockTypeOK
<1>5. current \subseteq Nodes /\ \A i \in DOMAIN locks : TtlExpired(locks[i])' <=> TtlExpired(locks[i])
  BY <1>1 DEF ExpiryInv, TypeOK, LockTypeOK, TtlExpired
<1>6. DraftsSpareLive'
  <2> SUFFICES ASSUME NEW m \in current'
               PROVE  /\ client'[m] \in {"claimed", "released"}
                      /\ Len(draft'[m]) <= MaxOwners
                      /\ \A i \in DOMAIN locks :
                            \/ \E k \in DOMAIN draft'[m] : draft'[m][k] = locks[i]
                            \/ client'[m] = "claimed" /\ TtlExpired(locks[i])
                            \/ client'[m] = "released" /\ locks[i].node = m
    BY <1>1, <1>5 DEF DraftsSpareLive, MaxOwners, MultiLock
  <2>1. CASE m = n
    BY <1>4, <2>1
  <2>2. CASE m # n
    <3>1. m \in current /\ m \in Nodes
      BY <1>1, <1>5, <2>2
    <3>2. client'[m] = client[m] /\ draft'[m] = draft[m]
      BY <1>4, <2>2, <3>1
    <3> QED BY <3>1, <3>2 DEF ExpiryInv, DraftsSpareLive
  <2> QED BY <2>1, <2>2
<1> QED BY <1>2, <1>3, <1>6 DEF ExpiryInv

\* Acquire makes room by dropping expired entries only.
LEMMA AcquireSparesLive ==
    ASSUME TypeOK, WithinCapacity, NEW n \in Nodes, NEW u \in BOOLEAN, AcquireDraft(n, u)
    PROVE  \E annotation \in Seq(Entry) :
              /\ Prepare(n, annotation) /\ Len(annotation) <= MaxOwners
              /\ \A i \in DOMAIN locks :
                    \/ \E k \in DOMAIN annotation : annotation[k] = locks[i]
                    \/ TtlExpired(locks[i])
<1> DEFINE e == NewEntry(n, u)
<1>1. /\ locks \in Seq(Entry) /\ Len(locks) \in Nat /\ DOMAIN locks = 1..Len(locks)
      /\ Len(locks) <= MaxOwners /\ MaxOwners \in Nat /\ MaxOwners >= 1
  BY LenProperties, MaxOwnersIsPositive DEF TypeOK, LockTypeOK, WithinCapacity
<1>2. e \in Entry
  <2>1. now \in Nat
    BY TimeAssumption, SMT DEF TypeOK, LockTypeOK
  <2> QED BY <2>1 DEF NewEntry, Entry
<1> HIDE DEF e
<1>3. CASE AcquireSingleDraft(n, u)
  <2>1. Prepare(n, <<e>>) /\ ~MultiLock /\ ~SingleSettled
    BY <1>3 DEF AcquireSingleDraft, e
  <2>2. \A i \in DOMAIN locks : i = 1 /\ locks # <<>>
    BY <1>1, <2>1 DEF MaxOwners
  <2>3. \A i \in DOMAIN locks : TtlExpired(locks[i])
    BY <2>1, <2>2 DEF SingleSettled
  <2>4. <<e>> \in Seq(Entry) /\ Len(<<e>>) = 1
    BY <1>2
  <2>5. Len(<<e>>) <= MaxOwners
    BY <1>1, <2>4
  <2> QED BY <2>1, <2>3, <2>4, <2>5
<1>4. CASE AcquireMultiDraft(n, u)
  <2>1. Prepare(n, Append(KeptEntries, e)) /\ FreeSpace
    BY <1>4 DEF AcquireMultiDraft, e
  <2>2. /\ KeptEntries \in Seq(Entry) /\ Len(KeptEntries) < MaxOwners
        /\ \A i \in DOMAIN locks :
              \/ \E k \in DOMAIN KeptEntries : KeptEntries[k] = locks[i]
              \/ TtlExpired(locks[i])
    <3>1. CASE Len(locks) < MaxOwners
      BY <1>1, <3>1 DEF KeptEntries
    <3>2. CASE ~(Len(locks) < MaxOwners)
      <4> DEFINE live == {i \in DOMAIN locks : ~TtlExpired(locks[i])}
      <4>1. KeptEntries = LiveEntries /\ live # DOMAIN locks
        BY <2>1, <3>2 DEF KeptEntries, FreeSpace
      <4>2. /\ LiveEntries \in Seq(Entry) /\ Len(LiveEntries) < Len(locks)
            /\ \A i \in live : \E k \in DOMAIN LiveEntries : LiveEntries[k] = locks[i]
        <5>1. live \in SUBSET DOMAIN locks /\ LiveEntries = Sublist(locks, live)
          BY DEF LiveEntries
        <5> HIDE DEF live
        <5> QED BY <1>1, <4>1, <5>1, SublistElements
      <4>3. Len(LiveEntries) < MaxOwners
        <5>1. Len(LiveEntries) \in Nat
          BY <4>2, LenProperties
        <5> QED BY <1>1, <4>2, <5>1, SMT
      <4> QED BY <4>1, <4>2, <4>3
    <3> QED BY <3>1, <3>2
  <2> DEFINE a == Append(KeptEntries, e)
  <2>3. /\ a \in Seq(Entry) /\ Len(a) = Len(KeptEntries) + 1
        /\ \A k \in 1..Len(KeptEntries) : a[k] = KeptEntries[k]
    BY <1>2, <2>2, AppendProperties
  <2>4. /\ Len(KeptEntries) \in Nat /\ DOMAIN KeptEntries = 1..Len(KeptEntries)
        /\ DOMAIN a = 1..Len(a)
    BY <2>2, <2>3, LenProperties
  <2> HIDE DEF a
  <2>5. Len(a) <= MaxOwners /\ \A k \in DOMAIN KeptEntries : k \in DOMAIN a /\ a[k] = KeptEntries[k]
    BY <1>1, <2>2, <2>3, <2>4, SMT
  <2>6. Prepare(n, a)
    BY <2>1 DEF a
  <2>7. \A i \in DOMAIN locks : (\E k \in DOMAIN a : a[k] = locks[i]) \/ TtlExpired(locks[i])
    BY <2>2, <2>5
  <2> QED BY <2>3, <2>5, <2>6, <2>7
<1> QED BY <1>3, <1>4 DEF AcquireDraft

\* The steps of one client.
LEMMA ExpiryClient ==
    ASSUME ExpiryInv, NEW n \in Nodes, ClientStep(n)
    PROVE  ExpiryInv'
<1>0. /\ locks \in Seq(Entry) /\ draft \in [Nodes -> Seq(Entry)]
      /\ client \in [Nodes -> ClientStates] /\ current \subseteq Nodes
      /\ now \in 0..MaxNow /\ <<>> \in Seq(Entry)
      /\ \A m \in current : client[m] \in {"claimed", "released"}
  BY EmptySeq DEF ExpiryInv, TypeOK, LockTypeOK, DraftsSpareLive
<1>1. ASSUME UNCHANGED lockVars, NEW from \in ClientStates, NEW to \in ClientStates,
             Goes(n, from, to), from \notin {"claimed", "released"}
      PROVE  ExpiryInv'
  <2>1. /\ locks' = locks /\ current' = current /\ draft' = draft /\ now' = now
        /\ client[n] = from /\ client' = [client EXCEPT ![n] = to]
    BY <1>1 DEF lockVars, Goes
  <2>2. TypeOK'
    BY <1>0, <2>1 DEF TypeOK, LockTypeOK
  <2>3. \A m \in current' : client'[m] = client[m] /\ draft'[m] = draft[m]
    BY <1>0, <1>1, <2>1
  <2> QED BY <2>1, <2>2, <2>3, ExpiryQuiet
<1>2. ASSUME Forget(n), NEW to \in ClientStates, client' = [client EXCEPT ![n] = to]
      PROVE  ExpiryInv'
  <2>1. /\ locks' = locks /\ current' = current \ {n} /\ now' = now
        /\ draft' = [draft EXCEPT ![n] = <<>>]
    BY <1>2 DEF Forget
  <2>2. TypeOK'
    BY <1>0, <1>2, <2>1 DEF TypeOK, LockTypeOK
  <2>3. \A m \in current' : client'[m] = client[m] /\ draft'[m] = draft[m]
    BY <1>0, <1>2, <2>1
  <2> QED BY <2>1, <2>2, <2>3, ExpiryQuiet
<1>3. CASE SeeHeld(n) \/ LoseTrack(n) \/ StartAcquire(n) \/ StartRelease(n)
  BY <1>1, <1>3 DEF SeeHeld, LoseTrack, StartAcquire, StartRelease, ClientStates
<1>4. CASE TryAcquire(n)
  <2>1. ASSUME NEW u \in BOOLEAN, AcquireDraft(n, u), Goes(n, "claiming", "claimed")
        PROVE  ExpiryInv'
    <3>1. PICK annotation \in Seq(Entry) :
             /\ Prepare(n, annotation) /\ Len(annotation) <= MaxOwners
             /\ \A i \in DOMAIN locks :
                   \/ \E k \in DOMAIN annotation : annotation[k] = locks[i]
                   \/ TtlExpired(locks[i])
      BY <2>1, AcquireSparesLive DEF ExpiryInv
    <3> QED BY <2>1, <3>1, ExpiryPrepare DEF Goes
  <2>2. ASSUME AcquireOwned(n), Goes(n, "claiming", "held")
        PROVE  ExpiryInv'
    BY <1>1, <2>2 DEF AcquireOwned, ClientStates
  <2>3. ASSUME AcquireRefused(n), Goes(n, "claiming", "idle")
        PROVE  ExpiryInv'
    BY <1>1, <2>3 DEF AcquireRefused, ClientStates
  <2> QED BY <1>4, <2>1, <2>2, <2>3 DEF TryAcquire
<1>5. CASE TryRelease(n)
  <2>1. ASSUME ReleaseDraft(n), Goes(n, "releasing", "released")
        PROVE  ExpiryInv'
    <3>1. PICK i \in Own(n) : Prepare(n, AllBut(i))
      BY <2>1, ReleaseRemoves DEF ExpiryInv
    <3>2. i \in DOMAIN locks /\ locks[i].node = n
      BY DEF Own
    <3> DEFINE r == AllBut(i)
    <3>3. /\ r \in Seq(Entry) /\ Len(r) = Len(locks) - 1
          /\ \A j \in DOMAIN locks : j # i => \E k \in DOMAIN r : r[k] = locks[j]
      BY <1>0, <3>2, AllButKeeps
    <3>4. Prepare(n, r)
      BY <3>1
    <3> HIDE DEF r
    <3>5. Len(r) <= MaxOwners
      <4>1. Len(locks) \in Nat /\ Len(locks) <= MaxOwners /\ Len(r) = Len(locks) - 1
        BY <1>0, <3>3, LenProperties DEF ExpiryInv, WithinCapacity
      <4> QED BY <4>1, MaxOwnersIsPositive, SMT
    <3>6. \A j \in DOMAIN locks :
             (\E k \in DOMAIN r : r[k] = locks[j]) \/ locks[j].node = n
      BY <3>2, <3>3
    <3>7. client' = [client EXCEPT ![n] = "released"]
      BY <2>1 DEF Goes
    <3> QED BY <3>3, <3>4, <3>5, <3>6, <3>7, ExpiryPrepare
  <2>2. ASSUME ReleaseRefused(n), Goes(n, "releasing", "idle")
        PROVE  ExpiryInv'
    BY <1>1, <2>2 DEF ReleaseRefused, ClientStates
  <2> QED BY <1>5, <2>1, <2>2 DEF TryRelease
<1>6. CASE EndAcquire(n) \/ EndRelease(n)
  <2>1. PICK to \in ClientStates :
           /\ client' = [client EXCEPT ![n] = to]
           /\ UpdateDone(n) \/ UpdateConflict(n) \/ UpdateFails(n)
    BY <1>6 DEF EndAcquire, EndRelease, Goes, ClientStates
  <2> QED BY <1>2, <2>1, ExpiryWrite DEF UpdateConflict, UpdateFails
<1>7. CASE Crash(n)
  BY <1>2, <1>7 DEF Crash, ClientStates
<1> QED BY <1>3, <1>4, <1>5, <1>6, <1>7 DEF ClientStep

\* The invariant is inductive.
LEMMA ExpiryNext == ASSUME ExpiryInv, [Next]_vars PROVE ExpiryInv'
<1>1. CASE \E n \in Nodes : ClientStep(n)
  BY <1>1, ExpiryClient
<1>2. CASE TouchDaemonSet /\ UNCHANGED client
  <2>1. /\ locks' = locks /\ current' = {} /\ draft' = draft /\ now' = now
        /\ client' = client
    BY <1>2 DEF TouchDaemonSet
  <2>2. TypeOK'
    BY <2>1 DEF ExpiryInv, TypeOK, LockTypeOK
  <2> QED BY <2>1, <2>2, ExpiryQuiet
<1>3. CASE TimePasses /\ UNCHANGED client
  <2>1. /\ locks' = locks /\ current' = current /\ draft' = draft /\ now' = now + 1
        /\ client' = client /\ now < MaxNow
    BY <1>3 DEF TimePasses
  <2>2. now \in 0..MaxNow /\ MaxNow \in Nat
    BY TimeAssumption DEF ExpiryInv, TypeOK, LockTypeOK
  <2>3. now' \in 0..MaxNow
    BY <2>1, <2>2, SMT
  <2>4. TypeOK'
    BY <2>1, <2>3 DEF ExpiryInv, TypeOK, LockTypeOK
  <2> QED BY <2>1, <2>4, ExpiryQuiet
<1>4. CASE UNCHANGED vars
  <2>1. /\ locks' = locks /\ current' = current /\ draft' = draft /\ now' = now
        /\ client' = client
    BY <1>4 DEF vars, lockVars
  <2>2. TypeOK'
    BY <2>1 DEF ExpiryInv, TypeOK, LockTypeOK
  <2> QED BY <2>1, <2>2, ExpiryQuiet
<1> QED BY <1>1, <1>2, <1>3, <1>4 DEF Next

\* Of a copy that is still the latest, no node is about to write more entries than
\* there are slots or to drop a live entry of another, whatever the TTL.
THEOREM ExpiryInvariant == Spec => []ExpiryInv
<1>1. Init => ExpiryInv
  BY ExpiryInit
<1>2. ExpiryInv /\ [Next]_vars => ExpiryInv'
  BY ExpiryNext
<1> QED BY <1>1, <1>2, PTL DEF Spec

\* The annotation never has more entries than slots, whatever the TTL.
THEOREM Capacity == Spec => []WithinCapacity
<1>1. ExpiryInv => WithinCapacity
  BY DEF ExpiryInv
<1> QED BY <1>1, ExpiryInvariant, PTL

-----------------------------------------------------------------------------
(* What a write drops.                                                     *)

EntriesKept ==
    \A i \in DOMAIN locks :
        \/ TtlExpired(locks[i])
        \/ \E j \in DOMAIN locks' : locks'[j] = locks[i]
        \/ client[locks[i].node] = "released"

\* Only an Update writes.
LEMMA OnlyUpdatesWrite == [Next]_vars => UNCHANGED locks \/ \E n \in Nodes : UpdateDone(n)
  BY DEF Next, ClientStep, SeeHeld, LoseTrack, StartAcquire, TryAcquire, EndAcquire,
         StartRelease, TryRelease, EndRelease, Crash, AcquireDraft, AcquireSingleDraft,
         AcquireMultiDraft, AcquireOwned, AcquireRefused, ReleaseDraft, ReleaseSingleDraft,
         ReleaseMultiDraft, ReleaseRefused, Prepare, UpdateConflict, UpdateFails, Forget,
         TouchDaemonSet, TimePasses, vars, lockVars

\* A write drops what its draft did.
LEMMA WriteKeeps ==
    ASSUME ExpiryInv, NEW n \in Nodes, UpdateDone(n)
    PROVE  EntriesKept
  BY DEF UpdateDone, ExpiryInv, DraftsSpareLive, EntriesKept

\* An entry that has not expired leaves the annotation only by the Release of its
\* node, however Acquire and Release of the others race with it.
THEOREM LiveEntriesStay == Spec => LiveEntryKept
<1>1. ExpiryInv /\ [Next]_vars => [EntriesKept]_vars
  <2>1. UNCHANGED locks => EntriesKept
    BY DEF EntriesKept
  <2> QED BY <2>1, OnlyUpdatesWrite, WriteKeeps
<1>2. Spec => [][EntriesKept]_vars
  BY <1>1, ExpiryInvariant, PTL DEF Spec
<1> QED BY <1>2 DEF LiveEntryKept, EntriesKept
=============================================================================
