-------------------------- MODULE LockRolloutProofs --------------------------
(***************************************************************************)
(* What the reboot lock keeps while --concurrency is being changed and the *)
(* clocks differ, for every set of nodes, of versions, every TTL and every *)
(* skew: the invariant RolloutInv, the bound on the holders that follows   *)
(* from it, and what a step may do to the annotation.                      *)
(***************************************************************************)
EXTENDS LockRollout, SequenceFacts

(* Facts about the operators of the model. *)

\* The largest --concurrency is one, and bounds the list of every multiple lock.
LEMMA LargestIsLargest ==
    /\ LargestVersion \in Versions
    /\ \A c \in Versions : c <= LargestVersion
    /\ LargestVersion \in Nat /\ MostOwners \in Nat /\ 1 <= MostOwners
    /\ \A c \in Versions : c \in Nat /\ (IsMulti(c) => c <= MostOwners)
    /\ \A c \in Versions : IsMulti(c) => MostOwners = LargestVersion
<1>1. LargestVersion \in Versions /\ \A c \in Versions : c <= LargestVersion
  BY RolloutAssumption DEF LargestVersion
<1>2. Versions \subseteq Nat
  BY RolloutAssumption
<1> HIDE DEF LargestVersion
<1>3. \A c \in Versions : c \in Nat /\ c <= LargestVersion /\ LargestVersion \in Nat
  BY <1>1, <1>2
<1>4. \A c \in Versions : IsMulti(c) => IsMulti(LargestVersion)
  BY <1>3, SMT DEF IsMulti
<1>5. MostOwners \in Nat /\ 1 <= MostOwners
  BY <1>1, <1>3, SMT DEF MostOwners, IsMulti
<1> QED BY <1>1, <1>3, <1>4, <1>5 DEF MostOwners

\* What is not young never is again.
LEMMA AgeOnlyGrows ==
    ASSUME now \in Nat, now' \in Nat, now <= now', NEW w \in Int,
           TTL = 0 \/ now' - w < SafeAge
    PROVE  Young(w)
<1>1. TTL \in Nat /\ MaxSkew \in Nat
  BY RolloutAssumption
<1>2. ASSUME NEW a \in Nat, NEW b \in Nat, a <= b, b - w < TTL - MaxSkew
      PROVE  a - w < TTL - MaxSkew
  BY <1>1, <1>2, SMT
<1> QED BY <1>2 DEF Young, SafeAge

\* The parts of the state.
LEMMA Parts ==
    ASSUME TypeOK
    PROVE  /\ now \in Nat
           /\ annotation.locks \in Seq(Entry) /\ Len(annotation.locks) \in Nat
           /\ DOMAIN annotation.locks = 1..Len(annotation.locks)
           /\ \A i \in DOMAIN annotation.locks : annotation.locks[i] \in Entry
           /\ \A n \in Nodes : lease[n] \in Int /\ concurrency[n] \in Versions
           /\ \A n \in Nodes : Offset[n] \in 0..MaxSkew
           /\ \A e \in Entry : e.node \in Nodes /\ e.created \in Int /\ Written(e) \in 0..MaxNow
<1>1. MaxNow \in Nat /\ MaxSkew \in Nat /\ Offset \in [Nodes -> 0..MaxSkew]
  BY RolloutAssumption
<1>2. now \in Nat /\ \A n \in Nodes : lease[n] \in Int /\ concurrency[n] \in Versions
  BY <1>1 DEF TypeOK
<1>3. \A e \in Entry : e.node \in Nodes /\ e.created \in Int /\ Written(e) \in 0..MaxNow
  BY <1>1 DEF Entry
<1> QED BY <1>1, <1>2, <1>3, LenProperties, ElementOfSeq DEF TypeOK

\* The entry that a node writes now.
LEMMA NewEntryIsEntry ==
    ASSUME TypeOK, NEW n \in Nodes, NEW w \in 0..MaxNow
    PROVE  LET e == [node |-> n, unschedulable |-> FALSE, created |-> w + Offset[n]]
           IN  e \in Entry /\ Written(e) = w
<1>1. MaxNow \in Nat /\ MaxSkew \in Nat /\ Offset[n] \in 0..MaxSkew
  BY RolloutAssumption
<1>2. w + Offset[n] \in 0..(MaxNow + MaxSkew) /\ (w + Offset[n]) - Offset[n] = w
  BY <1>1, SMT
<1> QED BY <1>2 DEF Entry, Written

\* A pod that sees an entry as expired is right that it is not young.
LEMMA ExpiredIsNotYoung ==
    ASSUME TypeOK, NEW n \in Nodes, NEW c, NEW ttl \in {0, TTL}, NEW e \in Entry,
           Pod(n, c, ttl)!TtlExpired(e)
    PROVE  ~Young(Written(e))
<1>1. ttl > 0 /\ Clock(n) - e.created >= ttl
  BY DEF Pod!TtlExpired
<1>2. /\ now \in Nat /\ e.created \in Int /\ e.node \in Nodes
      /\ Offset[n] \in 0..MaxSkew /\ Offset[e.node] \in 0..MaxSkew
  BY Parts
<1>3. TTL \in Nat /\ MaxSkew \in Nat
  BY RolloutAssumption
<1>4. Offset[n] \in Int /\ Offset[e.node] \in Int /\ Offset[n] <= MaxSkew /\ 0 <= Offset[e.node]
  BY <1>2, <1>3
<1>5. ttl = TTL /\ TTL > 0
  BY <1>1, <1>3
<1>6. now + Offset[n] - e.created >= TTL
  BY <1>1, <1>2, <1>4, <1>5, SMT DEF Clock
<1>7. now - (e.created - Offset[e.node]) >= TTL - MaxSkew
  BY <1>2, <1>3, <1>4, <1>6, SMT
<1>8. ~(now - (e.created - Offset[e.node]) < TTL - MaxSkew)
  BY <1>2, <1>3, <1>4, <1>7, SMT
<1> QED BY <1>3, <1>5, <1>8 DEF Young, SafeAge, Written

\* What a pod takes for a live entry of its own is one, in its own format.
LEMMA LiveOwnIsOwn ==
    ASSUME NEW n \in Nodes, NEW c, NEW ttl, NEW i \in Pod(n, c, ttl)!LiveOwn(n)
    PROVE  /\ ~Foreign(c) /\ Decode(c) = annotation.locks
           /\ i \in DOMAIN annotation.locks /\ annotation.locks[i].node = n
<1>1. i \in DOMAIN Decode(c) /\ Decode(c)[i].node = n
  BY DEF Pod!LiveOwn, Pod!Own
<1>2. ~Foreign(c)
  <2> SUFFICES ASSUME Foreign(c) PROVE FALSE
    OBVIOUS
  <2>1. Decode(c) \in {<<>>, <<Stranger>>}
    BY DEF Decode
  <2>2. DOMAIN <<>> = {} /\ DOMAIN <<Stranger>> = {1} /\ <<Stranger>>[1].node = Nobody
    BY DEF Stranger
  <2> QED BY <1>1, <2>1, <2>2, RolloutAssumption
<1> QED BY <1>1, <1>2 DEF Decode

\* A list with one more element.
LEMMA AppendOccurs ==
    ASSUME NEW S, NEW s \in Seq(S), NEW e \in S
    PROVE  /\ Append(s, e) \in Seq(S) /\ Len(Append(s, e)) = Len(s) + 1
           /\ Occurs(e, Append(s, e))
           /\ \A x : Occurs(x, s) => Occurs(x, Append(s, e))
<1>1. /\ Append(s, e) \in Seq(S) /\ Len(Append(s, e)) = Len(s) + 1
      /\ \A i \in 1..Len(s) : Append(s, e)[i] = s[i]
      /\ Append(s, e)[Len(s) + 1] = e
  BY AppendProperties
<1>2. Len(s) \in Nat /\ DOMAIN s = 1..Len(s) /\ DOMAIN Append(s, e) = 1..(Len(s) + 1)
  BY <1>1, LenProperties
<1>3. Len(s) + 1 \in 1..(Len(s) + 1) /\ 1..Len(s) \subseteq 1..(Len(s) + 1)
  BY <1>2, SMT
<1> QED BY <1>1, <1>2, <1>3 DEF Occurs

\* What the multiple lock keeps when it makes room.
LEMMA KeptIsSound ==
    ASSUME TypeOK, Len(annotation.locks) <= MostOwners, NEW n \in Nodes,
           NEW c \in Versions, IsMulti(c), NEW ttl \in {0, TTL}, Pod(n, c, ttl)!FreeSpace
    PROVE  LET kept == Pod(n, c, ttl)!KeptEntries IN
           /\ kept \in Seq(Entry) /\ Len(kept) < MostOwners
           /\ \A i \in DOMAIN annotation.locks :
                 \/ annotation.format = "single"
                 \/ Occurs(annotation.locks[i], kept)
                 \/ ~Young(Written(annotation.locks[i]))
<1> DEFINE D == Decode(c)
           L == annotation.locks
           kept == Pod(n, c, ttl)!KeptEntries
           live == {i \in DOMAIN D : ~Pod(n, c, ttl)!TtlExpired(D[i])}
<1>1. /\ L \in Seq(Entry) /\ Len(L) \in Nat /\ DOMAIN L = 1..Len(L)
      /\ \A i \in DOMAIN L : L[i] \in Entry
  BY Parts
<1>2. MostOwners \in Nat /\ c \in Nat /\ c <= MostOwners
  BY LargestIsLargest
<1>3. /\ D \in Seq(Entry) /\ Len(D) \in Nat /\ Len(D) <= MostOwners
      /\ annotation.format = "single" \/ D = L
  BY <1>1, <1>2 DEF Decode, Foreign
<1>4. \A i \in DOMAIN D : D[i] \in Entry
  BY <1>3, ElementOfSeq
<1>5. Pod(n, c, ttl)!MaxOwners = c
  BY DEF Pod!MaxOwners, Pod!MultiLock, IsMulti
<1>6. CASE Len(D) < c
  <2>1. kept = D
    BY <1>5, <1>6 DEF Pod!KeptEntries
  <2>2. Len(D) < MostOwners
    BY <1>2, <1>3, <1>6, SMT
  <2> QED BY <1>3, <2>1, <2>2 DEF Occurs
<1>7. CASE ~(Len(D) < c)
  <2>1. kept = Sublist(D, live)
    BY <1>5, <1>7
    DEF Pod!KeptEntries, Pod!LiveEntries, Pod!Sublist, Sublist, Pod!Cardinality, Cardinality
  <2>2. PICK x \in DOMAIN D : Pod(n, c, ttl)!TtlExpired(D[x])
    BY <1>5, <1>7 DEF Pod!FreeSpace
  <2>3. live \in SUBSET DOMAIN D /\ live # DOMAIN D
    BY <2>2
  <2>4. \A i \in DOMAIN D : i \notin live => ~Young(Written(D[i]))
    BY <1>4, ExpiredIsNotYoung
  <2> HIDE DEF live, D, kept
  <2>5. kept \in Seq(Entry) /\ Len(kept) < Len(D)
    BY <1>3, <2>1, <2>3, SublistElements
  <2>6. \A i \in live : \E k \in DOMAIN kept : kept[k] = D[i]
    BY <1>3, <2>1, <2>3, SublistElements
  <2>7. Len(kept) < MostOwners
    <3>1. Len(kept) \in Nat
      BY <2>5, LenProperties
    <3> QED BY <1>2, <1>3, <2>5, <3>1, SMT
  <2>8. \A i \in DOMAIN D : Occurs(D[i], kept) \/ ~Young(Written(D[i]))
    BY <2>4, <2>6 DEF Occurs
  <2> QED BY <1>3, <2>5, <2>7, <2>8 DEF kept, D
<1> QED BY <1>6, <1>7

\* A claim is a sound draft.
LEMMA ClaimIsSound ==
    ASSUME TypeOK, Len(annotation.locks) <= MostOwners, NEW n \in Nodes,
           NEW c \in Versions, NEW ttl \in {0, TTL}, ttl = DecodedTTL(c),
           Pod(n, c, ttl)!AcquireDraft(n, FALSE)
    PROVE  \E d \in Seq(Entry) :
              /\ draft' = [draft EXCEPT ![n] = d] /\ current' = current \union {n}
              /\ Len(d) <= MostOwners
              /\ Occurs([node |-> n, unschedulable |-> FALSE, created |-> now + Offset[n]], d)
              /\ ~IsMulti(c) => annotation.format # "multi" /\ Len(d) <= 1
              /\ \A i \in DOMAIN annotation.locks :
                    \/ IsMulti(c) /\ annotation.format = "single"
                    \/ Occurs(annotation.locks[i], d)
                    \/ ~Young(Written(annotation.locks[i]))
<1> DEFINE e == [node |-> n, unschedulable |-> FALSE, created |-> now + Offset[n]]
           L == annotation.locks
           Sound(d) ==
              /\ draft' = [draft EXCEPT ![n] = d] /\ current' = current \union {n}
              /\ Len(d) <= MostOwners
              /\ Occurs(e, d)
              /\ ~IsMulti(c) => annotation.format # "multi" /\ Len(d) <= 1
              /\ \A i \in DOMAIN L :
                    \/ IsMulti(c) /\ annotation.format = "single"
                    \/ Occurs(L[i], d)
                    \/ ~Young(Written(L[i]))
<1> SUFFICES \E d \in Seq(Entry) : Sound(d)
  OBVIOUS
<1>1. e \in Entry
  <2>1. now \in 0..MaxNow
    BY DEF TypeOK
  <2> QED BY <2>1, NewEntryIsEntry
<1>2. Pod(n, c, ttl)!NewEntry(n, FALSE) = e
  BY DEF Pod!NewEntry, Clock
<1>3. L \in Seq(Entry) /\ Len(L) \in Nat /\ DOMAIN L = 1..Len(L) /\ \A i \in DOMAIN L : L[i] \in Entry
  BY Parts
<1>4. /\ MostOwners \in Nat /\ 1 <= MostOwners /\ c \in Nat
      /\ IsMulti(c) => c <= MostOwners
  BY LargestIsLargest
<1>5. ASSUME NEW d, Pod(n, c, ttl)!Prepare(n, d)
      PROVE  draft' = [draft EXCEPT ![n] = d] /\ current' = current \union {n}
  BY <1>5 DEF Pod!Prepare
<1>6. CASE Pod(n, c, ttl)!AcquireSingleDraft(n, FALSE)
  <2>1. ~IsMulti(c) /\ ~Pod(n, c, ttl)!SingleSettled /\ Pod(n, c, ttl)!Prepare(n, <<e>>)
    BY <1>2, <1>6 DEF Pod!AcquireSingleDraft, Pod!MultiLock, IsMulti
  <2>2. ~Foreign(c)
    <3> SUFFICES ASSUME Foreign(c) PROVE FALSE
      OBVIOUS
    <3>1. Decode(c) = <<Stranger>> /\ <<Stranger>> # <<>> /\ <<Stranger>>[1] = Stranger
      BY <2>1 DEF Decode
    <3>2. Pod(n, c, ttl)!TtlExpired(Stranger)
      BY <2>1, <3>1 DEF Pod!SingleSettled
    <3> QED BY <3>2 DEF Pod!TtlExpired, DecodedTTL
  <2>3. annotation.format # "multi" /\ Decode(c) = L
    BY <2>1, <2>2 DEF Foreign, Decode
  <2>4. <<e>> \in Seq(Entry) /\ Len(<<e>>) = 1 /\ Occurs(e, <<e>>)
    <3> HIDE DEF e
    <3>1. <<e>> \in Seq(Entry) /\ Len(<<e>>) = 1
      BY <1>1
    <3>2. DOMAIN <<e>> = {1} /\ <<e>>[1] = e
      OBVIOUS
    <3> QED BY <3>1, <3>2 DEF Occurs
  <2>5. \A i \in DOMAIN L : ~Young(Written(L[i]))
    <3> TAKE i \in DOMAIN L
    <3>1. L # <<>> /\ 1 \in DOMAIN L /\ Len(L) <= 1
      <4>1. annotation.format # "none"
        BY <1>3 DEF TypeOK
      <4>2. Len(L) = 1
        BY <2>3, <4>1 DEF TypeOK
      <4> QED BY <1>3, <4>2, EmptySeq, SMT
    <3>2. i = 1
      BY <1>3, <3>1, SMT
    <3>3. Pod(n, c, ttl)!TtlExpired(L[1])
      BY <2>1, <2>3, <3>1 DEF Pod!SingleSettled
    <3> QED BY <1>3, <3>1, <3>2, <3>3, ExpiredIsNotYoung
  <2>6. Sound(<<e>>)
    <3> DEFINE d == <<e>>
    <3> HIDE DEF d, e
    <3>1. Sound(d)
      BY <1>4, <1>5, <2>1, <2>3, <2>4, <2>5 DEF d
    <3> QED BY <3>1 DEF d
  <2> QED BY <2>4, <2>6
<1>7. CASE Pod(n, c, ttl)!AcquireMultiDraft(n, FALSE)
  <2> DEFINE kept == Pod(n, c, ttl)!KeptEntries
             d == Append(kept, e)
  <2>1. IsMulti(c) /\ Pod(n, c, ttl)!FreeSpace /\ Pod(n, c, ttl)!Prepare(n, d)
    BY <1>2, <1>7 DEF Pod!AcquireMultiDraft, Pod!MultiLock, IsMulti
  <2>2. /\ kept \in Seq(Entry) /\ Len(kept) < MostOwners
        /\ \A i \in DOMAIN L : \/ annotation.format = "single"
                               \/ Occurs(L[i], kept)
                               \/ ~Young(Written(L[i]))
    BY <2>1, KeptIsSound
  <2> HIDE DEF kept, e, L
  <2>3. /\ d \in Seq(Entry) /\ Len(d) = Len(kept) + 1 /\ Occurs(e, d)
        /\ \A x : Occurs(x, kept) => Occurs(x, d)
    BY <1>1, <2>2, AppendOccurs
  <2> HIDE DEF d
  <2>4. Len(d) <= MostOwners
    <3>1. Len(kept) \in Nat
      BY <2>2, LenProperties
    <3> QED BY <1>4, <2>2, <2>3, <3>1, SMT
  <2>5. draft' = [draft EXCEPT ![n] = d] /\ current' = current \union {n}
    BY <1>5, <2>1
  <2>6. \A i \in DOMAIN L : \/ IsMulti(c) /\ annotation.format = "single"
                            \/ Occurs(L[i], d)
                            \/ ~Young(Written(L[i]))
    BY <2>1, <2>2, <2>3
  <2> QED BY <2>1, <2>3, <2>4, <2>5, <2>6
<1> QED BY <1>6, <1>7 DEF Pod!AcquireDraft

\* So is what Release writes.
LEMMA ReleaseIsSound ==
    ASSUME TypeOK, Len(annotation.locks) <= MostOwners, NEW n \in Nodes,
           NEW c \in Versions, NEW ttl, Pod(n, c, ttl)!ReleaseDraft(n)
    PROVE  \E d \in Seq(Entry) :
              /\ draft' = [draft EXCEPT ![n] = d] /\ current' = current \union {n}
              /\ Len(d) <= MostOwners
              /\ ~IsMulti(c) => annotation.format # "multi" /\ Len(d) <= 1
              /\ \A i \in DOMAIN annotation.locks :
                    Occurs(annotation.locks[i], d) \/ annotation.locks[i].node = n
<1> DEFINE L == annotation.locks
           Sound(d) ==
              /\ draft' = [draft EXCEPT ![n] = d] /\ current' = current \union {n}
              /\ Len(d) <= MostOwners
              /\ ~IsMulti(c) => annotation.format # "multi" /\ Len(d) <= 1
              /\ \A i \in DOMAIN L : Occurs(L[i], d) \/ L[i].node = n
<1> SUFFICES \E d \in Seq(Entry) : Sound(d)
  OBVIOUS
<1>1. L \in Seq(Entry) /\ Len(L) \in Nat /\ DOMAIN L = 1..Len(L)
  BY Parts
<1>2. MostOwners \in Nat /\ 1 <= MostOwners
  BY LargestIsLargest
<1>3. ASSUME NEW d, Pod(n, c, ttl)!Prepare(n, d)
      PROVE  draft' = [draft EXCEPT ![n] = d] /\ current' = current \union {n}
  BY <1>3 DEF Pod!Prepare
<1>4. Nobody # n
  BY RolloutAssumption
<1>5. CASE Pod(n, c, ttl)!ReleaseSingleDraft(n)
  <2>1. /\ ~IsMulti(c) /\ Decode(c) # <<>> /\ Decode(c)[1].node = n
        /\ Pod(n, c, ttl)!Prepare(n, <<>>)
    BY <1>5 DEF Pod!ReleaseSingleDraft, Pod!MultiLock, IsMulti
  <2>2. ~Foreign(c)
    <3> SUFFICES ASSUME Foreign(c) PROVE FALSE
      OBVIOUS
    <3>1. Decode(c) = <<Stranger>> /\ <<Stranger>>[1].node = Nobody
      BY <2>1 DEF Decode, Stranger
    <3> QED BY <1>4, <2>1, <3>1
  <2>3. annotation.format # "multi" /\ L # <<>> /\ L[1].node = n
    BY <2>1, <2>2 DEF Foreign, Decode
  <2>4. Len(L) = 1
    BY <2>3 DEF TypeOK
  <2>5. \A i \in DOMAIN L : L[i].node = n
    BY <1>1, <2>3, <2>4, SMT
  <2>6. <<>> \in Seq(Entry) /\ Len(<<>>) = 0
    OBVIOUS
  <2>7. Len(<<>>) <= MostOwners /\ Len(<<>>) <= 1
    BY <1>2, <2>6, SMT
  <2> QED BY <1>3, <2>1, <2>3, <2>5, <2>6, <2>7
<1>6. CASE Pod(n, c, ttl)!ReleaseMultiDraft(n)
  <2>1. PICK i \in Pod(n, c, ttl)!Own(n) : Pod(n, c, ttl)!Prepare(n, Pod(n, c, ttl)!AllBut(i))
    BY <1>6 DEF Pod!ReleaseMultiDraft
  <2>2. IsMulti(c) /\ i \in DOMAIN Decode(c) /\ Decode(c)[i].node = n
    BY <1>6, <2>1 DEF Pod!ReleaseMultiDraft, Pod!MultiLock, IsMulti, Pod!Own
  <2>3. Decode(c) = L
    <3>1. DOMAIN <<>> = {}
      OBVIOUS
    <3> QED BY <2>2, <3>1 DEF Decode
  <2> DEFINE d == Pod(n, c, ttl)!AllBut(i)
  <2>4. d = Sublist(L, DOMAIN L \ {i})
    BY <2>3 DEF Pod!AllBut, Pod!Sublist, Sublist, Pod!Cardinality, Cardinality
  <2> HIDE DEF d, L
  <2>5. d \in Seq(Entry) /\ Len(d) = Len(L) - 1
    BY <1>1, <2>2, <2>3, <2>4, SublistDropsOne
  <2>6. ASSUME NEW j \in DOMAIN L, j # i PROVE \E k \in DOMAIN d : d[k] = L[j]
    <3>1. L \in Seq(Entry) /\ i \in DOMAIN L
      BY <1>1, <2>2, <2>3
    <3>2. \A x \in DOMAIN L : x # i => \E k \in DOMAIN d : d[k] = L[x]
      BY <2>4, <3>1, SublistDropsOne
    <3> QED BY <2>6, <3>2
  <2>7. Len(d) <= MostOwners
    BY <1>1, <1>2, <2>5, SMT DEF L
  <2>8. \A j \in DOMAIN L : Occurs(L[j], d) \/ L[j].node = n
    BY <2>2, <2>3, <2>6 DEF Occurs
  <2>9. draft' = [draft EXCEPT ![n] = d] /\ current' = current \union {n}
    BY <1>3, <2>1 DEF d
  <2> QED BY <2>2, <2>5, <2>7, <2>8, <2>9
<1> QED BY <1>5, <1>6 DEF Pod!ReleaseDraft

-----------------------------------------------------------------------------
(* The invariant. *)

\* It holds at the start, when nothing is written and nobody relies on anything.
LEMMA RolloutInit == Init => RolloutInv
<1> SUFFICES ASSUME Init PROVE RolloutInv
  OBVIOUS
<1>1. MostOwners \in Nat /\ MaxNow \in Nat
  BY LargestIsLargest, RolloutAssumption
<1>2. TypeOK
  BY <1>1 DEF Init, TypeOK
<1>3. Len(annotation.locks) <= MostOwners
  BY <1>1 DEF Init
<1>4. current = {} /\ Holders(TRUE) = {} /\ Holders(FALSE) = {}
  BY DEF Init, Holders
<1> QED BY <1>2, <1>3, <1>4 DEF RolloutInv

\* A step that does not write the annotation and disturbs one pod at most, n,
\* keeps the invariant if what n is about to write is sound, and what n starts
\* to rely on is written.
LEMMA QuietStep ==
    ASSUME RolloutInv, TypeOK', annotation' = annotation, now <= now', NEW n,
           \A m \in Nodes \ {n} :
              /\ client'[m] = client[m] /\ lease'[m] = lease[m]
              /\ concurrency'[m] = concurrency[m] /\ draft'[m] = draft[m],
           \A m \in current' : m = n \/ m \in current,
           n \in current' => DraftIsSound(n)',
           n \in Nodes /\ client'[n] = "held" =>
              /\ annotation.format # "none" /\ ~Foreign(concurrency'[n])
              /\ Occurs(Grant(n)', annotation.locks)
    PROVE  RolloutInv'
<1>1. TypeOK /\ current' \subseteq Nodes /\ now' \in Nat
  BY RolloutAssumption DEF RolloutInv, TypeOK
<1>2. /\ now \in Nat
      /\ \A m \in Nodes : lease[m] \in Int
      /\ \A i \in DOMAIN annotation.locks : Written(annotation.locks[i]) \in Int
  BY <1>1, Parts
<1>3. \A w \in Int : TTL = 0 \/ now' - w < SafeAge => Young(w)
  BY <1>1, <1>2, AgeOnlyGrows
<1>4. ASSUME NEW m \in current' PROVE DraftIsSound(m)'
  <2>1. CASE m = n
    BY <2>1
  <2>2. CASE m # n
    <3>1. m \in current /\ m \in Nodes /\ DraftIsSound(m)
      BY <1>1, <2>2 DEF RolloutInv
    <3>2. /\ client'[m] = client[m] /\ lease'[m] = lease[m]
          /\ concurrency'[m] = concurrency[m] /\ draft'[m] = draft[m]
      BY <2>2, <3>1
    <3>3. \A i \in DOMAIN annotation.locks :
             ~Young(Written(annotation.locks[i])) =>
                ~(TTL = 0 \/ now' - Written(annotation.locks[i]) < SafeAge)
      BY <1>2, <1>3
    <3>4. Grant(m)' = Grant(m)
      BY <3>2 DEF Grant
    <3>5. \A i \in DOMAIN annotation'.locks :
             LET e == annotation'.locks[i] IN
             \/ IsMulti(concurrency'[m]) /\ annotation'.format = "single"
             \/ Occurs(e, draft'[m])
             \/ client'[m] = "claimed" /\ ~(TTL = 0 \/ now' - Written(e) < SafeAge)
             \/ client'[m] = "released" /\ e.node = m
      BY <3>1, <3>2, <3>3 DEF DraftIsSound
    <3> QED BY <3>1, <3>2, <3>4, <3>5 DEF DraftIsSound, Young
  <2> QED BY <2>1, <2>2
<1>5. ASSUME NEW multi \in BOOLEAN, NEW m \in Holders(multi)', m # n
      PROVE  m \in Holders(multi)
  <2>1. /\ m \in Nodes /\ client'[m] = "held" /\ IsMulti(concurrency'[m]) = multi
        /\ TTL = 0 \/ now' - lease'[m] < SafeAge
    BY <1>5 DEF Holders, Young
  <2>2. /\ client'[m] = client[m] /\ lease'[m] = lease[m]
        /\ concurrency'[m] = concurrency[m]
    BY <1>5, <2>1
  <2>3. Young(lease[m])
    BY <1>2, <1>3, <2>1, <2>2
  <2> QED BY <2>1, <2>2, <2>3 DEF Holders
<1>6. ASSUME NEW multi \in BOOLEAN, n \in Holders(multi)'
      PROVE  /\ HolderIsListed(n)'
             /\ ~multi => annotation.format = "single" /\ Occurs(Grant(n)', annotation.locks)
  <2>1. /\ n \in Nodes /\ client'[n] = "held" /\ IsMulti(concurrency'[n]) = multi
    BY <1>6 DEF Holders
  <2>2. /\ annotation.format # "none" /\ ~Foreign(concurrency'[n])
        /\ Occurs(Grant(n)', annotation.locks)
    BY <2>1
  <2>3. annotation.format \in {"single", "multi"}
    BY <1>1, <2>2 DEF TypeOK
  <2>4. annotation.format = IF multi THEN "multi" ELSE "single"
    BY <2>1, <2>2, <2>3 DEF Foreign
  <2> QED BY <2>1, <2>2, <2>4 DEF HolderIsListed, Foreign
<1>7. ASSUME NEW multi \in BOOLEAN, NEW m \in Holders(multi)' PROVE HolderIsListed(m)'
  <2>1. CASE m = n
    BY <1>6, <2>1
  <2>2. CASE m # n
    <3>1. m \in Holders(multi)
      BY <1>5, <2>2
    <3>2. HolderIsListed(m)
      <4>1. m \in Holders(TRUE) \union Holders(FALSE)
        BY <3>1
      <4> QED BY <4>1 DEF RolloutInv
    <3>3. m \in Nodes /\ lease'[m] = lease[m] /\ concurrency'[m] = concurrency[m]
      BY <2>2, <3>1 DEF Holders
    <3> QED BY <3>2, <3>3 DEF HolderIsListed, Foreign, Grant
  <2> QED BY <2>1, <2>2
<1>8. ASSUME NEW m \in Holders(FALSE)', m # n, n \in Holders(FALSE)' PROVE FALSE
  <2>1. annotation.format = "single" /\ Occurs(Grant(n)', annotation.locks)
    BY <1>6, <1>8
  <2>2. HolderIsListed(m) /\ m \in Nodes /\ ~IsMulti(concurrency[m])
    <3>1. m \in Holders(FALSE)
      BY <1>5, <1>8
    <3> QED BY <3>1 DEF RolloutInv, Holders
  <2>3. Occurs(Grant(m), annotation.locks)
    BY <2>1, <2>2 DEF HolderIsListed, Foreign
  <2>4. DOMAIN annotation.locks = {1}
    <3>1. Len(annotation.locks) = 1
      BY <1>1, <2>1 DEF TypeOK
    <3>2. DOMAIN annotation.locks = 1..1
      BY <1>1, <3>1, Parts
    <3> QED BY <3>2
  <2>5. Grant(m) = Grant(n)'
    BY <2>1, <2>3, <2>4 DEF Occurs
  <2> QED BY <1>8, <2>5 DEF Grant
<1>9. \A m1, m2 \in Holders(FALSE)' : m1 = m2
  <2> TAKE m1, m2 \in Holders(FALSE)'
  <2>1. CASE m1 # n /\ m2 # n
    <3>1. m1 \in Holders(FALSE) /\ m2 \in Holders(FALSE)
      BY <1>5, <2>1
    <3> QED BY <3>1 DEF RolloutInv
  <2>2. CASE m1 = n \/ m2 = n
    BY <1>8, <2>2
  <2> QED BY <2>1, <2>2
<1>10. Len(annotation'.locks) <= MostOwners
  BY DEF RolloutInv
<1> QED BY <1>4, <1>7, <1>9, <1>10 DEF RolloutInv

\* An Update that is applied keeps it, whether its pod learns so or gives up.
LEMMA UpdateStep ==
    ASSUME RolloutInv, NEW n \in Nodes, n \in current,
           annotation' = Encode(concurrency[n], draft[n]), current' = {},
           \/ UNCHANGED lease /\ (Goes(n, "claimed", "held") \/ Goes(n, "released", "idle"))
           \/ /\ lease' = [lease EXCEPT ![n] = 0]
              /\ Goes(n, "claimed", "idle") \/ Goes(n, "released", "idle"),
           draft' = [draft EXCEPT ![n] = <<>>], UNCHANGED <<now, concurrency>>
    PROVE  RolloutInv'
<1> DEFINE c == concurrency[n]
           d == draft[n]
           L == annotation.locks
<1>1. TypeOK /\ Len(L) <= MostOwners /\ DraftIsSound(n) /\ c \in Versions
  BY DEF RolloutInv, TypeOK
<1>2. /\ L \in Seq(Entry) /\ DOMAIN L = 1..Len(L)
      /\ d \in Seq(Entry) /\ Len(d) \in Nat /\ DOMAIN d = 1..Len(d)
      /\ \A m \in Nodes : lease[m] \in Int
  BY <1>1, Parts, LenProperties DEF TypeOK
<1>3. /\ annotation'.locks = d
      /\ annotation'.format = IF IsMulti(c) THEN "multi" ELSE IF d = <<>> THEN "none" ELSE "single"
  BY DEF Encode
<1>4. ~IsMulti(c) => annotation.format # "multi" /\ Len(d) <= 1
  BY <1>1 DEF DraftIsSound
<1>5. TypeOK'
  <2>1. annotation'.format = "single" => Len(annotation'.locks) = 1
    <3> SUFFICES ASSUME annotation'.format = "single" PROVE Len(d) = 1
      BY <1>3
    <3>1. ~IsMulti(c) /\ d # <<>>
      BY <1>3
    <3>2. Len(d) # 0
      BY <1>2, <3>1, EmptySeq
    <3>3. Len(d) \in Nat /\ Len(d) <= 1
      BY <1>2, <1>4, <3>1
    <3>4. \A k \in Nat : k # 0 /\ k <= 1 => k = 1
      BY SMT
    <3> HIDE DEF d
    <3> QED BY <3>2, <3>3, <3>4
  <2>2. annotation'.format = "none" => annotation'.locks = <<>>
    BY <1>3
  <2>3. annotation'.format \in {"none", "single", "multi"} /\ annotation'.locks \in Seq(Entry)
    BY <1>2, <1>3
  <2>4. draft' \in [Nodes -> Seq(Entry)]
    BY <1>1 DEF TypeOK
  <2>5. client' \in [Nodes -> {"idle", "claimed", "held", "releasing", "released"}]
    BY <1>1 DEF TypeOK, Goes
  <2>6. lease' \in [Nodes -> 0..MaxNow]
    <3>1. 0 \in 0..MaxNow
      BY RolloutAssumption
    <3> QED BY <1>1, <3>1 DEF TypeOK
  <2> QED BY <1>1, <2>1, <2>2, <2>3, <2>4, <2>5, <2>6 DEF TypeOK
<1>6. Len(annotation'.locks) <= MostOwners
  BY <1>1, <1>3 DEF DraftIsSound
<1>a. \A m \in Nodes \ {n} : client'[m] = client[m] /\ lease'[m] = lease[m]
  BY <1>1 DEF Goes, TypeOK
<1>b. client'[n] = "held" => client[n] = "claimed" /\ lease' = lease
  BY <1>1 DEF Goes, TypeOK
<1>c. \A m \in Nodes : m # n \/ client'[n] = "held" => Grant(m)' = Grant(m)
  BY <1>a, <1>b DEF Grant
\* The entry of another young holder stays: it is neither expired nor n's.
<1>7. ASSUME NEW multi \in BOOLEAN, NEW m \in Holders(multi)', m # n
      PROVE  m \in Holders(multi) /\ HolderIsListed(m)'
  <2> DEFINE e == Grant(m)
  <2>1. m \in Nodes /\ client'[m] = "held" /\ Young(lease[m]) /\ IsMulti(concurrency[m]) = multi
    BY <1>7, <1>a DEF Holders, Young
  <2>2. m \in Holders(multi)
    BY <1>7, <1>a, <2>1 DEF Holders
  <2>3. HolderIsListed(m)
    <3>1. m \in Holders(TRUE) \union Holders(FALSE)
      BY <2>2
    <3> QED BY <3>1 DEF RolloutInv
  <2>4. e.node = m /\ Written(e) = lease[m]
    <3>1. Offset[m] \in Int /\ lease[m] \in Int
      BY <1>1, <2>1, Parts
    <3>2. (lease[m] + Offset[m]) - Offset[m] = lease[m]
      BY <3>1, SMT
    <3> QED BY <3>2 DEF Grant, Written
  <2> HIDE DEF e
  <2>5. Occurs(e, L) => Occurs(e, d) \/ (IsMulti(c) /\ annotation.format = "single")
    BY <1>1, <1>7, <2>1, <2>4 DEF DraftIsSound, Occurs
  <2>6. CASE IsMulti(c)
    <3>1. annotation'.format = "multi" /\ annotation'.locks = d
      BY <1>3, <2>6
    <3>2. IsMulti(concurrency[m]) => Occurs(e, d)
      BY <2>3, <2>5 DEF HolderIsListed, Foreign, e
    <3>3. Occurs(Grant(m)', d) = Occurs(e, d) /\ concurrency' = concurrency
      BY <1>7, <1>c, <2>1 DEF e
    <3> QED BY <2>2, <3>1, <3>2, <3>3 DEF HolderIsListed, Foreign
  <2>7. CASE ~IsMulti(c)
    <3>1. annotation.format = "single" /\ ~IsMulti(concurrency[m])
      BY <1>1, <1>4, <2>3, <2>7 DEF HolderIsListed, TypeOK
    <3>2. Occurs(e, d)
      BY <2>3, <2>5, <2>7, <3>1 DEF HolderIsListed, Foreign, e
    <3>3. d # <<>>
      <4>1. DOMAIN <<>> = {}
        OBVIOUS
      <4> HIDE DEF d
      <4> QED BY <3>2, <4>1 DEF Occurs
    <3>4. annotation'.format = "single" /\ annotation'.locks = d
      BY <1>3, <2>7, <3>3
    <3>5. Occurs(Grant(m)', d) /\ concurrency' = concurrency
      BY <1>7, <1>c, <2>1, <3>2 DEF e
    <3> QED BY <2>2, <3>1, <3>4, <3>5 DEF HolderIsListed, Foreign
  <2> QED BY <2>6, <2>7
\* What n now relies on is what it has just written.
<1>8. ASSUME NEW multi \in BOOLEAN, n \in Holders(multi)'
      PROVE  /\ HolderIsListed(n)' /\ IsMulti(c) = multi
             /\ annotation'.format = IF multi THEN "multi" ELSE "single"
             /\ Occurs(Grant(n), d)
  <2>1. client'[n] = "held" /\ client[n] = "claimed" /\ IsMulti(c) = multi
    BY <1>8, <1>b DEF Holders
  <2>2. Occurs(Grant(n), d)
    BY <1>1, <2>1 DEF DraftIsSound
  <2>3. d # <<>>
    <3>1. DOMAIN <<>> = {}
      OBVIOUS
    <3> HIDE DEF d
    <3> QED BY <2>2, <3>1 DEF Occurs
  <2>4. annotation'.format = IF multi THEN "multi" ELSE "single"
    BY <1>3, <2>1, <2>3
  <2>5. Occurs(Grant(n)', annotation'.locks) /\ concurrency' = concurrency
    BY <1>3, <1>c, <2>1, <2>2
  <2> QED BY <2>1, <2>2, <2>4, <2>5 DEF HolderIsListed
<1>9. ASSUME NEW m \in Holders(FALSE)', m # n, n \in Holders(FALSE)' PROVE FALSE
  <2>1. annotation'.format = "single" /\ ~IsMulti(c) /\ Occurs(Grant(n), d)
    BY <1>8, <1>9
  <2>2. HolderIsListed(m)' /\ m \in Nodes /\ ~IsMulti(concurrency'[m])
    BY <1>7, <1>9 DEF Holders
  <2>3. Occurs(Grant(m), d)
    BY <1>3, <1>9, <1>c, <2>1, <2>2 DEF HolderIsListed, Foreign
  <2>4. \A i, j \in DOMAIN d : i = j
    <3>1. Len(d) \in Nat /\ Len(d) <= 1 /\ DOMAIN d = 1..Len(d)
      BY <1>2, <1>4, <2>1
    <3> HIDE DEF d
    <3> QED BY <3>1, SMT
  <2>5. Grant(m) = Grant(n)
    <3> HIDE DEF d
    <3> QED BY <2>1, <2>3, <2>4 DEF Occurs
  <2> QED BY <1>9, <2>5 DEF Grant
<1>10. \A m \in Holders(TRUE)' \union Holders(FALSE)' : HolderIsListed(m)'
  BY <1>7, <1>8
<1>11. \A m1, m2 \in Holders(FALSE)' : m1 = m2
  <2> TAKE m1, m2 \in Holders(FALSE)'
  <2>1. CASE m1 # n /\ m2 # n
    <3>1. m1 \in Holders(FALSE) /\ m2 \in Holders(FALSE)
      BY <1>7, <2>1
    <3> QED BY <3>1 DEF RolloutInv
  <2>2. CASE m1 = n \/ m2 = n
    BY <1>9, <2>2
  <2> QED BY <2>1, <2>2
<1> QED BY <1>5, <1>6, <1>10, <1>11 DEF RolloutInv

\* Ask keeps it: what it claims is sound, and what it finds is written.
LEMMA AskStep == ASSUME RolloutInv, NEW n \in Nodes, Ask(n) PROVE RolloutInv'
<1>1. TypeOK /\ Len(annotation.locks) <= MostOwners
  BY DEF RolloutInv
<1>2. UNCHANGED <<now, annotation, concurrency>>
  BY DEF Ask
<1>3. PICK c \in Versions, ttl \in {0, TTL} :
         /\ c = concurrency[n] /\ ttl = DecodedTTL(c)
         /\ \/ /\ Pod(n, c, ttl)!AcquireDraft(n, FALSE)
               /\ Goes(n, "idle", "claimed")
               /\ lease' = [lease EXCEPT ![n] = now]
            \/ \E i \in Pod(n, c, ttl)!LiveOwn(n) :
                  /\ Pod(n, c, ttl)!IsFirst(i, Pod(n, c, ttl)!LiveOwn(n))
                  /\ Goes(n, "idle", "held")
                  /\ lease' = [lease EXCEPT ![n] = Decode(c)[i].created - Offset[n]]
                  /\ UNCHANGED <<current, draft>>
  BY DEF Ask
<1>4. now <= now' /\ now \in 0..MaxNow
  BY <1>1, <1>2, Parts DEF TypeOK
<1>5. CASE /\ Pod(n, c, ttl)!AcquireDraft(n, FALSE)
           /\ Goes(n, "idle", "claimed")
           /\ lease' = [lease EXCEPT ![n] = now]
  <2> DEFINE e == [node |-> n, unschedulable |-> FALSE, created |-> now + Offset[n]]
  <2>1. PICK d \in Seq(Entry) :
           /\ draft' = [draft EXCEPT ![n] = d] /\ current' = current \union {n}
           /\ Len(d) <= MostOwners
           /\ Occurs(e, d)
           /\ ~IsMulti(c) => annotation.format # "multi" /\ Len(d) <= 1
           /\ \A i \in DOMAIN annotation.locks :
                 \/ IsMulti(c) /\ annotation.format = "single"
                 \/ Occurs(annotation.locks[i], d)
                 \/ ~Young(Written(annotation.locks[i]))
    <3>1. ttl = DecodedTTL(c) /\ Pod(n, c, ttl)!AcquireDraft(n, FALSE)
      BY <1>3, <1>5
    <3> QED BY <1>1, <3>1, ClaimIsSound
  <2>2. client' = [client EXCEPT ![n] = "claimed"]
    BY <1>5 DEF Goes
  <2>3. TypeOK'
    BY <1>1, <1>2, <1>4, <1>5, <2>1, <2>2 DEF TypeOK
  <2>4. draft'[n] = d /\ client'[n] = "claimed" /\ lease'[n] = now /\ Grant(n)' = e
    BY <1>1, <1>5, <2>1, <2>2 DEF TypeOK, Grant
  <2>5. DraftIsSound(n)'
    BY <1>2, <1>3, <2>1, <2>4 DEF DraftIsSound, Young
  <2>6. \A m \in Nodes \ {n} : /\ client'[m] = client[m] /\ lease'[m] = lease[m]
                               /\ concurrency'[m] = concurrency[m] /\ draft'[m] = draft[m]
    BY <1>1, <1>2, <1>5, <2>1, <2>2 DEF TypeOK
  <2>7. \A m \in current' : m = n \/ m \in current
    BY <2>1
  <2> QED BY <1>2, <1>4, <2>3, <2>4, <2>5, <2>6, <2>7, QuietStep
<1>6. CASE \E i \in Pod(n, c, ttl)!LiveOwn(n) :
              /\ Goes(n, "idle", "held")
              /\ lease' = [lease EXCEPT ![n] = Decode(c)[i].created - Offset[n]]
              /\ UNCHANGED <<current, draft>>
  <2>1. PICK i \in Pod(n, c, ttl)!LiveOwn(n) :
              /\ Goes(n, "idle", "held")
              /\ lease' = [lease EXCEPT ![n] = Decode(c)[i].created - Offset[n]]
              /\ UNCHANGED <<current, draft>>
    BY <1>6
  <2> DEFINE e == annotation.locks[i]
  <2>2. /\ ~Foreign(c) /\ Decode(c) = annotation.locks
        /\ i \in DOMAIN annotation.locks /\ e.node = n
    BY LiveOwnIsOwn
  <2>3. e \in Entry /\ Written(e) \in 0..MaxNow /\ e.created \in Int /\ Offset[n] \in Int
    BY <1>1, <2>2, Parts
  <2>4. /\ client' = [client EXCEPT ![n] = "held"] /\ client[n] = "idle"
        /\ lease' = [lease EXCEPT ![n] = Written(e)]
    BY <2>1, <2>2 DEF Goes, Written
  <2>5. TypeOK'
    BY <1>1, <1>2, <2>1, <2>3, <2>4 DEF TypeOK
  <2>6. lease'[n] = Written(e) /\ client'[n] = "held"
    BY <1>1, <2>4 DEF TypeOK
  <2>7. Grant(n)' = e
    <3>1. (e.created - Offset[n]) + Offset[n] = e.created
      BY <2>3, SMT
    <3>2. lease'[n] + Offset[n] = e.created
      BY <2>2, <2>6, <3>1 DEF Written
    <3>3. e = [node |-> n, unschedulable |-> FALSE, created |-> e.created]
      BY <2>2, <2>3 DEF Entry
    <3> HIDE DEF e
    <3> QED BY <3>2, <3>3 DEF Grant
  <2>8. annotation.format # "none"
    <3>1. DOMAIN <<>> = {}
      OBVIOUS
    <3> QED BY <1>1, <2>2, <3>1 DEF TypeOK
  <2>9. n \notin current'
    BY <2>1, <2>4 DEF RolloutInv, DraftIsSound
  <2>10. \A m \in Nodes \ {n} : /\ client'[m] = client[m] /\ lease'[m] = lease[m]
                                /\ concurrency'[m] = concurrency[m] /\ draft'[m] = draft[m]
    BY <1>1, <1>2, <2>1, <2>4 DEF TypeOK
  <2>11. /\ annotation.format # "none" /\ ~Foreign(concurrency'[n])
         /\ Occurs(Grant(n)', annotation.locks)
    BY <1>2, <1>3, <2>2, <2>7, <2>8 DEF Occurs
  <2>12. \A m \in current' : m = n \/ m \in current
    BY <2>1
  <2> QED BY <1>2, <1>4, <2>5, <2>9, <2>10, <2>11, <2>12, QuietStep
<1> QED BY <1>3, <1>5, <1>6

\* GiveBack keeps it: what it leaves is sound, and it ends what n relies on.
LEMMA GiveBackStep == ASSUME RolloutInv, NEW n \in Nodes, GiveBack(n) PROVE RolloutInv'
<1>1. TypeOK /\ Len(annotation.locks) <= MostOwners /\ MaxNow \in Nat
  BY RolloutAssumption DEF RolloutInv
<1>2. UNCHANGED <<now, annotation, concurrency>> /\ lease' = [lease EXCEPT ![n] = 0]
  BY DEF GiveBack
<1>3. PICK c \in Versions, ttl \in {0, TTL} :
         /\ c = concurrency[n]
         /\ \/ /\ Pod(n, c, ttl)!ReleaseDraft(n)
               /\ Goes(n, "held", "released") \/ Goes(n, "releasing", "released")
            \/ /\ Goes(n, "held", "idle") \/ Goes(n, "releasing", "idle")
               /\ UNCHANGED <<current, draft>>
  BY DEF GiveBack
<1>4. now <= now'
  BY <1>1, <1>2, Parts
<1>5. CASE /\ Pod(n, c, ttl)!ReleaseDraft(n)
           /\ Goes(n, "held", "released") \/ Goes(n, "releasing", "released")
  <2>1. PICK d \in Seq(Entry) :
           /\ draft' = [draft EXCEPT ![n] = d] /\ current' = current \union {n}
           /\ Len(d) <= MostOwners
           /\ ~IsMulti(c) => annotation.format # "multi" /\ Len(d) <= 1
           /\ \A i \in DOMAIN annotation.locks :
                 Occurs(annotation.locks[i], d) \/ annotation.locks[i].node = n
    BY <1>1, <1>5, ReleaseIsSound
  <2>2. client' = [client EXCEPT ![n] = "released"]
    BY <1>5 DEF Goes
  <2>3. TypeOK'
    BY <1>1, <1>2, <2>1, <2>2 DEF TypeOK
  <2>4. draft'[n] = d /\ client'[n] = "released"
    BY <1>1, <2>1, <2>2 DEF TypeOK
  <2>5. DraftIsSound(n)'
    BY <1>2, <1>3, <2>1, <2>4 DEF DraftIsSound
  <2>6. \A m \in Nodes \ {n} : /\ client'[m] = client[m] /\ lease'[m] = lease[m]
                               /\ concurrency'[m] = concurrency[m] /\ draft'[m] = draft[m]
    BY <1>1, <1>2, <2>1, <2>2 DEF TypeOK
  <2>7. \A m \in current' : m = n \/ m \in current
    BY <2>1
  <2> QED BY <1>2, <1>4, <2>3, <2>4, <2>5, <2>6, <2>7, QuietStep
<1>6. CASE /\ Goes(n, "held", "idle") \/ Goes(n, "releasing", "idle")
           /\ UNCHANGED <<current, draft>>
  <2>1. client' = [client EXCEPT ![n] = "idle"] /\ client[n] \in {"held", "releasing"}
    BY <1>6 DEF Goes
  <2>2. TypeOK' /\ client'[n] = "idle"
    BY <1>1, <1>2, <1>6, <2>1 DEF TypeOK
  <2>3. n \notin current' /\ \A m \in current' : m = n \/ m \in current
    BY <1>6, <2>1 DEF RolloutInv, DraftIsSound
  <2>4. \A m \in Nodes \ {n} : /\ client'[m] = client[m] /\ lease'[m] = lease[m]
                               /\ concurrency'[m] = concurrency[m] /\ draft'[m] = draft[m]
    BY <1>1, <1>2, <1>6, <2>1 DEF TypeOK
  <2> QED BY <1>2, <1>4, <2>2, <2>3, <2>4, QuietStep
<1> QED BY <1>3, <1>5, <1>6

\* Every step keeps it.
LEMMA RolloutNext == RolloutInv /\ [Next]_vars => RolloutInv'
<1> SUFFICES ASSUME RolloutInv, [Next]_vars PROVE RolloutInv'
  OBVIOUS
<1>1. TypeOK /\ MaxNow \in Nat /\ now \in Nat
  BY Parts, RolloutAssumption DEF RolloutInv
<1>2. now <= now /\ now <= now + 1
  BY <1>1, SMT
<1>3. ASSUME NEW n \in Nodes, Ask(n) PROVE RolloutInv'
  BY <1>3, AskStep
<1>4. ASSUME NEW n \in Nodes, GiveBack(n) PROVE RolloutInv'
  BY <1>4, GiveBackStep
<1>5. ASSUME NEW n \in Nodes, Update(n) PROVE RolloutInv'
  <2>1. CASE n \in current
    BY <1>5, <2>1, UpdateStep DEF Update
  <2>2. CASE n \notin current
    <3>1. /\ UNCHANGED <<annotation, current, now, concurrency>>
          /\ Goes(n, "claimed", "idle") \/ Goes(n, "released", "releasing")
          /\ lease' = [lease EXCEPT ![n] = 0] /\ draft' = [draft EXCEPT ![n] = <<>>]
      BY <1>5, <2>2 DEF Update
    <3>2. TypeOK' /\ client'[n] \in {"idle", "releasing"}
      <4>1. PICK to \in {"idle", "releasing"} : client' = [client EXCEPT ![n] = to]
        BY <3>1 DEF Goes
      <4> QED BY <1>1, <3>1, <4>1 DEF TypeOK
    <3>3. \A m \in Nodes \ {n} : /\ client'[m] = client[m] /\ lease'[m] = lease[m]
                                 /\ concurrency'[m] = concurrency[m] /\ draft'[m] = draft[m]
      BY <1>1, <3>1 DEF TypeOK, Goes
    <3>4. n \notin current' /\ \A m \in current' : m = n \/ m \in current
      BY <2>2, <3>1
    <3>5. now <= now' /\ annotation' = annotation
      BY <1>2, <3>1
    <3> QED BY <3>2, <3>3, <3>4, <3>5, QuietStep
  <2> QED BY <2>1, <2>2
<1>6. ASSUME NEW n \in Nodes, UpdateFails(n) PROVE RolloutInv'
  <2>1. /\ UNCHANGED <<now, concurrency>> /\ lease' = [lease EXCEPT ![n] = 0]
        /\ draft' = [draft EXCEPT ![n] = <<>>]
        /\ Goes(n, "claimed", "idle") \/ Goes(n, "released", "idle")
    BY <1>6 DEF UpdateFails
  <2>2. CASE n \in current /\ annotation' = Encode(concurrency[n], draft[n]) /\ current' = {}
    BY <2>1, <2>2, UpdateStep
  <2>3. CASE UNCHANGED annotation /\ current' = current \ {n}
    <3>1. TypeOK' /\ client'[n] = "idle"
      BY <1>1, <2>1, <2>3 DEF TypeOK, Goes
    <3>2. \A m \in Nodes \ {n} : /\ client'[m] = client[m] /\ lease'[m] = lease[m]
                                 /\ concurrency'[m] = concurrency[m] /\ draft'[m] = draft[m]
      BY <1>1, <2>1 DEF TypeOK, Goes
    <3>3. n \notin current' /\ \A m \in current' : m = n \/ m \in current
      BY <2>3
    <3>4. now <= now' /\ annotation' = annotation
      BY <1>2, <2>1, <2>3
    <3> QED BY <3>1, <3>2, <3>3, <3>4, QuietStep
  <2> QED BY <1>6, <2>2, <2>3 DEF UpdateFails
<1>7. ASSUME NEW n \in Nodes, Restart(n) PROVE RolloutInv'
  <2>1. PICK c \in Versions : concurrency' = [concurrency EXCEPT ![n] = c]
    BY <1>7 DEF Restart
  <2>2. /\ client' = [client EXCEPT ![n] = "idle"] /\ lease' = [lease EXCEPT ![n] = 0]
        /\ current' = current \ {n} /\ draft' = [draft EXCEPT ![n] = <<>>]
        /\ UNCHANGED <<now, annotation>>
    BY <1>7 DEF Restart
  <2>3. TypeOK' /\ client'[n] = "idle"
    BY <1>1, <2>1, <2>2 DEF TypeOK
  <2>4. \A m \in Nodes \ {n} : /\ client'[m] = client[m] /\ lease'[m] = lease[m]
                               /\ concurrency'[m] = concurrency[m] /\ draft'[m] = draft[m]
    BY <1>1, <2>1, <2>2 DEF TypeOK
  <2>5. n \notin current' /\ \A m \in current' : m = n \/ m \in current
    BY <2>2
  <2>6. now <= now' /\ annotation' = annotation
    BY <1>2, <2>2
  <2> QED BY <2>3, <2>4, <2>5, <2>6, QuietStep
\* The other steps disturb no pod.
<1>8. CASE Touch \/ TimePasses \/ UNCHANGED vars
  <2>1. /\ UNCHANGED <<annotation, draft, concurrency, client, lease>>
        /\ current' \subseteq current
        /\ now' = now \/ (now < MaxNow /\ now' = now + 1)
    BY <1>8 DEF Touch, TimePasses, vars
  <2>2. now' \in 0..MaxNow /\ now <= now'
    <3>1. now \in 0..MaxNow
      BY <1>1 DEF TypeOK
    <3> QED BY <1>1, <2>1, <3>1, SMT
  <2>3. TypeOK'
    BY <1>1, <2>1, <2>2 DEF TypeOK
  <2>4. Nobody \notin Nodes /\ Nobody \notin current'
    BY <1>1, <2>1, RolloutAssumption DEF TypeOK
  <2>5. \A m \in current' : m = Nobody \/ m \in current
    BY <2>1
  <2>6. \A m \in Nodes \ {Nobody} : /\ client'[m] = client[m] /\ lease'[m] = lease[m]
                                    /\ concurrency'[m] = concurrency[m] /\ draft'[m] = draft[m]
    BY <2>1
  <2> QED BY <2>1, <2>2, <2>3, <2>4, <2>5, <2>6, QuietStep
<1> QED BY <1>3, <1>4, <1>5, <1>6, <1>7, <1>8 DEF Next

\* During a rollout the state stays well formed, the list no longer than the
\* largest --concurrency allows, every draft that may still be written sound, and
\* every young holder listed (canAcquireMultiple, AcquireMultiple, Acquire and
\* Release of the two locks on one annotation).
THEOREM RolloutInvariant == Spec => []RolloutInv
<1>1. Init => RolloutInv
  BY RolloutInit
<1>2. RolloutInv /\ [Next]_vars => RolloutInv'
  BY RolloutNext
<1> QED BY <1>1, <1>2, PTL DEF Spec

-----------------------------------------------------------------------------
(* What follows from it. *)

\* The young holders of the multiple lock are at most as many as the entries.
LEMMA MultiHoldersCount ==
    ASSUME RolloutInv, NEW h, h \in Holders(TRUE)
    PROVE  /\ IsFiniteSet(Holders(TRUE))
           /\ Cardinality(Holders(TRUE)) <= LargestVersion
<1> DEFINE H == Holders(TRUE)
           L == annotation.locks
<1>1. L \in Seq(Entry) /\ Len(L) \in Nat /\ DOMAIN L = 1..Len(L) /\ Len(L) <= MostOwners
  BY Parts DEF RolloutInv
<1>2. \A n \in H : \E i \in DOMAIN L : L[i].node = n
  <2> TAKE n \in H
  <2>1. HolderIsListed(n) /\ IsMulti(concurrency[n])
    BY DEF RolloutInv, Holders
  <2>2. Occurs(Grant(n), L)
    BY <2>1 DEF HolderIsListed, Foreign
  <2> QED BY <2>2 DEF Occurs, Grant
<1>3. MostOwners = LargestVersion /\ MostOwners \in Nat
  <2>1. IsMulti(concurrency[h]) /\ concurrency[h] \in Versions
    BY Parts DEF Holders, RolloutInv
  <2> QED BY <2>1, LargestIsLargest
<1> DEFINE At(n) == CHOOSE i \in DOMAIN L : L[i].node = n
           f == [n \in H |-> At(n)]
<1>4. \A n \in H : At(n) \in DOMAIN L /\ L[At(n)].node = n
  BY <1>2
<1> HIDE DEF H, At
<1>5. f \in [H -> DOMAIN L] /\ \A m, n \in H : f[m] = f[n] => m = n
  BY <1>4
<1>6. f \in Injection(H, 1..Len(L))
  BY <1>1, <1>5 DEF Injection, IsInjective
<1> HIDE DEF f
<1>7. IsFiniteSet(H) /\ Cardinality(H) <= Len(L)
  <2>1. IsFiniteSet(1..Len(L)) /\ Cardinality(1..Len(L)) = Len(L)
    BY <1>1, IntervalSize
  <2> QED BY <1>6, <2>1, FS_Injection
<1>8. Cardinality(H) \in Nat
  BY <1>7, FS_CardinalityType
<1>9. \A a, b, c \in Nat : a <= b /\ b <= c => a <= c
  BY SMT
<1> QED BY <1>1, <1>3, <1>7, <1>8, <1>9 DEF H

\* In a rollout one pod at most holds the single lock with an entry that nobody
\* takes for expired, and --concurrency at most the multiple one (the tests of
\* Acquire and of canAcquireMultiple, under the optimistic Update).
THEOREM RolloutExcludes == Spec => []HoldersBounded
<1>1. RolloutInv => HoldersBounded
  <2> SUFFICES ASSUME RolloutInv PROVE HoldersBounded
    OBVIOUS
  <2>1. Cardinality({}) = 0 /\ 0 <= 1 /\ 0 <= LargestVersion
    BY FS_EmptySet, LargestIsLargest
  <2>2. Cardinality(Holders(FALSE)) <= 1
    <3>1. CASE Holders(FALSE) = {}
      BY <2>1, <3>1
    <3>2. CASE Holders(FALSE) # {}
      <4>1. PICK h \in Holders(FALSE) : Holders(FALSE) = {h}
        BY <3>2 DEF RolloutInv
      <4>2. Cardinality({h}) = 1
        BY FS_Singleton
      <4>3. 1 <= 1
        OBVIOUS
      <4> QED BY <4>1, <4>2, <4>3
    <3> QED BY <3>1, <3>2
  <2>3. Cardinality(Holders(TRUE)) <= LargestVersion
    <3>1. CASE Holders(TRUE) = {}
      BY <2>1, <3>1
    <3>2. CASE Holders(TRUE) # {}
      BY <3>2, MultiHoldersCount
    <3> QED BY <3>1, <3>2
  <2> QED BY <2>2, <2>3 DEF HoldersBounded
<1> QED BY <1>1, RolloutInvariant, PTL

\* Only a current draft is written.
LEMMA OnlyCurrentWrites ==
    ASSUME [Next]_vars
    PROVE  \/ annotation' = annotation
           \/ \E n \in Nodes : /\ n \in current
                               /\ annotation' = Encode(concurrency[n], draft[n])
BY DEF Next, Ask, GiveBack, Update, UpdateFails, Restart, Touch, TimePasses, vars

\* What YoungEntryKept says of a step.
YoungEntriesStay ==
    \A i \in DOMAIN annotation.locks :
        LET e == annotation.locks[i] IN
        \/ ~Young(Written(e))
        \/ Occurs(e, annotation'.locks)
        \/ client[e.node] = "released"
        \/ annotation.format = "single" /\ annotation'.format = "multi"

\* In a rollout a young entry leaves the annotation only by the Release of its
\* node, or when AcquireMultiple overwrites the value of the single lock.
THEOREM YoungEntriesAreKept == Spec => YoungEntryKept
<1>1. RolloutInv /\ [Next]_vars => [YoungEntriesStay]_vars
  <2> SUFFICES ASSUME RolloutInv, [Next]_vars PROVE YoungEntriesStay
    OBVIOUS
  <2>1. CASE annotation' = annotation
    BY <2>1 DEF YoungEntriesStay, Occurs
  <2>2. ASSUME NEW n \in Nodes, n \in current,
               annotation' = Encode(concurrency[n], draft[n])
        PROVE  YoungEntriesStay
    <3>1. DraftIsSound(n)
      BY <2>2 DEF RolloutInv
    <3>2. /\ annotation'.locks = draft[n]
          /\ IsMulti(concurrency[n]) => annotation'.format = "multi"
      BY <2>2 DEF Encode
    <3> QED BY <3>1, <3>2 DEF DraftIsSound, YoungEntriesStay
  <2> QED BY <2>1, <2>2, OnlyCurrentWrites
<1>2. Spec => [][YoungEntriesStay]_vars
  BY <1>1, RolloutInvariant, PTL DEF Spec
<1> QED BY <1>2 DEF YoungEntryKept, YoungEntriesStay
=============================================================================
