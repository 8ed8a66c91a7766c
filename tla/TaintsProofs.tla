---------------------------- MODULE TaintsProofs ----------------------------
(***************************************************************************)
(* kured's taint among those of other clients, for every set of taints and *)
(* whether or not calls fail: the inductive invariant TaintInv, that kured *)
(* changes no taint but its own, and that its memory of the taint is the   *)
(* switch of TaintSwitch.                                                  *)
(***************************************************************************)
EXTENDS Taints, SequenceFacts

(* The list as the set of its elements.                                    *)

Values == KuredKey \union Foreign

\* kured's own taint is none of the others.
LEMMA OwnIsOwn ==
    /\ Own \in KuredKey /\ Own \in Values
    /\ Own \notin Foreign /\ Own \notin SameKey
    /\ Foreign \subseteq Values /\ SameKey \subseteq Values
  BY TaintsAssumption DEF KuredKey, Foreign, Values

\* What the invariant says of the list.
LEMMA ListFacts ==
    ASSUME TaintInv
    PROVE  /\ taints \in Seq(Values) /\ IsInjective(taints)
           /\ {unschedulable, exists, shouldExists} \subseteq BOOLEAN
           /\ pc \in {"new", "idle", "read", "patch"} /\ patch \in Patches
           /\ pc # "new" /\ ~exists => Own \notin Range(taints)
  BY DEF TaintInv, TypeOK, Values, SkippedDisableIsRight, Range

\* taintExists looks for kured's key.
LEMMA ExistsInRange ==
    /\ TaintExists <=> Range(taints) \intersect KuredKey # {}
    /\ \A i \in Positions : i \in DOMAIN taints /\ taints[i] \in KuredKey
  BY DEF TaintExists, Positions, Range

\* What is to be shown of a step.
LEMMA InvOfList ==
    ASSUME taints' \in Seq(Values), IsInjective(taints)',
           {unschedulable', exists', shouldExists'} \subseteq BOOLEAN,
           pc' \in {"new", "idle", "read", "patch"}, patch' \in Patches,
           pc' # "new" /\ ~exists' => Own \notin Range(taints'),
           pc' \in {"read", "patch"} => shouldExists' = ~exists',
           pc' = "patch" => (patch'.kind = "remove" <=> ~shouldExists')
    PROVE  TaintInv'
  BY DEF TaintInv, TypeOK, Values, SkippedDisableIsRight, Range

\* The absent patch is a patch.
LEMMA NoPatchIsPatch == NoPatch \in Patches
  BY DEF NoPatch, Patches

\* A restart keeps the invariant, whatever list without duplicates it leaves.
LEMMA RestartInv ==
    ASSUME Restart, taints' \in Seq(Values), IsInjective(taints)', unschedulable' \in BOOLEAN
    PROVE  TaintInv'
  BY InvOfList, NoPatchIsPatch DEF Restart

-----------------------------------------------------------------------------
(* The steps.                                                              *)

\* The invariant holds at the start.
LEMMA InitInv == Init => TaintInv
<1> SUFFICES ASSUME Init PROVE TaintInv
  OBVIOUS
<1>1. taints \in Seq(Values) /\ IsInjective(taints)
  <2>1. PICK k \in 0..MaxTaints : taints \in [1..k -> Values] /\ IsInjective(taints)
    BY DEF Init, Values
  <2>2. k \in Nat
    BY TaintsAssumption
  <2> QED BY <2>1, <2>2, SeqDef
<1> QED BY <1>1, NoPatchIsPatch DEF Init, TaintInv, TypeOK, Values, SkippedDisableIsRight

\* The list after a patch that applies: kured's taint is there or gone, and the
\* others are the same.
LEMMA PatchedList ==
    ASSUME TaintInv, pc = "patch", PatchApplies
    PROVE  /\ Patched \in Seq(Values) /\ IsInjective(Patched)
           /\ shouldExists => Range(Patched) = Range(taints) \union {Own}
           /\ ~shouldExists => Range(Patched) = Range(taints) \ {Own}
<1>1. /\ taints \in Seq(Values) /\ IsInjective(taints)
      /\ patch.kind = "remove" <=> ~shouldExists
  BY ListFacts DEF TaintInv
<1>2. CASE patch.kind = "first"
  <2>1. taints = <<>> /\ Patched = <<Own>> /\ shouldExists
    BY <1>1, <1>2 DEF PatchApplies, Patched
  <2>2. Append(<<>>, Own) = <<Own>>
    OBVIOUS
  <2>3. Own \in Values /\ Own \notin Range(taints)
    BY <2>1, OwnIsOwn DEF Range
  <2>4. Patched = Append(taints, Own)
    BY <2>1, <2>2
  <2>5. /\ Append(taints, Own) \in Seq(Values) /\ IsInjective(Append(taints, Own))
        /\ Range(Append(taints, Own)) = Range(taints) \union {Own}
    BY <1>1, <2>3, AppendRange
  <2>6. shouldExists
    BY <2>1
  <2> QED BY <2>4, <2>5, <2>6
<1>3. CASE patch.kind = "append"
  <2>1. Own \notin Range(taints) /\ Patched = Append(taints, Own) /\ shouldExists
    BY <1>1, <1>3 DEF PatchApplies, Patched
  <2> QED BY <1>1, <2>1, OwnIsOwn, AppendRange
<1>4. CASE patch.kind = "remove"
  <2>1. /\ patch.offset \in DOMAIN taints /\ taints[patch.offset] = Own
        /\ Patched = RemoveAt(taints, patch.offset) /\ ~shouldExists
    BY <1>1, <1>4 DEF PatchApplies, Patched
  <2> QED BY <1>1, <2>1, RemoveAtRange
<1> QED BY <1>2, <1>3, <1>4 DEF PatchApplies

\* The list after a step of another client: a taint more that is not kured's,
\* or one less.
LEMMA OthersList ==
    ASSUME TaintInv, OtherAdds \/ OtherRemoves
    PROVE  /\ taints' \in Seq(Values) /\ IsInjective(taints)'
           /\ \/ \E t \in Foreign : Range(taints') = Range(taints) \union {t}
              \/ \E t \in Range(taints) : Range(taints') = Range(taints) \ {t}
<1>1. taints \in Seq(Values) /\ IsInjective(taints)
  BY ListFacts
<1>2. CASE OtherAdds
  <2>1. PICK t \in Foreign : /\ t \notin Range(taints)
                             /\ taints' \in {Append(taints, t), <<t>> \o taints}
    BY <1>2 DEF OtherAdds
  <2>2. t \in Values
    BY OwnIsOwn
  <2>3. CASE taints' = Append(taints, t)
    BY <1>1, <2>1, <2>2, <2>3, AppendRange
  <2>4. CASE taints' = <<t>> \o taints
    BY <1>1, <2>1, <2>2, <2>4, PrependRange
  <2> QED BY <2>1, <2>3, <2>4
<1>3. CASE OtherRemoves
  <2>1. PICK i \in DOMAIN taints : taints' = RemoveAt(taints, i)
    BY <1>3 DEF OtherRemoves
  <2>2. taints[i] \in Range(taints)
    BY DEF Range
  <2> QED BY <1>1, <2>1, <2>2, RemoveAtRange
<1> QED BY <1>2, <1>3

\* The invariant is inductive.
LEMMA NextInv ==
    ASSUME TaintInv, [Next]_vars
    PROVE  TaintInv'
<1>1. /\ taints \in Seq(Values) /\ IsInjective(taints)
      /\ {unschedulable, exists, shouldExists} \subseteq BOOLEAN
      /\ pc \in {"new", "idle", "read", "patch"} /\ patch \in Patches
      /\ pc # "new" /\ ~exists => Own \notin Range(taints)
  BY ListFacts
<1>2. pc \in {"read", "patch"} => shouldExists = ~exists
  BY DEF TaintInv
<1>3. CASE New
  <2>1. CASE Restart
    BY <1>1, <1>3, <2>1, RestartInv DEF New, specVars
  <2>2. CASE pc' = "idle" /\ exists' = TaintExists /\ UNCHANGED <<shouldExists, patch>>
    <3>1. TaintExists \in BOOLEAN
      BY DEF TaintExists
    <3>2. ~TaintExists => Own \notin Range(taints)
      BY ExistsInRange, OwnIsOwn
    <3> QED BY <1>1, <1>3, <2>2, <3>1, <3>2, InvOfList DEF New, specVars
  <2> QED BY <1>3, <2>1, <2>2 DEF New
<1>4. CASE Enable \/ Disable
  <2>1. PICK value \in BOOLEAN : Call(value)
    BY <1>4 DEF Enable, Disable
  <2>2. value = ~exists
    BY <1>1, <2>1 DEF Call
  <2> QED BY <1>1, <2>1, <2>2, InvOfList DEF Call, specVars
<1>5. CASE PreferNoSchedule
  <2>1. CASE ApiFails /\ Restart
    BY <1>1, <1>5, <2>1, RestartInv DEF PreferNoSchedule, specVars
  <2>2. CASE TaintExists = shouldExists /\ Return
    <3>1. ~shouldExists => Own \notin Range(taints)
      BY <2>2, ExistsInRange, OwnIsOwn
    <3> QED BY <1>1, <1>5, <2>2, <3>1, NoPatchIsPatch, InvOfList
            DEF PreferNoSchedule, specVars, Return
  <2>3. ASSUME TaintExists # shouldExists, pc' = "patch", UNCHANGED <<exists, shouldExists>>,
               NEW p \in [kind : {"first", "append", "remove"}, offset : 0..Len(taints),
                          unschedulable : BOOLEAN],
               IsPatch(p), patch' = p
        PROVE  TaintInv'
    <3>1. p \in Patches
      BY <1>1, LenProperties, SMT DEF Patches
    <3>2. p.kind = "remove" <=> ~shouldExists
      <4>1. p.kind = "remove" => TaintExists
        BY <2>3 DEF IsPatch
      <4>2. TaintExists => taints # <<>>
        BY DEF TaintExists, Positions
      <4>3. TaintExists => p.kind = "remove"
        BY <2>3, <4>2 DEF IsPatch
      <4>4. TaintExists <=> ~shouldExists
        BY <1>1, <2>3 DEF TaintExists
      <4> QED BY <4>1, <4>3, <4>4
    <3>3. UNCHANGED <<taints, unschedulable>> /\ pc = "read"
      BY <1>5 DEF PreferNoSchedule, specVars
    <3> QED BY <1>1, <1>2, <2>3, <3>1, <3>2, <3>3, InvOfList
  <2> QED BY <1>5, <2>1, <2>2, <2>3 DEF PreferNoSchedule
<1>6. CASE SendPatch
  <2>1. /\ taints' \in Seq(Values) /\ IsInjective(taints)'
        /\ ~shouldExists => Own \notin Range(taints')
    BY <1>6, PatchedList DEF SendPatch
  <2>2. CASE Restart
    BY <1>1, <1>6, <2>1, <2>2, RestartInv DEF SendPatch
  <2>3. CASE Return
    BY <1>1, <1>6, <2>1, <2>3, NoPatchIsPatch, InvOfList DEF SendPatch, Return
  <2> QED BY <1>6, <2>2, <2>3 DEF SendPatch
<1>7. CASE PatchRefused
  BY <1>1, <1>7, RestartInv DEF PatchRefused, specVars
<1>8. CASE OtherAdds \/ OtherRemoves
  <2>1. /\ taints' \in Seq(Values) /\ IsInjective(taints)'
        /\ \/ \E t \in Foreign : Range(taints') = Range(taints) \union {t}
           \/ \E t \in Range(taints) : Range(taints') = Range(taints) \ {t}
    BY <1>8, OthersList
  <2>2. Own \notin Range(taints) => Own \notin Range(taints')
    BY <2>1, OwnIsOwn
  <2>3. UNCHANGED <<unschedulable, pc, exists, shouldExists, patch>>
    BY <1>8 DEF OtherAdds, OtherRemoves, daemonVars
  <2> QED BY <1>1, <2>1, <2>2, <2>3, InvOfList DEF TaintInv
<1>9. CASE SpecChanges
  BY <1>1, <1>9, InvOfList DEF SpecChanges, daemonVars, TaintInv
<1>10. CASE UNCHANGED vars
  BY <1>10 DEF vars, TaintInv, TypeOK, SkippedDisableIsRight
<1> QED BY <1>3, <1>4, <1>5, <1>6, <1>7, <1>8, <1>9, <1>10 DEF Next, DaemonStep

\* The list without duplicates holds at most one taint of kured, and the rest of
\* the invariant, at all times and for every set of taints that other clients add
\* and remove.
THEOREM TaintInvariant == Spec => []TaintInv
<1> QED BY InitInv, NextInv, PTL DEF Spec

-----------------------------------------------------------------------------
(* What kured leaves alone.                                                *)

\* No step of kured removes, alters or duplicates a taint of another client,
\* whatever happened to the list between its read and its patch.
THEOREM KeepsForeign == Spec => ForeignKept
<1> DEFINE Kept == pc' # pc =>
              /\ \A i \in DOMAIN taints : taints[i] # Own =>
                    \E j \in DOMAIN taints' : taints'[j] = taints[i]
              /\ \A j \in DOMAIN taints' : taints'[j] # Own =>
                    \E i \in DOMAIN taints : taints[i] = taints'[j]
<1>1. ASSUME TaintInv, [Next]_vars
      PROVE  [Kept]_vars
  <2> SUFFICES ASSUME pc' # pc PROVE Kept
    OBVIOUS
  <2>1. CASE UNCHANGED taints
    BY <2>1
  <2>2. CASE SendPatch
    <3>1. taints' = Patched /\ pc = "patch" /\ PatchApplies
      BY <2>2 DEF SendPatch
    <3>2. \A t : t # Own => (t \in Range(taints') <=> t \in Range(taints))
      BY <1>1, <3>1, PatchedList DEF TaintInv
    <3> QED BY <3>2 DEF Range
  <2> QED BY <1>1, <2>1, <2>2
          DEF Next, DaemonStep, New, Enable, Disable, Call, PreferNoSchedule, PatchRefused,
              OtherAdds, OtherRemoves, SpecChanges, vars, specVars, daemonVars
<1>2. Spec => [][Kept]_vars
  BY <1>1, TaintInvariant, PTL DEF Spec
<1> QED BY <1>2 DEF ForeignKept

-----------------------------------------------------------------------------
(* The switch.                                                             *)

On == \E i \in DOMAIN taints : taints[i] = Own
Position == IF pc = "new" \/ KeyClash THEN "unknown" ELSE IF exists THEN "on" ELSE "off"

\* What the list tells of the switch.
LEMMA SwitchFacts ==
    /\ On \in BOOLEAN /\ (On <=> Own \in Range(taints))
    /\ KeyClash <=> Range(taints) \intersect SameKey # {}
    /\ ~KeyClash => (TaintExists <=> On)
  BY DEF On, KeyClash, TaintExists, Positions, KuredKey, Range

\* The steps of the switch.
LEMMA SwitchStep ==
    ASSUME \/ Position' = Position /\ On' = On
           \/ Position = "unknown" /\ Position' \in {"on", IF On THEN "on" ELSE "off"} /\ On' = On
           \/ Position = "off" /\ Position' = "on" /\ On'
           \/ Position = "on" /\ Position' = "off" /\ ~On'
           \/ Position' = "unknown"
           \/ Position' = Position /\ ~On'
    PROVE  [Switch!SwitchNext]_Switch!switchVars
<1>1. On \in BOOLEAN /\ On' \in BOOLEAN
  BY DEF On
<1> QED BY <1>1 DEF On, Position, Switch!SwitchNext, Switch!Learn, Switch!TurnOn,
            Switch!TurnOff, Switch!Fail, Switch!Removed, Switch!switchVars

\* The switch starts as the daemon does.
LEMMA SwitchInitially == Init => Switch!SwitchInit
  BY DEF Init, Switch!SwitchInit

\* Every step is a step of the switch, or leaves it alone.
LEMMA SwitchNextStep ==
    ASSUME TaintInv, TaintInv', [Next]_vars
    PROVE  [Switch!SwitchNext]_Switch!switchVars
<1>1. /\ pc \in {"new", "idle", "read", "patch"} /\ exists \in BOOLEAN
      /\ shouldExists \in BOOLEAN
      /\ pc \in {"read", "patch"} => shouldExists = ~exists
      /\ pc # "new" /\ ~exists => ~On
  BY ListFacts, SwitchFacts DEF TaintInv
<1>2. CASE pc' = "new" \/ KeyClash'
  BY <1>2, SwitchStep DEF Position
<1> SUFFICES ASSUME pc' # "new", ~KeyClash'
             PROVE  [Switch!SwitchNext]_Switch!switchVars
  BY <1>2
<1>3. Position' = IF exists' THEN "on" ELSE "off"
  BY DEF Position
<1>4. UNCHANGED taints => On' = On /\ (KeyClash' <=> KeyClash) /\ (TaintExists <=> On)
  BY SwitchFacts DEF On, KeyClash
<1>5. CASE New
  <2>1. pc = "new" /\ UNCHANGED taints /\ exists' = TaintExists
    BY <1>5 DEF New, Restart, specVars
  <2>2. Position = "unknown" /\ On' = On /\ Position' = IF On THEN "on" ELSE "off"
    BY <1>3, <1>4, <2>1 DEF Position
  <2> QED BY <2>2, SwitchStep
<1>6. CASE UNCHANGED taints /\ UNCHANGED exists /\ (pc = "new" <=> pc' = "new")
  BY <1>4, <1>6, SwitchStep DEF Position
<1>7. CASE Enable \/ Disable
  BY <1>6, <1>7 DEF Enable, Disable, Call, specVars
<1>8. ASSUME pc \in {"read", "patch"}, Return, On' = shouldExists, ~KeyClash
      PROVE  [Switch!SwitchNext]_Switch!switchVars
  <2>1. Position = (IF exists THEN "on" ELSE "off") /\ exists' = shouldExists
    BY <1>8 DEF Position, Return
  <2> QED BY <1>1, <1>3, <1>8, <2>1, SwitchStep
<1>9. CASE PreferNoSchedule
  <2>1. CASE TaintExists = shouldExists /\ Return
    <3>1. UNCHANGED taints /\ pc = "read"
      BY <1>9 DEF PreferNoSchedule, specVars
    <3>2. On \in BOOLEAN /\ On = shouldExists /\ On' = On /\ ~KeyClash
      BY <1>1, <1>4, <2>1, <3>1, SwitchFacts DEF TaintExists
    <3> QED BY <1>8, <2>1, <3>1, <3>2
  <2>2. CASE pc' = "patch" /\ UNCHANGED exists
    BY <1>6, <1>9, <2>2 DEF PreferNoSchedule, specVars
  <2> QED BY <1>9, <2>1, <2>2 DEF PreferNoSchedule, Restart
<1>10. CASE SendPatch
  <2>1. taints' = Patched /\ pc = "patch" /\ PatchApplies /\ Return
    BY <1>10 DEF SendPatch, Restart
  <2>2. /\ shouldExists => Range(taints') = Range(taints) \union {Own}
        /\ ~shouldExists => Range(taints') = Range(taints) \ {Own}
    BY <2>1, PatchedList
  <2>3. /\ On' \in BOOLEAN /\ (On' <=> Own \in Range(taints'))
        /\ KeyClash' <=> Range(taints') \intersect SameKey # {}
    BY DEF On, KeyClash, Range
  <2>4. On' = shouldExists
    BY <1>1, <2>2, <2>3
  <2>5. ~KeyClash
    BY <1>1, <2>2, <2>3, SwitchFacts, OwnIsOwn
  <2> QED BY <1>8, <2>1, <2>4, <2>5
<1>11. CASE PatchRefused
  BY <1>11 DEF PatchRefused, Restart
<1>12. CASE OtherAdds \/ OtherRemoves
  <2>1. /\ \/ \E t \in Foreign : Range(taints') = Range(taints) \union {t}
           \/ \E t \in Range(taints) : Range(taints') = Range(taints) \ {t}
    BY <1>12, OthersList
  <2>2. UNCHANGED <<pc, exists>>
    BY <1>12 DEF OtherAdds, OtherRemoves, daemonVars
  <2>3. /\ On' \in BOOLEAN /\ (On' <=> Own \in Range(taints'))
        /\ KeyClash' <=> Range(taints') \intersect SameKey # {}
    BY DEF On, KeyClash, Range
  <2>4. CASE KeyClash
    <3>1. On' = On
      BY <2>1, <2>3, <2>4, SwitchFacts, OwnIsOwn
    <3>2. Position = "unknown"
      BY <2>4 DEF Position
    <3>3. Position' \in {"on", IF On THEN "on" ELSE "off"}
      BY <1>1, <1>3, <2>2
    <3> QED BY <3>1, <3>2, <3>3, SwitchStep
  <2>5. CASE ~KeyClash
    <3>1. Position' = Position
      BY <1>3, <2>2, <2>5 DEF Position
    <3>2. On' = On \/ ~On'
      BY <2>1, <2>3, SwitchFacts, OwnIsOwn
    <3> QED BY <3>1, <3>2, SwitchStep
  <2> QED BY <2>4, <2>5
<1>13. CASE SpecChanges \/ UNCHANGED vars
  BY <1>6, <1>13 DEF SpecChanges, vars, daemonVars
<1> QED BY <1>5, <1>7, <1>9, <1>10, <1>11, <1>12, <1>13 DEF Next, DaemonStep

\* What the daemon remembers of its taint is the switch of TaintSwitch: turned on
\* and off when asked to, never believed off while it is on.
THEOREM ImplementsSwitch == Spec => SwitchSpec
<1> QED BY SwitchInitially, SwitchNextStep, TaintInvariant, PTL
        DEF Spec, SwitchSpec, Switch!SwitchSpec
=============================================================================
