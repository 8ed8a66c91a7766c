-------------------------------- MODULE Taints --------------------------------
(***************************************************************************)
(* The PreferNoSchedule taint of kured (pkg/taints): one entry of the list *)
(* of taints in the Node's spec, which any client of the cluster may       *)
(* change.  kured reads the list and then sends a JSON patch that names    *)
(* positions of the list it read; the "test" operations of the patch are   *)
(* all that keeps it from changing what another client wrote in between.   *)
(* An error of a read or of a patch is fatal, and the daemon starts again. *)
(***************************************************************************)
EXTENDS Integers, SequencesExt

CONSTANTS
    OtherTaints,  \* taints of other keys
    SameKey,      \* taints under kured's key but with another effect
    MaxTaints,    \* bound of the list: other clients add only below it
    ApiFails      \* a call of the API server may fail

Own == "kured:PreferNoSchedule"
Foreign == OtherTaints \union SameKey

ASSUME TaintsAssumption ==
    /\ Own \notin Foreign
    /\ OtherTaints \intersect SameKey = {}
    /\ MaxTaints \in Nat
    /\ ApiFails \in BOOLEAN

VARIABLES
    taints,        \* Spec.Taints of the Node
    unschedulable, \* another field of the Spec, which "test /spec" compares
    pc,            \* what the daemon does next
    exists,        \* the field of that name
    shouldExists,  \* the argument of preferNoSchedule
    patch          \* the JSON patch about to be sent

vars == <<taints, unschedulable, pc, exists, shouldExists, patch>>
specVars == <<taints, unschedulable>>
daemonVars == <<pc, exists, shouldExists, patch>>

KuredKey == {Own} \union SameKey

Patches == [kind : {"none", "first", "append", "remove"},
            offset : Nat, unschedulable : BOOLEAN]
NoPatch == [kind |-> "none", offset |-> 0, unschedulable |-> FALSE]

TypeOK ==
    /\ taints \in Seq(KuredKey \union Foreign)
    /\ {unschedulable, exists, shouldExists} \subseteq BOOLEAN
    /\ pc \in {"new", "idle", "read", "patch"}
    /\ patch \in Patches

\* The list may hold kured's own taint, left by an earlier run.
Init ==
    /\ \E k \in 0..MaxTaints :
          /\ taints \in [1..k -> KuredKey \union Foreign]
          /\ IsInjective(taints)
    /\ unschedulable \in BOOLEAN
    /\ pc = "new"
    /\ exists = FALSE
    /\ shouldExists = FALSE
    /\ patch = NoPatch

-----------------------------------------------------------------------------
(* The daemon. *)

Positions == {i \in DOMAIN taints : taints[i] \in KuredKey}

\* taintExists: the first taint with kured's key, whatever its effect.
TaintExists == Positions # {}
IsOffset(i) == i \in Positions /\ \A j \in Positions : i <= j

Restart ==
    /\ pc' = "new"
    /\ exists' = FALSE
    /\ shouldExists' = FALSE
    /\ patch' = NoPatch

New ==
    /\ pc = "new"
    /\ \/ pc' = "idle" /\ exists' = TaintExists /\ UNCHANGED <<shouldExists, patch>>
       \/ ApiFails /\ Restart
    /\ UNCHANGED specVars

\* Enable and Disable return at once if the field "exists" says so.
Call(value) ==
    /\ pc = "idle"
    /\ exists # value
    /\ pc' = "read"
    /\ shouldExists' = value
    /\ UNCHANGED <<specVars, exists, patch>>

Enable == Call(TRUE)
Disable == Call(FALSE)

\* The call returns and the answer is remembered.
Return ==
    /\ pc' = "idle"
    /\ exists' = shouldExists
    /\ shouldExists' = FALSE
    /\ patch' = NoPatch

IsPatch(p) ==
    \/ taints = <<>> /\ p = [kind |-> "first", offset |-> 0, unschedulable |-> unschedulable]
    \/ TaintExists /\ \E i \in Positions :
          IsOffset(i) /\ p = [kind |-> "remove", offset |-> i, unschedulable |-> FALSE]
    \/ taints # <<>> /\ ~TaintExists
          /\ p = [kind |-> "append", offset |-> 0, unschedulable |-> FALSE]

\* preferNoSchedule up to the patch.
PreferNoSchedule ==
    /\ pc = "read"
    /\ \/ TaintExists = shouldExists /\ Return
       \/ /\ TaintExists # shouldExists
          /\ \E p \in [kind : {"first", "append", "remove"}, offset : 0..Len(taints),
                       unschedulable : BOOLEAN] :
                IsPatch(p) /\ patch' = p
          /\ pc' = "patch"
          /\ UNCHANGED <<exists, shouldExists>>
       \/ ApiFails /\ Restart
    /\ UNCHANGED specVars

\* mutant: patches without "test"
UntestedApplies ==
    CASE patch.kind = "append" -> taints # <<>> /\ Own \notin Range(taints)
      [] patch.kind = "remove" -> patch.offset \in DOMAIN taints
      [] OTHER -> patch.kind = "first"

\* The API server's checks: the "test" operations, the paths, and that no taint
\* is there twice.
PatchApplies ==
    CASE patch.kind = "first" -> taints = <<>> /\ unschedulable = patch.unschedulable
      [] patch.kind = "append" -> taints # <<>> /\ Own \notin Range(taints)
      [] patch.kind = "remove" -> patch.offset \in DOMAIN taints /\ taints[patch.offset] = Own
      [] OTHER -> FALSE

Patched ==
    CASE patch.kind = "first" -> <<Own>>
      [] patch.kind = "append" -> Append(taints, Own)
      [] OTHER -> RemoveAt(taints, patch.offset)

\* mutant: the answer is remembered even if the patch was refused
RefusedIgnored ==
    /\ pc = "patch" /\ ~PatchApplies
    /\ Return
    /\ UNCHANGED specVars

SendPatch ==
    /\ pc = "patch" /\ PatchApplies
    /\ taints' = Patched
    /\ \/ Return
       \/ ApiFails /\ Restart
    /\ UNCHANGED unschedulable

PatchRefused ==
    /\ pc = "patch"
    /\ ~PatchApplies \/ ApiFails
    /\ Restart
    /\ UNCHANGED specVars

-----------------------------------------------------------------------------
(* The other clients of the cluster. *)

\* kubectl taint puts the new ones in front, controllers at the end.  None of
\* them is kured's: a client that writes back a whole list it read before kured
\* removed its taint is left out.
OtherAdds ==
    /\ Len(taints) < MaxTaints
    /\ \E t \in Foreign :
          /\ t \notin Range(taints)
          /\ taints' \in {Append(taints, t), <<t>> \o taints}
    /\ UNCHANGED <<unschedulable, daemonVars>>

\* An administrator may also remove kured's.
OtherRemoves ==
    /\ \E i \in DOMAIN taints : taints' = RemoveAt(taints, i)
    /\ UNCHANGED <<unschedulable, daemonVars>>

SpecChanges ==
    /\ unschedulable' = ~unschedulable
    /\ UNCHANGED <<taints, daemonVars>>

DaemonStep ==
    New \/ Enable \/ Disable \/ PreferNoSchedule \/ SendPatch \/ PatchRefused

Next == DaemonStep \/ OtherAdds \/ OtherRemoves \/ SpecChanges

Spec == Init /\ [][Next]_vars

-----------------------------------------------------------------------------
\* Whatever was added or removed between kured's read and its patch, a step of kured
\* neither removes, alters nor duplicates a taint that is not its own.
ForeignKept ==
    [][pc' # pc =>
          /\ \A i \in DOMAIN taints : taints[i] # Own =>
                \E j \in DOMAIN taints' : taints'[j] = taints[i]
          /\ \A j \in DOMAIN taints' : taints'[j] # Own =>
                \E i \in DOMAIN taints : taints[i] = taints'[j]]_vars

\* A Disable that kured skips is not needed: when it believes that its taint is
\* gone, because it removed it or did not find it, the taint is gone.
SkippedDisableIsRight ==
    pc # "new" /\ ~exists => \A i \in DOMAIN taints : taints[i] # Own

\* The inductive invariant behind SwitchSpec: the list holds no taint twice, and
\* the patch in flight is one that its caller asked for.
TaintInv ==
    /\ TypeOK
    /\ IsInjective(taints)
    /\ SkippedDisableIsRight
    /\ pc \in {"read", "patch"} => shouldExists = ~exists
    /\ pc = "patch" => (patch.kind = "remove" <=> ~shouldExists)

KeyClash == \E i \in DOMAIN taints : taints[i] \in SameKey

\* The switch that module Kured uses as one atomic step.  While another client
\* uses kured's key for a taint of its own, kured's belief means nothing.
Switch == INSTANCE TaintSwitch WITH
    on <- \E i \in DOMAIN taints : taints[i] = Own,
    position <- IF pc = "new" \/ KeyClash THEN "unknown"
                ELSE IF exists THEN "on" ELSE "off"
SwitchSpec == Switch!SwitchSpec
=============================================================================
