----------------------------- MODULE RebootSlots -----------------------------
(***************************************************************************)
(* What the lock promises: at most Slots nodes hold a slot, and a node     *)
(* disrupts itself (drains, reboots, uncordons) only while it holds one.   *)
(* A slot stays with its node when the pod or the machine restarts.        *)
(***************************************************************************)
EXTENDS Integers, FiniteSets

CONSTANTS
    Nodes,
    Slots         \* how many nodes may hold a slot at once

VARIABLES
    holders,      \* the nodes the cluster has granted a slot
    using         \* the nodes that know they have one and act on it

slotVars == <<holders, using>>

SlotInit == holders = {} /\ using = {}

\* n is granted a slot, or confirms the one it has.
Grant(n) ==
    /\ Cardinality(holders \union {n}) <= Slots
    /\ holders' = holders \union {n}
    /\ using' = using \union {n}

\* n is granted a slot and the answer is lost.
GrantUnseen(n) ==
    /\ Cardinality(holders \union {n}) <= Slots
    /\ holders' = holders \union {n}
    /\ UNCHANGED using

\* n finds that it has a slot.
Resume(n) ==
    /\ n \in holders
    /\ using' = using \union {n}
    /\ UNCHANGED holders

\* n stops acting on its slot: it restarts, or is about to return it.
Quit(n) ==
    /\ using' = using \ {n}
    /\ UNCHANGED holders

Return(n) ==
    /\ n \notin using
    /\ holders' = holders \ {n}
    /\ UNCHANGED using

SlotNext ==
    \E n \in Nodes : Grant(n) \/ GrantUnseen(n) \/ Resume(n) \/ Quit(n) \/ Return(n)

SlotSpec == SlotInit /\ [][SlotNext]_slotVars

\* What a client of the lock relies on.
SlotsSafe ==
    /\ using \subseteq holders
    /\ Cardinality(holders) <= Slots
=============================================================================
