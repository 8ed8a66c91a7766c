---------------------------- MODULE TaintSwitch ----------------------------
(***************************************************************************)
(* What a Taint of pkg/taints promises the daemon: a switch that it turns  *)
(* on and off and whose position it remembers.  A position remembered as   *)
(* "off" is right, so that the daemon may skip turning it off again.       *)
(***************************************************************************)
VARIABLES
    on,           \* the node carries kured's taint
    position      \* what the daemon believes: "on", "off", or nothing yet

switchVars == <<on, position>>

SwitchInit == on \in BOOLEAN /\ position = "unknown"

\* The belief "on" may be mistaken, "off" may not.
Learn ==
    /\ position = "unknown"
    /\ position' \in {"on", IF on THEN "on" ELSE "off"}
    /\ UNCHANGED on

TurnOn == position = "off" /\ position' = "on" /\ on' = TRUE

TurnOff == position = "on" /\ position' = "off" /\ on' = FALSE

\* The daemon ends in the middle of it, and the next run looks again.
Fail == position' = "unknown" /\ on' \in BOOLEAN

\* Another client removes the taint, which the daemon does not notice.
Removed == on' = FALSE /\ UNCHANGED position

SwitchNext == Learn \/ TurnOn \/ TurnOff \/ Fail \/ Removed

SwitchSpec == SwitchInit /\ [][SwitchNext]_switchVars
=============================================================================
