------------------------------- MODULE Blockers -------------------------------
(***************************************************************************)
(* The reboot blockers (pkg/blockers): alerts in Prometheus, and pods on   *)
(* the node that match a selector.  A query that fails blocks the reboot.  *)
(*                                                                         *)
(* config.filter is the set of the alert names that the regular expression *)
(* matches; config.filtered says whether one was given.                    *)
(***************************************************************************)
EXTENDS Integers, Sequences, Functions

IsConfig(config) ==
    /\ {config.prometheus, config.filtered, config.filterMatchOnly, config.firingOnly}
          \subseteq BOOLEAN
    /\ config.selectors \in Seq(STRING)
    /\ "prometheus" \notin Range(config.selectors)

MatchesRegex(config, alert) ==
    config.filtered => (alert \in config.filter) = config.filterMatchOnly

ActiveAlerts(config, samples) ==
    {s.alert : s \in {s \in samples :
        /\ s.value # 0
        /\ MatchesRegex(config, s.alert)
        /\ config.firingOnly => s.state = "firing"}}

\* The queries of RebootBlocked in the order in which it sends them.
Queries(config) ==
    (IF config.prometheus THEN <<"prometheus">> ELSE <<>>) \o config.selectors

ErrorIsClear(config, samples, down) ==  \* mutant: an error does not block
    "prometheus" \notin down /\ ActiveAlerts(config, samples) # {}

PrometheusBlocks(config, samples, down) ==
    "prometheus" \in down \/ ActiveAlerts(config, samples) # {}

\* "pods" are the selectors that match a pod of the node that has not ended.
PodsBlock(selector, pods, down) == "api" \in down \/ selector \in pods

\* One query of the blockers' IsBlocked.
IsBlocked(config, query, samples, pods, down) ==
    IF query = "prometheus" THEN PrometheusBlocks(config, samples, down)
                            ELSE PodsBlock(query, pods, down)

-----------------------------------------------------------------------------
(* What the flags say. *)

\* --alert-filter-regexp, "alert names to ignore when checking for active
\* alerts"; --alert-filter-match-only, "only block if the alert-filter-regexp
\* matches"; --alert-firing-only, "only consider firing alerts".
Objects(config, s) ==
    /\ s.value = 1
    /\ s.state = "firing" \/ ~config.firingOnly
    /\ \/ ~config.filtered
       \/ config.filterMatchOnly /\ s.alert \in config.filter
       \/ ~config.filterMatchOnly /\ s.alert \notin config.filter

\* All that should keep the node from rebooting at this moment.
Objections(config, samples, pods, down) ==
    (IF config.prometheus
     THEN {<<"alert", s.alert>> : s \in {s \in samples : Objects(config, s)}}
          \union {<<"down", d>> : d \in down \intersect {"prometheus"}}
     ELSE {})
    \union {<<"pods", p>> : p \in pods \intersect Range(config.selectors)}
    \union (IF config.selectors = <<>> THEN {} ELSE {<<"down", d>> : d \in down \intersect {"api"}})
=============================================================================
