------------------------------- MODULE Schedule -------------------------------
(***************************************************************************)
(* When kured tries to reboot its node: the goroutine of pkg/delaytick     *)
(* that sends ticks, and the part of rebootAsRequired that receives them,  *)
(* checks the time window and the sentinel, and asks the blockers one      *)
(* after the other.  What the daemon does after that (module Kured) is one *)
(* attempt here, which takes any time and ends in any way.                 *)
(*                                                                         *)
(* Goroutines that can run do so before time passes; calls take any time.  *)
(***************************************************************************)
EXTENDS TimeWindow, Blockers

CONSTANTS
    Period,       \* --period in instants
    Scenarios     \* configurations (zone, window, blockers) with the bounds of
                  \* a behaviour: its samples, its pods and its last instant

\* Of a period that is not positive time.Tick makes a nil channel.
ASSUME PeriodAssumption == Period \in Nat \ {0}

ASSUME ScenariosAssumption ==
    \A s \in Scenarios :
        /\ IsZone(s.zone) /\ IsWindow(s.window) /\ IsConfig(s.blockers)
        /\ s.last \in Nat

VARIABLES
    scenario,     \* the configuration
    now,          \* the instant
    sender,       \* what the goroutine is doing
    timer,        \* when its sleep ends, and later when the ticker fires
    buffer,       \* how many ticks the ticker's channel holds
    loop,         \* what the main loop is doing
    query,        \* the next query of the blockers
    samples,      \* the ALERTS vector of Prometheus
    pods,         \* the selectors that match a running pod of the node
    down,         \* which of "prometheus" and "api" does not answer
    waited,       \* for how long the loop has been waiting for a tick
    passes,       \* the passes since the ticker fired
    opened,       \* whether the pass started inside the window
    objections    \* what has objected ever since the pass started

senderVars == <<sender, timer, buffer>>
loopVars == <<loop, query>>
worldVars == <<samples, pods, down>>
ghostVars == <<waited, passes, opened, objections>>
vars == <<scenario, now, senderVars, loopVars, worldVars, ghostVars>>

blockers == scenario.blockers

TypeOK ==
    /\ scenario \in Scenarios
    /\ now \in 0..scenario.last
    /\ sender \in {"asleep", "first", "ranging", "sending"}
    /\ timer \in Nat
    /\ buffer \in {0, 1}
    /\ loop \in {"waiting", "sentinel", "blockers", "attempt"}
    /\ query \in 1..(Len(Queries(blockers)) + 1)
    /\ samples \subseteq scenario.samples
    /\ pods \subseteq scenario.pods
    /\ down \subseteq {"prometheus", "api"}

\* mutant: a whole period and up to one more
DelaysLong == Period..(2 * Period - 1)

\* New sleeps for half a period and up to one more.
Delays == {k \in 0..(2 * Period) : 2 * k >= Period /\ 2 * k < 3 * Period}

Init ==
    /\ scenario \in Scenarios
    /\ now = 0
    /\ sender = "asleep" /\ timer \in Delays /\ buffer = 0
    /\ loop = "waiting" /\ query = 1
    /\ samples = {} /\ pods = {} /\ down = {}
    /\ waited = 0 /\ passes = 0 /\ opened = FALSE /\ objections = {}

-----------------------------------------------------------------------------
(* delaytick: after its sleep the goroutine sends a first tick, and then   *)
(* those of a ticker, on a channel that holds none.                        *)

Wakes ==
    /\ sender = "asleep" /\ now = timer
    /\ sender' = "first"
    /\ UNCHANGED <<scenario, now, timer, buffer, loopVars, worldVars, ghostVars>>

BufferedTwo == IF buffer < 2 THEN buffer + 1 ELSE buffer  \* mutant: room for two

\* The ticker's channel holds one tick, and a tick that does not fit is dropped.
Buffered == 1

Fires ==
    /\ sender \in {"ranging", "sending"} /\ now = timer
    /\ timer' = now + Period
    /\ buffer' = Buffered
    /\ passes' = 0
    /\ UNCHANGED <<scenario, now, sender, loopVars, worldVars, waited, opened, objections>>

TakesTick ==
    /\ sender = "ranging" /\ buffer > 0
    /\ sender' = "sending"
    /\ buffer' = buffer - 1
    /\ UNCHANGED <<scenario, now, timer, loopVars, worldVars, ghostVars>>

\* The ticker is made when the first tick has been received.
TickSent ==
    /\ sender \in {"first", "sending"}
    /\ sender' = "ranging"
    /\ timer' = IF sender = "first" THEN now + Period ELSE timer
    /\ UNCHANGED buffer

-----------------------------------------------------------------------------
(* The main loop. *)

Objecting == Objections(blockers, samples, pods, down)

\* The window is open by what the flags say, or this day has one of its
\* ends twice or not at all.
Open ==
    \/ InWindow(scenario.zone, scenario.window, now)
    \/ ~BothEndsClear(scenario.zone, scenario.window, now)

\* A pass ends, and the loop waits for the next tick.
PassEnds ==
    /\ loop' = "waiting" /\ query' = 1
    /\ waited' = 0 /\ opened' = FALSE /\ objections' = {}

\* A tick is received, and the window looked at.
Receive ==
    /\ loop = "waiting"
    /\ TickSent
    /\ passes' = passes + 1
    /\ \E start \in Opens(scenario.zone, scenario.window, now),
          end \in Closes(scenario.zone, scenario.window, now) :
          IF Contains(scenario.zone, scenario.window, now, start, end)
          THEN /\ loop' = "sentinel" /\ waited' = 0
               /\ opened' = Open
               /\ objections' = Objecting
               /\ UNCHANGED query
          ELSE PassEnds
    /\ UNCHANGED <<scenario, now, worldVars>>

\* RebootRequired says yes, and the Node is read and annotated; or it says no,
\* or the Node cannot be annotated.
CheckSentinel ==
    /\ loop = "sentinel"
    /\ \/ /\ loop' = "blockers"
          /\ UNCHANGED <<query, waited, opened, objections>>
       \/ PassEnds
    /\ UNCHANGED <<scenario, now, senderVars, worldVars, passes>>

\* RebootBlocked stops at the first query that blocks.
AskBlocker ==
    /\ loop = "blockers" /\ query <= Len(Queries(blockers))
    /\ IF IsBlocked(blockers, Queries(blockers)[query], samples, pods, down)
       THEN PassEnds
       ELSE query' = query + 1 /\ UNCHANGED <<loop, waited, opened, objections>>
    /\ UNCHANGED <<scenario, now, senderVars, worldVars, passes>>

NotBlocked ==
    /\ loop = "blockers" /\ query > Len(Queries(blockers))
    /\ loop' = "attempt"
    /\ UNCHANGED <<scenario, now, senderVars, query, worldVars, ghostVars>>

\* The lock was refused, or the drain failed.
AttemptEnds ==
    /\ loop = "attempt"
    /\ PassEnds
    /\ UNCHANGED <<scenario, now, senderVars, worldVars, passes>>

\* log.Fatal (the sentinel command cannot be run, the Node cannot be read), a
\* kill, or the machine's reboot: the main loop of a new process, once it is
\* reached, makes a new channel.
Restart ==
    /\ sender' = "asleep" /\ buffer' = 0
    /\ \E delay \in Delays : timer' = now + delay
    /\ PassEnds
    /\ passes' = 0
    /\ UNCHANGED <<scenario, now, worldVars>>

-----------------------------------------------------------------------------
(* The world outside. *)

WorldChanges ==
    /\ \/ \E s \in SUBSET scenario.samples : samples' = s /\ UNCHANGED <<pods, down>>
       \/ \E p \in SUBSET scenario.pods : pods' = p /\ UNCHANGED <<samples, down>>
       \/ \E d \in SUBSET {"prometheus", "api"} :
             scenario.pods # {} /\ down' = d /\ UNCHANGED <<samples, pods>>
    /\ UNCHANGED <<scenario, now, senderVars, loopVars, waited, passes, opened>>
    /\ objections' = objections \intersect Objecting'

\* Some goroutine can run, or a timer goes off.
Urgent ==
    \/ sender # "first" /\ now = timer
    \/ sender = "ranging" /\ buffer > 0
    \/ sender \in {"first", "sending"} /\ loop = "waiting"

TimePasses ==
    /\ ~Urgent /\ now < scenario.last
    /\ now' = now + 1
    /\ waited' = IF loop = "waiting" THEN waited + 1 ELSE 0
    /\ UNCHANGED <<scenario, senderVars, loopVars, worldVars, passes, opened, objections>>

\* The bound of the clock.
TheEnd == now = scenario.last /\ ~Urgent /\ UNCHANGED vars

Next ==
    \/ Wakes \/ Fires \/ TakesTick
    \/ Receive \/ CheckSentinel \/ AskBlocker \/ NotBlocked \/ AttemptEnds \/ Restart
    \/ WorldChanges \/ TimePasses \/ TheEnd

Spec == Init /\ [][Next]_vars

-----------------------------------------------------------------------------
\* The loop never waits longer than one period for a tick, or one and a half
\* after a start, however long its passes took: no tick gets lost for good in
\* the goroutine, the ticker's buffer or the channel.
Rhythm ==
    /\ 2 * waited < 3 * Period
    /\ sender \in {"ranging", "sending"} => waited <= Period

\* After passes that outlasted the period at most two follow without a pause: for
\* the tick in the goroutine's hand and for the one in the buffer.
BurstBounded == passes <= 2

\* A reboot is attempted only in a pass that started inside the window, also when
\* it wraps midnight or the clock was changed that day.
AttemptsInWindow == loop = "attempt" => opened

\* A tick inside the window is never taken for one outside it, but on a day of
\* more than 24 hours and in the last instant of a window that wraps midnight.
WindowNotMissed ==
    [][passes' = passes + 1 /\ loop' = "waiting"
        /\ InWindow(scenario.zone, scenario.window, now)
        => \/ ~BothEndsClear(scenario.zone, scenario.window, now)
           \/ IsLongDay(scenario.zone, now)
           \/ IsLastInstant(scenario.zone, scenario.window, now)]_vars

\* No reboot is attempted while an alert, a pod or an outage that should block it
\* has lasted since the pass started, though the blockers are asked one after
\* the other and the world changes in between.
BlockersRespected == loop = "attempt" => objections = {}
=============================================================================
