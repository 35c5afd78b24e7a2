------------------------------ MODULE Watchdog ------------------------------
(***************************************************************************)
(* The health of the daemon as its watchdog thread sees it: the core       *)
(* loop's heartbeat, the health poll the loop runs on a timer, the rows of *)
(* instance_health it writes, and the verdict of _unhealthy_reason that    *)
(* decides whether systemd is pinged or restarts the service.              *)
(*                                                                         *)
(* The watchdog thread may look in any state, so its verdict is a state    *)
(* predicate.  Times are in units of one health poll interval.             *)
(***************************************************************************)
EXTENDS Integers

CONSTANTS
    Instances,
    HealthInterval,   \* HEALTH_POLL_INTERVAL_SECONDS
    HeartbeatGrace,   \* HEARTBEAT_GRACE_SECONDS
    UnhealthyGrace,   \* UNHEALTHY_GRACE_SECONDS
    MaxStall,         \* the longest the core loop goes without a tick
    Horizon           \* bound: the clock stops here

ASSUME GraceAssumption ==
    /\ HealthInterval \in Nat \ {0} /\ HeartbeatGrace \in Nat /\ UnhealthyGrace \in Nat
    /\ HealthInterval + HeartbeatGrace <= UnhealthyGrace
    /\ MaxStall \in Nat /\ Horizon \in Nat

None == -1

VARIABLES
    now,
    live,       \* the instances of the running plugin set
    failedAt,   \* since when each plugin's health() has answered FAILED
    rows,       \* table instance_health: the status and updated_at of each row
    polled,     \* the plugin set the last health poll covered
    pollAt,     \* when the PollHealthMessage timer is due
    heartbeat   \* the start of the core loop's last tick

vars == <<now, live, failedAt, rows, polled, pollAt, heartbeat>>

Time   == 0 .. Horizon
Status == {"OK", "FAILED"}

(* Mutant: health() raises and nobody turns that into FAILED.              *)
HealthRaises(i) == IF failedAt[i] = None THEN "OK" ELSE "raised"

(* _ask_health: every status but FAILED counts as OK, a raise is FAILED.   *)
Health(i) == IF failedAt[i] = None THEN "OK" ELSE "FAILED"

(* _handle_poll_health: a row for every plugin of the set, stamped now.    *)
PolledRows ==
    [i \in Instances |->
        IF i \in live THEN [status |-> Health(i), updated_at |-> now] ELSE rows[i]]

(* Mutant: the health poll is not scheduled again.                         *)
TickPollsOnce ==
    /\ heartbeat' = now
    /\ IF pollAt <= now
       THEN rows' = PolledRows /\ polled' = live /\ pollAt' = Horizon + 1
       ELSE UNCHANGED <<rows, polled, pollAt>>
    /\ UNCHANGED <<now, live, failedAt>>

(* _tick: the heartbeat, and the health poll when its timer is due.        *)
Tick ==
    /\ heartbeat' = now
    /\ IF pollAt <= now
       THEN rows' = PolledRows /\ polled' = live /\ pollAt' = now + HealthInterval
       ELSE UNCHANGED <<rows, polled, pollAt>>
    /\ UNCHANGED <<now, live, failedAt>>

PluginFails(i) ==
    /\ i \in live /\ failedAt[i] = None
    /\ failedAt' = [failedAt EXCEPT ![i] = now]
    /\ UNCHANGED <<now, live, rows, polled, pollAt, heartbeat>>

PluginRecovers(i) ==
    /\ i \in live /\ failedAt[i] # None
    /\ failedAt' = [failedAt EXCEPT ![i] = None]
    /\ UNCHANGED <<now, live, rows, polled, pollAt, heartbeat>>

(* _handle_reload adopts another plugin set: an instance that leaves is    *)
(* stopped, one that enters is fresh, and the rows stay as they are.       *)
Reload(plugins) ==
    /\ live' = plugins
    /\ failedAt' = [i \in Instances |-> IF i \in live \cap plugins THEN failedAt[i] ELSE None]
    /\ UNCHANGED <<now, rows, polled, pollAt, heartbeat>>

(* A new process: fresh plugins, and drain() polls their health in its     *)
(* first tick, before the watchdog thread is started.                      *)
Restart ==
    /\ failedAt' = [i \in Instances |-> None]
    /\ rows' = [i \in Instances |->
                  IF i \in live THEN [status |-> "OK", updated_at |-> now] ELSE rows[i]]
    /\ polled' = live /\ heartbeat' = now /\ pollAt' = now + HealthInterval
    /\ UNCHANGED <<now, live>>

ClockTick ==
    /\ now < Horizon /\ now - heartbeat < MaxStall
    /\ now' = now + 1
    /\ UNCHANGED <<live, failedAt, rows, polled, pollAt, heartbeat>>

Init ==
    /\ now = 0 /\ live = Instances
    /\ failedAt = [i \in Instances |-> None]
    /\ rows = [i \in Instances |-> [status |-> "OK", updated_at |-> 0]]
    /\ polled = live /\ heartbeat = 0 /\ pollAt = HealthInterval

Next ==
    \/ Tick \/ Restart \/ ClockTick
    \/ \E i \in Instances : PluginFails(i) \/ PluginRecovers(i)
    \/ \E plugins \in SUBSET Instances : Reload(plugins)

Spec == Init /\ [][Next]_vars

-----------------------------------------------------------------------------
Wedged == now - heartbeat > HeartbeatGrace

(* _unhealthy_reason: the ping is withheld.                                *)
Unhealthy ==
    \/ Wedged
    \/ \E i \in Instances : rows[i].status = "FAILED" /\ now - rows[i].updated_at >= UnhealthyGrace

(* Types of the watchdog's inputs.                                         *)
TypeOK ==
    /\ now \in Time /\ heartbeat \in Time /\ pollAt \in Nat
    /\ live \subseteq Instances /\ polled \subseteq Instances
    /\ failedAt \in [Instances -> Time \cup {None}]
    /\ rows \in [Instances -> [status : Status, updated_at : Time]]

(* The service is restarted only for a cause: whenever the watchdog        *)
(* withholds the ping, the core loop has stopped ticking or a plugin of    *)
(* the running set is failing at this moment ("the loop has stopped        *)
(* ticking or an input has been failed for five minutes").  The one        *)
(* exception _unhealthy_reason makes is the FAILED row of an instance that *)
(* the last health poll no longer covered, which stays in the table.       *)
FalseAlarmsAreStale ==
    Unhealthy => \/ Wedged
                 \/ \E i \in live : failedAt[i] # None
                 \/ \E i \in Instances \ polled : rows[i].status = "FAILED"

(* A plugin that has been failed for the whole grace period, and one poll  *)
(* interval more for the core to notice, makes the watchdog withhold the   *)
(* ping ("an input has been failed for five minutes").                     *)
LongFailureSeen ==
    \A i \in live :
        failedAt[i] # None /\ now - failedAt[i] >= UnhealthyGrace + HealthInterval => Unhealthy

=============================================================================
