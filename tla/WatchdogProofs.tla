---------------------------- MODULE WatchdogProofs ----------------------------
(***************************************************************************)
(* Theorems about Watchdog.tla, for every set of instances and every       *)
(* choice of the intervals that GraceAssumption allows.                    *)
(***************************************************************************)
EXTENDS Watchdog, TLAPS

(* The inductive invariant behind FalseAlarmsAreStale: after a tick the    *)
(* next health poll lies ahead, and a row the last poll covered is as old  *)
(* as that poll.  A loop that ticks therefore keeps these rows younger     *)
(* than one poll interval and one heartbeat grace.                         *)
PollInv ==
    /\ pollAt > heartbeat
    /\ \A i \in polled : rows[i].updated_at = pollAt - HealthInterval

(* Every step of the watchdog's inputs keeps their types.                  *)
LEMMA TypeStep ==
    /\ Init => TypeOK
    /\ TypeOK /\ [Next]_vars => TypeOK'
<1> USE GraceAssumption DEF Time, None
<1>1. Init => TypeOK
  BY DEF Init, TypeOK, Status
<1>2. ASSUME TypeOK, [Next]_vars PROVE TypeOK'
  <2>1. PolledRows \in [Instances -> [status : Status, updated_at : Time]]
    BY <1>2 DEF TypeOK, PolledRows, Health, Status
  <2>2. CASE Tick
    BY <1>2, <2>1, <2>2 DEF TypeOK, Tick
  <2>3. CASE Restart
    BY <1>2, <2>3 DEF TypeOK, Restart, Status
  <2>4. CASE ClockTick
    BY <1>2, <2>4 DEF TypeOK, ClockTick
  <2>5. CASE \E i \in Instances : PluginFails(i) \/ PluginRecovers(i)
    BY <1>2, <2>5 DEF TypeOK, PluginFails, PluginRecovers
  <2>6. CASE \E plugins \in SUBSET Instances : Reload(plugins)
    BY <1>2, <2>6 DEF TypeOK, Reload
  <2>7. CASE UNCHANGED vars
    BY <1>2, <2>7 DEF TypeOK, vars
  <2> QED BY <1>2, <2>2, <2>3, <2>4, <2>5, <2>6, <2>7 DEF Next
<1> QED BY <1>1, <1>2

(* Types of the heartbeat, the health rows and the plugins' health.        *)
THEOREM TypeCorrect == Spec => []TypeOK
BY TypeStep, PTL DEF Spec

(* Every step keeps the next poll ahead of the last tick.                  *)
LEMMA PollStep ==
    /\ Init => PollInv
    /\ TypeOK /\ PollInv /\ [Next]_vars => PollInv'
<1> USE GraceAssumption
<1>1. Init => PollInv
  BY DEF Init, PollInv
<1>2. ASSUME TypeOK, PollInv, [Next]_vars PROVE PollInv'
  <2>1. CASE Tick
    <3>1. CASE pollAt <= now
      <4>1. /\ heartbeat' = now /\ pollAt' = now + HealthInterval /\ polled' = live
            /\ rows' = PolledRows
        BY <2>1, <3>1 DEF Tick
      <4>2. \A i \in live : PolledRows[i].updated_at = now
        BY <1>2 DEF TypeOK, PolledRows
      <4> QED BY <1>2, <4>1, <4>2 DEF PollInv, TypeOK, Time
    <3>2. CASE ~(pollAt <= now)
      BY <1>2, <2>1, <3>2 DEF Tick, PollInv, TypeOK, Time
    <3> QED BY <3>1, <3>2
  <2>2. CASE Restart
    BY <1>2, <2>2 DEF Restart, PollInv, TypeOK, Time
  <2>3. CASE \/ ClockTick \/ UNCHANGED vars
             \/ \E i \in Instances : PluginFails(i) \/ PluginRecovers(i)
             \/ \E plugins \in SUBSET Instances : Reload(plugins)
    <3>1. UNCHANGED <<rows, polled, pollAt, heartbeat>>
      BY <2>3 DEF ClockTick, vars, PluginFails, PluginRecovers, Reload
    <3> QED BY <1>2, <3>1 DEF PollInv
  <2> QED BY <1>2, <2>1, <2>2, <2>3 DEF Next
<1> QED BY <1>1, <1>2

(* The service is restarted only for a cause: a ping is withheld only if   *)
(* the loop has stopped ticking, a plugin is failing at this moment, or a  *)
(* row is FAILED that the last health poll no longer covered.              *)
THEOREM NoOtherFalseAlarm == Spec => []FalseAlarmsAreStale
<1>1. TypeOK /\ PollInv => FalseAlarmsAreStale
  <2> SUFFICES ASSUME TypeOK, PollInv, ~Wedged,
                      NEW i \in Instances, rows[i].status = "FAILED",
                      now - rows[i].updated_at >= UnhealthyGrace
               PROVE  i \notin polled
    BY DEF FalseAlarmsAreStale, Unhealthy
  <2>1. now <= heartbeat + HeartbeatGrace /\ heartbeat < pollAt
    BY GraceAssumption DEF Wedged, TypeOK, Time, PollInv
  <2> SUFFICES ASSUME i \in polled PROVE FALSE
    OBVIOUS
  <2>2. rows[i].updated_at = pollAt - HealthInterval
    BY DEF PollInv
  <2> QED BY <2>1, <2>2, GraceAssumption DEF TypeOK, Time
<1> QED BY <1>1, TypeCorrect, TypeStep, PollStep, PTL DEF Spec

=============================================================================
