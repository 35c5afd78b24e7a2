------------------------------- MODULE System -------------------------------
(***************************************************************************)
(* The engine together with what it is connected to: PagerDuty and HomeKit *)
(* outputs (plugins/pagerduty_output, plugins/homekit_output), inputs that *)
(* deliver what happened during downtime through catch_up(), the operator  *)
(* who clears an output, and a process that may die at any step.           *)
(*                                                                         *)
(* Every step is a step of Engine.tla with the plugins' answers fixed by   *)
(* the state of the remote services (PROPERTY EngineSteps).                *)
(***************************************************************************)
EXTENDS Engine

CONSTANTS
    PollOutputs,       \* PagerDuty: the remote keeps the state, a poller reads it
    SwitchOutputs,     \* HomeKit: the accessory lives in the daemon's process
    Scenarios          \* the configuration, the time it starts at, and the bounds:
                       \* events, faults, crashes and clears that may happen

ASSUME OutputKindsAssumption ==
    /\ PollOutputs \cup SwitchOutputs = Outputs
    /\ PollOutputs \cap SwitchOutputs = {}

ASSUME ScenariosAssumption ==
    \A s \in Scenarios :
        /\ s.config \in Configurations /\ s.start \in Time
        /\ {s.events, s.faults, s.crashes, s.clears} \subseteq Nat
        /\ s.events <= MaxDowntime

VARIABLES
    remote,       \* what each output shows
    missed,       \* what each input's catch_up() has still to deliver
    operatorAt,   \* when the operator last cleared each output
    events,       \* how many events may still happen,
    faults,       \* how many pushes, queries and catch_up() calls may still fail,
    crashes,      \* how often the process may still go away,
    clears        \* how often the operator may still use an output

budget  == <<events, faults, crashes, clears>>
outside == <<remote, missed, operatorAt, budget>>
sysvars == <<vars, outside>>

-----------------------------------------------------------------------------
(* Mutant: the accessory is built without a _desired.                      *)
FreshRemoteUntold(o) ==
    [shows |-> IF o \in PollOutputs THEN "never" ELSE "off", cleared_at |-> None,
     told |-> "none"]

(* PagerDuty: no incident ever, an open one, or a resolved one with its    *)
(* time.  HomeKit: the On characteristic, and the value the plugin was     *)
(* last told (_desired), which it restores when a controller writes true.  *)
Remote == [shows : {"never", "on", "off"}, cleared_at : OptTime, told : Values]

FreshRemote(o) ==
    [shows |-> IF o \in PollOutputs THEN "never" ELSE "off", cleared_at |-> None,
     told |-> "off"]

(* apply(): trigger opens an incident, resolve closes an open one and is   *)
(* otherwise accepted without effect; the switch takes any value.          *)
Applied(o, value) ==
    CASE o \in SwitchOutputs -> [remote[o] EXCEPT !.shows = value, !.told = value]
      [] o \in PollOutputs /\ value = "on" ->
            [remote[o] EXCEPT !.shows = "on", !.cleared_at = None]
      [] o \in PollOutputs /\ value = "off" /\ remote[o].shows = "on" ->
            [remote[o] EXCEPT !.shows = "off", !.cleared_at = now]
      [] OTHER -> remote[o]

(* query(): HomeKit never knows; PagerDuty answers from its incidents, and *)
(* an output that cannot be reached is UNKNOWN.                            *)
Unknown == [belief |-> "UNKNOWN", cleared_at |-> None]

(* Mutant: a PagerDuty without incidents counts as resolved.               *)
QueryNeverMeansCleared(o, reachable) ==
    IF ~reachable \/ o \in SwitchOutputs THEN Unknown
    ELSE IF remote[o].shows = "on" THEN [belief |-> "ACTIVE", cleared_at |-> None]
    ELSE [belief |-> "CLEARED", cleared_at |-> remote[o].cleared_at]

Query(o, reachable) ==
    IF ~reachable \/ o \in SwitchOutputs \/ remote[o].shows = "never" THEN Unknown
    ELSE IF remote[o].shows = "on" THEN [belief |-> "ACTIVE", cleared_at |-> None]
    ELSE [belief |-> "CLEARED", cleared_at |-> remote[o].cleared_at]

-----------------------------------------------------------------------------
(* Something happens at an input: a running input emits it, otherwise it   *)
(* waits in the mailbox or the directory for catch_up().  What is there    *)
(* before the very first start is history, not downtime.                   *)
Happens(i) ==
    /\ events > 0
    /\ phase = "down" => lastSeen # None
    /\ events' = events - 1
    /\ IF phase = "down"
       THEN missed' = [missed EXCEPT ![i] = Append(@, now)] /\ UNCHANGED vars
       ELSE Emit(i, now) /\ UNCHANGED missed
    /\ UNCHANGED <<remote, operatorAt, faults, crashes, clears>>

(* The operator resolves the incident; the daemon learns of it by polling. *)
ResolveIncident(o) ==
    /\ clears > 0
    /\ o \in PollOutputs /\ remote[o].shows = "on"
    /\ clears' = clears - 1
    /\ operatorAt' = [operatorAt EXCEPT ![o] = now]
    /\ remote' = [remote EXCEPT ![o].shows = "off", ![o].cleared_at = now]
    /\ UNCHANGED <<vars, missed, events, faults, crashes>>

(* Mutant: the poller outlives the process it reports to.                  *)
PollOnceUnstopped(o) ==
    /\ o \in PollOutputs /\ Query(o, TRUE).belief = "CLEARED"
    /\ Room
    /\ queue' = Append(queue, UnlatchRequest(o))
    /\ UNCHANGED <<now, durable, core, dispatcher, outside>>

(* poll_once(): an incident seen resolved is an unlatch request.           *)
PollOnce(o) ==
    /\ o \in PollOutputs /\ Query(o, TRUE).belief = "CLEARED"
    /\ RequestUnlatch(o)
    /\ UNCHANGED outside

(* characteristic_written(False)                                           *)
SwitchOff(o) ==
    /\ clears > 0
    /\ o \in SwitchOutputs
    /\ clears' = clears - 1
    /\ operatorAt' = [operatorAt EXCEPT ![o] = now]
    /\ remote' = [remote EXCEPT ![o].shows = "off"]
    /\ RequestUnlatch(o)
    /\ UNCHANGED <<missed, events, faults, crashes>>

(* characteristic_written(True): the switch is returned to _desired.       *)
SwitchOn(o) ==
    /\ phase # "down" /\ o \in Live
    /\ o \in SwitchOutputs
    /\ remote' = [remote EXCEPT ![o].shows = remote[o].told]
    /\ UNCHANGED <<vars, missed, operatorAt, budget>>

-----------------------------------------------------------------------------
PushLands(j) ==
    /\ Finish(j, "yes")
    /\ remote' = [remote EXCEPT ![j.output] = Applied(j.output, j.value)]
    /\ UNCHANGED <<missed, operatorAt, budget>>

(* apply() raises: the request to PagerDuty was lost, or only its answer.    *)
(* A running accessory takes every value.                                  *)
PushFails(j) ==
    /\ faults > 0
    /\ j.output \in PollOutputs
    /\ faults' = faults - 1
    /\ Finish(j, "no")
    /\ \/ UNCHANGED remote
       \/ remote' = [remote EXCEPT ![j.output] = Applied(j.output, j.value)]
    /\ UNCHANGED <<missed, operatorAt, events, crashes, clears>>

QueryRetried(t, reachable) ==
    /\ reachable \/ faults > 0
    /\ HandleReconcileRetry(t, Query(t.message.instance, reachable))
    /\ faults' = IF reachable THEN faults ELSE faults - 1
    /\ UNCHANGED <<remote, missed, operatorAt, events, crashes, clears>>

CatchUpRetried(t, raised) ==
    /\ raised => faults > 0
    /\ HandleCatchUpRetry(t, raised, missed[t.message.instance])
    /\ faults' = IF raised THEN faults - 1 ELSE faults
    /\ missed' = IF raised THEN missed ELSE [missed EXCEPT ![t.message.instance] = <<>>]
    /\ UNCHANGED <<remote, operatorAt, events, crashes, clears>>

(* The accessory is built anew by every process, and starts off.           *)
ProcessStarts ==
    /\ Start(config)
    /\ remote' = [o \in Outputs |-> IF o \in SwitchOutputs THEN FreshRemote(o) ELSE remote[o]]
    /\ UNCHANGED <<missed, operatorAt, budget>>

ProcessReconciles(raised, unreachable) ==
    /\ Cardinality(raised) + Cardinality(unreachable) <= faults
    /\ ReconcileAll(missed, raised,
                    [o \in Outputs |-> Query(o, o \notin unreachable)])
    /\ faults' = faults - Cardinality(raised) - Cardinality(unreachable)
    /\ missed' = [i \in Inputs |-> IF i \in raised THEN missed[i] ELSE <<>>]
    /\ UNCHANGED <<remote, operatorAt, events, crashes, clears>>

ProcessDies ==
    /\ crashes > 0
    /\ crashes' = crashes - 1
    /\ Crash
    /\ UNCHANGED <<remote, missed, operatorAt, events, faults, clears>>

ProcessTold ==
    /\ crashes > 0
    /\ crashes' = crashes - 1
    /\ RequestStop
    /\ UNCHANGED <<remote, missed, operatorAt, events, faults, clears>>

-----------------------------------------------------------------------------
SysInit ==
    /\ Init
    /\ remote = [o \in Outputs |-> FreshRemote(o)]
    /\ missed = [i \in Inputs |-> <<>>]
    /\ operatorAt = [o \in Outputs |-> None]
    /\ \E s \in Scenarios :
          /\ config = s.config /\ now = s.start
          /\ events = s.events /\ faults = s.faults
          /\ crashes = s.crashes /\ clears = s.clears

Messages ==
    /\ \/ HandleInputEvent \/ HandleUnlatch \/ IgnoreUnlatch \/ HandlePushResult
       \/ HandleShutdown \/ BeginTick \/ DispatchDuePushes
    /\ UNCHANGED outside

CoreSteps ==
    \/ Messages
    \/ \E t \in due, reachable \in BOOLEAN : QueryRetried(t, reachable)
    \/ \E t \in due, raised \in BOOLEAN : CatchUpRetried(t, raised)
    \/ \E raised \in SUBSET Inputs, unreachable \in SUBSET PollOutputs :
          ProcessReconciles(raised, unreachable)

Takes == (\E j \in jobs : Take(j)) /\ UNCHANGED outside
Applies == \E j \in busy : PushLands(j) \/ PushFails(j)
TimePasses == ClockTick /\ UNCHANGED outside

SysNext ==
    \/ CoreSteps \/ Takes \/ Applies \/ TimePasses
    \/ \E i \in Inputs : Happens(i)
    \/ \E o \in Outputs : ResolveIncident(o) \/ PollOnce(o) \/ SwitchOff(o) \/ SwitchOn(o)
    \/ ProcessStarts \/ ProcessDies \/ ProcessTold

SysSpec == SysInit /\ [][SysNext]_sysvars

(* The core thread, the pool and the poller run, the clock moves, and      *)
(* systemd restarts the service.  Nothing obliges an event, a fault, the   *)
(* operator or a crash to happen.                                          *)
Fairness ==
    /\ WF_sysvars(CoreSteps) /\ WF_sysvars(Takes) /\ WF_sysvars(Applies)
    /\ WF_sysvars(TimePasses) /\ WF_sysvars(ProcessStarts)
    /\ \A o \in PollOutputs : WF_sysvars(PollOnce(o))

FairSpec == SysSpec /\ Fairness

-----------------------------------------------------------------------------
(* Types of the outside world.                                             *)
OutsideTypeOK ==
    /\ remote \in [Outputs -> Remote]
    /\ missed \in [Inputs -> Seq(Time)]
    /\ operatorAt \in [Outputs -> OptTime]

(* The real plugins are instances of the open ones of Engine.tla: every    *)
(* step of the system is a step of the engine or leaves it alone.          *)
EngineSteps == Init /\ [][Next]_vars

(* In the end every output shows what the latches want, whatever happened  *)
(* before: "the latch still sets and the lamp still turns on; the failed   *)
(* push retries" (engine.py).                                              *)
Shown(o) == IF remote[o].shows = "on" THEN "on" ELSE "off"
Agreement == \A o \in OutputNames(Graph) : Shown(o) = Desired(o)
Converges == <>[]Agreement

Unlatches(r) == latches[r].state = "set" /\ latches'[r].state = "clear"

(* Unlatching is always deliberate (README.md): whatever failed, was lost, *)
(* restarted or polled twice, no latch is cleared before the operator has  *)
(* cleared an output of the rule.                                          *)
DeliberateUnlatch ==
    [][\A r \in RuleNames(Graph) :
          Unlatches(r) => \E o \in Graph.outputs[r] : operatorAt[o] # None]_sysvars

(* Two clear paths racing (README.md): the second unlatch that one act of  *)
(* the operator leads to, when the poller sees the resolve the daemon sent *)
(* itself, "must be a no-op".  A clear the latch has already followed does *)
(* not clear it again after a later event.                                 *)
SecondUnlatchIsNoOp ==
    [][\A r \in RuleNames(Graph) :
          Unlatches(r) /\ queue # queue' /\ Head(queue).kind = "unlatch" =>
              \E o \in Graph.outputs[r] :
                  /\ operatorAt[o] # None
                  /\ operatorAt[o] >= latches[r].set_at
                     \/ operatorAt[o] > latches[r].cleared_at]_sysvars

(* The latest time an output of the rule shows it was cleared.             *)
LastClear(r) ==
    LET times == {remote[o].cleared_at : o \in Graph.outputs[r]}
    IN  CHOOSE t \in times \cup {None} : \A u \in times : u <= t

Reconciles == phase = "starting" /\ phase' = "running"

(* An event that happened during downtime, later than every clear its      *)
(* rule's outputs show, is not dropped: reconciliation leaves the latch    *)
(* set, or the catch-up that failed is still scheduled with its events.    *)
DowntimeEventLatches ==
    [][Reconciles => \A r \in RuleNames(Graph) :
          \A i \in Graph.inputs[r] : \A k \in DOMAIN missed[i] :
              missed[i][k] > LastClear(r) =>
                  latches'[r].state = "set" \/ missed'[i] # <<>>]_sysvars

(* A push that fails is retried with backoff (plugin.py): a failed value   *)
(* that is still wanted stays pending.                                     *)
FailedPushRetries ==
    [][\A o \in Outputs :
          /\ queue # <<>> /\ Head(queue) = PushResult(o, Desired(o), "no")
          /\ phase' # "down" /\ queue' = Tail(queue)
          => pending'[o].target = Desired(o)]_sysvars

=============================================================================
