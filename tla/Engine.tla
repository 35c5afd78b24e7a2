------------------------------- MODULE Engine -------------------------------
(***************************************************************************)
(* The core of noti-mapper: the core thread of engine.py, the SQLite rows  *)
(* it owns (storage.py), the push pool (dispatcher.py) and the life of the *)
(* process around them (runtime.py: start, signals, exit).                 *)
(*                                                                         *)
(* The plugins are left open here: an input may emit any event at any      *)
(* time, an output may ask for an unlatch at any time, a query may answer  *)
(* anything, a push may succeed or fail.  What this module guarantees it   *)
(* guarantees for every plugin.  System.tla closes it with the real ones.  *)
(*                                                                         *)
(* A transaction of the core thread is one step: SQLite makes it atomic,   *)
(* and nobody else writes these rows.  Between two steps the process may   *)
(* die, the clock may move and other threads may post messages.            *)
(***************************************************************************)
EXTENDS Sequences, FiniteSets, RuleGraph, Reconcile

CONSTANTS
    Rules, Inputs, Outputs,
    Configurations,         \* the configurations the operator may install
    Threads,                \* dispatcher_threads
    RetryInitial, RetryMax, \* retry_initial_seconds, retry_max_seconds
    ReconcileRetryInitial,  \* RECONCILE_RETRY_INITIAL_SECONDS
    ReconcileRetryMax,      \* RECONCILE_RETRY_MAX_SECONDS
    LastSeenInterval,       \* LAST_SEEN_INTERVAL_SECONDS
    Horizon,                \* bound: the clock stops here, and every deadline is due
    AttemptCap,             \* bound: attempt counters saturate here
    CountCap,               \* bound: trigger_count saturates here
    MaxQueue,               \* bound: plugins post only to a queue shorter than this
    MaxDowntime             \* bound: events one catch_up() returns

(* Delays and bounds are natural numbers; a configuration names known      *)
(* rules and instances and gives both lists of each enabled rule.          *)
ASSUME BoundsAssumption ==
    /\ RetryInitial \in Nat /\ RetryMax \in Nat
    /\ ReconcileRetryInitial \in Nat /\ ReconcileRetryMax \in Nat
    /\ LastSeenInterval \in Nat /\ Horizon \in Nat
    /\ AttemptCap \in Nat /\ CountCap \in Nat
    /\ MaxQueue \in Nat /\ MaxDowntime \in Nat /\ Threads \in Nat

ASSUME ConfigurationsAssumption ==
    \A c \in Configurations :
        /\ c.rules \in SUBSET Rules
        /\ c.instances \in SUBSET (Inputs \cup Outputs)
        /\ c.inputs \in [c.rules -> SUBSET Inputs]
        /\ c.outputs \in [c.rules -> SUBSET Outputs]

VARIABLES
    now,         \* Clock.now()
    db,          \* table latches
    outputState, \* table output_state: last_applied, "none" without a row
    pending,     \* table pending_pushes, NoPush without a row
    lastSeen,    \* daemon_state: last_seen_at
    phase,       \* the process: down, starting (start()) or running (run())
    config,      \* what _graph and _plugins were last built from
    latches,     \* _latches, the in-memory cache of db
    queue,       \* _queue
    timers,      \* _timers
    due,         \* the timers the running tick still has to fire
    tickAt,      \* the time the running tick read, 0 outside a tick
    pc,          \* where run() is: get a message, begin a tick, fire timers
    inFlight,    \* _in_flight
    seenWritten, \* _last_seen_written_at
    jobs,        \* the dispatcher's queue of requests
    busy         \* the requests a dispatcher thread is applying

durable    == <<db, outputState, pending, lastSeen>>
core       == <<phase, config, latches, timers, due, tickAt, pc, inFlight, seenWritten>>
dispatcher == <<jobs, busy>>
vars       == <<now, durable, core, queue, dispatcher>>

-----------------------------------------------------------------------------
Time      == 0 .. Horizon
OptTime   == Time \cup {None}
Values    == {"on", "off"}
Instances == Inputs \cup Outputs

(* Saturation at the named bounds.                                         *)
Cap(t)      == IF t \in Time THEN t ELSE Horizon
Bump(n)     == IF n < AttemptCap THEN n + 1 ELSE n
Counted(n)  == IF n \in 0 .. CountCap THEN n ELSE CountCap

LatchRecord == [state : {"set", "clear"}, set_at : OptTime, cleared_at : OptTime,
                trigger_count : 0 .. CountCap]
FreshLatch  == [state |-> "clear", set_at |-> None, cleared_at |-> None,
                trigger_count |-> 0]

PendingPush == [target : Values \cup {"none"}, attempts : 0 .. AttemptCap, next_at : Time]
NoPush      == [target |-> "none", attempts |-> 0, next_at |-> 0]

Request     == [output : Outputs, value : Values]
Report      == [belief : Beliefs, cleared_at : OptTime]

(* messages.py; a message that only a timer carries is a TimerMessage.     *)
InputEvent(i, t)     == [kind |-> "event", instance |-> i, at |-> t]
UnlatchRequest(o)    == [kind |-> "unlatch", instance |-> o]
PushResult(o, v, ok) == [kind |-> "result", instance |-> o, value |-> v, ok |-> ok]
ReloadMessage(c)     == [kind |-> "reload", config |-> c]
ShutdownMessage      == [kind |-> "shutdown"]

CoreMessage == [kind : {"event"}, instance : Inputs, at : Time]
         \cup [kind : {"unlatch"}, instance : Outputs]
         \cup [kind : {"result"}, instance : Outputs, value : Values, ok : {"yes", "no"}]
         \cup [kind : {"reload"}, config : Configurations]
         \cup {ShutdownMessage}

TimerMessage == [kind : {"reconcile"}, instance : Outputs, attempt : 0 .. AttemptCap]
          \cup [kind : {"catchup"}, instance : Inputs, attempt : 0 .. AttemptCap,
                since : OptTime]

-----------------------------------------------------------------------------
Graph      == FromConfiguration(config)
Live       == config.instances
Desired(o) == DesiredOutputState(Graph, o, latches)

(* RetryInitial doubled for every further attempt, up to RetryMax.         *)
BackoffSeconds(attempts) ==
    LET delay == RetryInitial * 2^(IF attempts > 1 THEN attempts - 1 ELSE 0)
    IN  IF delay > RetryMax THEN RetryMax ELSE delay

ReconcileDelay(attempt) ==
    LET delay == ReconcileRetryInitial * 2^attempt
    IN  IF delay > ReconcileRetryMax THEN ReconcileRetryMax ELSE delay

Timer(delay, message) == [at |-> Cap(now + delay), message |-> message]

(* Mutant: any scheduled retry is left alone, whatever its value.          *)
SyncedPushKeepsRow(desired, applied, existing, force) ==
    CASE ~force /\ applied = desired                            -> NoPush
      [] ~force /\ applied # desired /\ existing.target # "none" -> existing
      [] OTHER -> [target |-> desired, attempts |-> 0, next_at |-> now]

(* _sync_output: the row pending_pushes holds for o afterwards.            *)
SyncedPush(desired, applied, existing, force) ==
    CASE ~force /\ applied = desired                             -> NoPush
      [] ~force /\ applied # desired /\ existing.target = desired -> existing
      [] OTHER -> [target |-> desired, attempts |-> 0, next_at |-> now]

(* _sync_output over a set of outputs, on the graph g and the latches ls.  *)
SyncOutputs(outs, g, ls, applied, pend, force) ==
    [o \in Outputs |->
        IF o \in outs
        THEN SyncedPush(DesiredOutputState(g, o, ls), applied[o], pend[o], force)
        ELSE pend[o]]

(* _record_push_failure                                                    *)
FailedPush(existing, value) ==
    LET attempts == IF existing.target = "none" THEN Bump(0) ELSE Bump(existing.attempts)
    IN  [target |-> value, attempts |-> attempts,
         next_at |-> Cap(now + BackoffSeconds(attempts))]

(* Mutant: the row's own value is sent.                                    *)
DispatchedRequestsAsQueued(pend, flying, live, g, ls, at) ==
    {[output |-> o, value |-> pend[o].target] :
        o \in {p \in Outputs \cap live : /\ pend[p].target # "none"
                                        /\ pend[p].next_at <= at /\ p \notin flying}}

(* _dispatch_due_pushes: the rows it looks at, the ones it can send, the   *)
(* table it leaves and the requests it hands to the pool.  The value sent  *)
(* is recomputed from the latches, never taken from the row.               *)
DuePushes(pend, flying, at) ==
    {o \in Outputs : pend[o].target # "none" /\ pend[o].next_at <= at /\ o \notin flying}

ReadyOutputs(pend, flying, live, at) == DuePushes(pend, flying, at) \cap live

DispatchedTable(pend, flying, live, g, ls, at) ==
    [o \in Outputs |->
        IF o \notin DuePushes(pend, flying, at) THEN pend[o]
        ELSE IF o \in live
             THEN [pend[o] EXCEPT !.target = DesiredOutputState(g, o, ls)]
             ELSE NoPush]

DispatchedRequests(pend, flying, live, g, ls, at) ==
    {[output |-> o, value |-> DesiredOutputState(g, o, ls)] :
        o \in ReadyOutputs(pend, flying, live, at)}

-----------------------------------------------------------------------------
(* _apply_trigger on a set of rules, once per event of a non-empty list:   *)
(* set or re-triggered, the record ends with the last event's time.        *)
Triggered(rs, times) ==
    [r \in Rules |->
        IF r \in rs
        THEN [latches[r] EXCEPT
                !.state = "set",
                !.set_at = times[Len(times)],
                !.trigger_count = Counted(@ + Len(times))]
        ELSE latches[r]]

Cleared(rs) ==
    [r \in Rules |->
        IF r \in rs THEN [latches[r] EXCEPT !.state = "clear", !.cleared_at = now]
        ELSE latches[r]]

(* _apply_reconcile_outcome on a set of rules, given the event and the     *)
(* reports each of them is resolved with.                                  *)
Resolved(rs, event, count, reports) ==
    [r \in Rules |->
        IF r \in rs
        THEN LET outcome == ResolveRule(now, latches[r], event[r], reports[r])
             IN  [state |-> outcome.state, set_at |-> outcome.set_at,
                  cleared_at |-> outcome.cleared_at,
                  trigger_count |-> Counted(latches[r].trigger_count + count[r])]
        ELSE latches[r]]

(* _write_latch for the rules in rs: the row, then the cache.              *)
WriteLatches(rs, new) ==
    /\ db' = [r \in Rules |-> IF r \in rs THEN new[r] ELSE db[r]]
    /\ latches' = new

(* The transaction that ends a change to the latches of rs: the rows, and  *)
(* pending_pushes for the outputs affected by the rules in touched.        *)
CommitLatches(rs, touched, new) ==
    /\ WriteLatches(rs, new)
    /\ pending' = SyncOutputs(OutputsAffectedBy(Graph, touched), Graph, new,
                              outputState, pending, FALSE)

-----------------------------------------------------------------------------
(* Messages posted by other threads: submit() through EmitFor, UnlatchFor, *)
(* the reload thread and the signal handler.                               *)
Submit(message) ==
    /\ phase # "down"
    /\ queue' = Append(queue, message)
    /\ UNCHANGED <<now, durable, core, dispatcher>>

Room == Len(queue) < MaxQueue

Emit(i, t) ==
    /\ i \in Live /\ t <= now
    /\ Room
    /\ Submit(InputEvent(i, t))

RequestUnlatch(o) ==
    /\ o \in Live
    /\ Room
    /\ Submit(UnlatchRequest(o))

SubmitReload(c) ==
    /\ phase = "running"
    /\ Room
    /\ Submit(ReloadMessage(c))

RequestStop ==
    /\ phase = "running"
    /\ Room
    /\ Submit(ShutdownMessage)

ClockTick ==
    /\ now < Horizon
    /\ now' = now + 1
    /\ UNCHANGED <<durable, core, queue, dispatcher>>

-----------------------------------------------------------------------------
(* Mutants of the pool: a request for an output that is gone is dropped    *)
(* without a result; a failure is reported without its value.              *)
TakeDropsGone(j) ==
    /\ phase # "down"
    /\ j \in jobs /\ Cardinality(busy) < Threads
    /\ jobs' = jobs \ {j}
    /\ busy' = IF j.output \in Live THEN busy \cup {j} ELSE busy
    /\ UNCHANGED <<now, durable, core, queue>>

FinishWithoutValue(j, ok) ==
    /\ phase # "down"
    /\ j \in busy
    /\ busy' = busy \ {j}
    /\ queue' = Append(queue, PushResult(j.output, IF ok = "yes" THEN j.value ELSE "none", ok))
    /\ UNCHANGED <<now, durable, core, jobs>>

(* The push pool.  Its queue is a set: one request per output is in the    *)
(* pool at a time (SingleFlight), and which one a thread takes first is    *)
(* left open.  The output table is read when the request is taken.         *)
Take(j) ==
    /\ phase # "down"
    /\ j \in jobs /\ Cardinality(busy) < Threads
    /\ jobs' = jobs \ {j}
    /\ IF j.output \in Live
       THEN busy' = busy \cup {j} /\ queue' = queue
       ELSE busy' = busy /\ queue' = Append(queue, PushResult(j.output, j.value, "no"))
    /\ UNCHANGED <<now, durable, core>>

(* apply() returned (ok = "yes") or raised (ok = "no").                    *)
Finish(j, ok) ==
    /\ phase # "down"
    /\ j \in busy
    /\ busy' = busy \ {j}
    /\ queue' = Append(queue, PushResult(j.output, j.value, ok))
    /\ UNCHANGED <<now, durable, core, jobs>>

-----------------------------------------------------------------------------
(* run(): take one message, handle it, tick.                               *)
Receive(kind) ==
    /\ phase = "running" /\ pc = "get"
    /\ queue # <<>> /\ Head(queue).kind = kind
    /\ queue' = Tail(queue)
    /\ pc' = "tick"

HandleInputEvent ==
    /\ Receive("event")
    /\ LET rules == RulesForInput(Graph, Head(queue).instance)
       IN  CommitLatches(rules, rules, Triggered(rules, <<Head(queue).at>>))
    /\ UNCHANGED <<now, outputState, lastSeen, phase, config, timers, due, tickAt,
                   inFlight, seenWritten, dispatcher>>

SetRules(o) == {r \in RulesForOutput(Graph, o) : latches[r].state = "set"}

(* An unlatch clears every set rule of the output; with none set it is     *)
(* ignored, which is what stops two outputs from clearing each other for   *)
(* ever.                                                                   *)
HandleUnlatch ==
    /\ Receive("unlatch")
    /\ LET o == Head(queue).instance
       IN  /\ SetRules(o) # {}
           /\ CommitLatches(SetRules(o), RulesForOutput(Graph, o), Cleared(SetRules(o)))
    /\ UNCHANGED <<now, outputState, lastSeen, phase, config, timers, due, tickAt,
                   inFlight, seenWritten, dispatcher>>

IgnoreUnlatch ==
    /\ Receive("unlatch")
    /\ SetRules(Head(queue).instance) = {}
    /\ UNCHANGED <<now, durable, phase, config, latches, timers, due, tickAt,
                   inFlight, seenWritten, dispatcher>>

(* Mutants of _handle_push_result: _in_flight keeps the output; a failure  *)
(* is noted as applied; what is wanted now is noted, not what was sent.    *)
HandlePushResultKeepsFlying ==
    /\ Receive("result")
    /\ LET m == Head(queue)
           o == m.instance
           applied == IF m.ok = "yes" THEN [outputState EXCEPT ![o] = m.value]
                      ELSE outputState
       IN  /\ outputState' = applied
           /\ pending' = SyncOutputs({o}, Graph, latches, applied, pending, FALSE)
    /\ UNCHANGED <<now, db, lastSeen, phase, config, latches, timers, due, tickAt,
                   inFlight, seenWritten, dispatcher>>

HandlePushResultAssumesSuccess ==
    /\ Receive("result")
    /\ LET m == Head(queue)
           o == m.instance
           applied == [outputState EXCEPT ![o] = m.value]
       IN  /\ inFlight' = inFlight \ {o}
           /\ outputState' = applied
           /\ pending' = SyncOutputs({o}, Graph, latches, applied, pending, FALSE)
    /\ UNCHANGED <<now, db, lastSeen, phase, config, latches, timers, due, tickAt,
                   seenWritten, dispatcher>>

HandlePushResultNotesDesired ==
    /\ Receive("result")
    /\ LET m == Head(queue)
           o == m.instance
           applied == IF m.ok = "yes" THEN [outputState EXCEPT ![o] = Desired(o)]
                      ELSE outputState
           pend == IF m.ok = "yes" THEN pending
                   ELSE [pending EXCEPT ![o] = FailedPush(@, m.value)]
       IN  /\ inFlight' = inFlight \ {o}
           /\ outputState' = applied
           /\ pending' = SyncOutputs({o}, Graph, latches, applied, pend, FALSE)
    /\ UNCHANGED <<now, db, lastSeen, phase, config, latches, timers, due, tickAt,
                   seenWritten, dispatcher>>

HandlePushResult ==
    /\ Receive("result")
    /\ LET m == Head(queue)
           o == m.instance
           applied == IF m.ok = "yes" THEN [outputState EXCEPT ![o] = m.value]
                      ELSE outputState
           pend == IF m.ok = "yes" THEN pending
                   ELSE [pending EXCEPT ![o] = FailedPush(@, m.value)]
       IN  /\ inFlight' = inFlight \ {o}
           /\ outputState' = applied
           /\ pending' = SyncOutputs({o}, Graph, latches, applied, pend, FALSE)
    /\ UNCHANGED <<now, db, lastSeen, phase, config, latches, timers, due, tickAt,
                   seenWritten, dispatcher>>

(* Mutant: only the outputs of the old graph are brought into step.        *)
HandleReloadOldOutputs ==
    /\ Receive("reload")
    /\ config' = Head(queue).config
    /\ latches' = db
    /\ pending' = SyncOutputs(OutputNames(Graph), FromConfiguration(Head(queue).config), db,
                              outputState, pending, FALSE)
    /\ UNCHANGED <<now, db, outputState, lastSeen, phase, timers, due, tickAt,
                   inFlight, seenWritten, dispatcher>>

(* The new graph and plugins, the cache re-read, and every output of the   *)
(* old or the new graph brought into step.                                 *)
HandleReload ==
    /\ Receive("reload")
    /\ config' = Head(queue).config
    /\ latches' = db
    /\ LET g == FromConfiguration(Head(queue).config)
       IN  pending' = SyncOutputs(OutputNames(Graph) \cup OutputNames(g), g, db,
                                  outputState, pending, FALSE)
    /\ UNCHANGED <<now, db, outputState, lastSeen, phase, timers, due, tickAt,
                   inFlight, seenWritten, dispatcher>>

(* What a process leaves behind: only the database.                        *)
ProcessGone ==
    /\ phase' = "down" /\ pc' = "get"
    /\ queue' = <<>> /\ timers' = {} /\ due' = {} /\ tickAt' = 0 /\ inFlight' = {}
    /\ jobs' = {} /\ busy' = {}
    /\ seenWritten' = None
    /\ UNCHANGED <<now, db, outputState, pending, config, latches>>

(* run() returns through _on_stop() and the process exits; messages behind *)
(* the ShutdownMessage are never read.                                     *)
HandleShutdown ==
    /\ phase = "running" /\ pc = "get"
    /\ queue # <<>> /\ Head(queue).kind = "shutdown"
    /\ lastSeen' = now
    /\ ProcessGone

Crash ==
    /\ phase # "down"
    /\ lastSeen' = lastSeen
    /\ ProcessGone

-----------------------------------------------------------------------------
(* Mutant: a due timer fires without leaving _timers.                      *)
BeginTickKeepsTimers ==
    /\ phase = "running"
    /\ pc = "tick" \/ (pc = "get" /\ queue = <<>>)
    /\ pc' = "timers" /\ tickAt' = now
    /\ due' = {t \in timers : t.at <= now}
    /\ UNCHANGED <<now, durable, phase, config, latches, timers, inFlight, seenWritten,
                   queue, dispatcher>>

(* _tick, after a message or when the queue stayed empty: collect the due  *)
(* timers, fire them, then dispatch the due pushes and note last_seen_at.  *)
BeginTick ==
    /\ phase = "running"
    /\ pc = "tick" \/ (pc = "get" /\ queue = <<>>)
    /\ pc' = "timers" /\ tickAt' = now
    /\ due' = {t \in timers : t.at <= now}
    /\ timers' = {t \in timers : t.at > now}
    /\ UNCHANGED <<now, durable, phase, config, latches, inFlight, seenWritten, queue,
                   dispatcher>>

Fire(t, kind) ==
    /\ phase = "running" /\ pc = "timers"
    /\ t \in due /\ t.message.kind = kind
    /\ due' = due \ {t}
    /\ UNCHANGED <<now, outputState, lastSeen, phase, config, tickAt, pc, inFlight,
                   seenWritten, queue, dispatcher>>

(* _handle_reconcile_retry: the output is gone, or its query() fails       *)
(* again, or it answers and its rules are resolved on that one report.     *)
HandleReconcileRetry(t, report) ==
    /\ Fire(t, "reconcile")
    /\ LET o == t.message.instance
           rules == RulesForOutput(Graph, o)
           again == [t.message EXCEPT !.attempt = Bump(@)]
       IN  \/ /\ o \notin Live
              /\ UNCHANGED <<db, latches, pending, timers>>
           \/ /\ o \in Live /\ report.belief = "UNKNOWN"
              /\ timers' = timers \cup {Timer(ReconcileDelay(t.message.attempt), again)}
              /\ UNCHANGED <<db, latches, pending>>
           \/ /\ o \in Live /\ report.belief # "UNKNOWN"
              /\ CommitLatches(rules, rules,
                    Resolved(rules, [r \in Rules |-> None], [r \in Rules |-> 0],
                             [r \in Rules |-> {report}]))
              /\ UNCHANGED timers

(* _handle_catch_up_retry: the input is gone, or catch_up() raises again,  *)
(* or its events are fed through _handle_input_event one by one.           *)
HandleCatchUpRetry(t, raised, events) ==
    /\ Fire(t, "catchup")
    /\ LET i == t.message.instance
           rules == RulesForInput(Graph, i)
           again == [t.message EXCEPT !.attempt = Bump(@)]
       IN  \/ /\ i \notin Live
              /\ UNCHANGED <<db, latches, pending, timers>>
           \/ /\ i \in Live /\ raised
              /\ timers' = timers \cup {Timer(ReconcileDelay(t.message.attempt), again)}
              /\ UNCHANGED <<db, latches, pending>>
           \/ /\ i \in Live /\ ~raised /\ events = <<>>
              /\ UNCHANGED <<db, latches, pending, timers>>
           \/ /\ i \in Live /\ ~raised /\ events # <<>>
              /\ CommitLatches(rules, rules, Triggered(rules, events))
              /\ UNCHANGED timers

DispatchDuePushes ==
    /\ phase = "running" /\ pc = "timers" /\ due = {}
    /\ pc' = "get" /\ tickAt' = 0
    /\ pending' = DispatchedTable(pending, inFlight, Live, Graph, latches, tickAt)
    /\ inFlight' = inFlight \cup ReadyOutputs(pending, inFlight, Live, tickAt)
    /\ jobs' = jobs \cup DispatchedRequests(pending, inFlight, Live, Graph, latches, tickAt)
    /\ IF seenWritten = None \/ tickAt - seenWritten >= LastSeenInterval
       THEN lastSeen' = tickAt /\ seenWritten' = tickAt
       ELSE UNCHANGED <<lastSeen, seenWritten>>
    /\ UNCHANGED <<now, db, outputState, phase, config, latches, timers, due, queue, busy>>

-----------------------------------------------------------------------------
(* Runtime.start() up to dispatcher.start(): the engine is built on the    *)
(* database, adopts the plugins through a ReloadMessage, and drain() runs  *)
(* that message and one tick -- which already sends what was pending and   *)
(* writes last_seen_at.                                                    *)
Start(c) ==
    /\ phase = "down"
    /\ phase' = "starting"
    /\ config' = c
    /\ latches' = db
    /\ LET g    == FromConfiguration(c)
           pend == SyncOutputs(OutputNames(g), g, db, outputState, pending, FALSE)
       IN  /\ pending'  = DispatchedTable(pend, {}, c.instances, g, db, now)
           /\ inFlight' = ReadyOutputs(pend, {}, c.instances, now)
           /\ jobs'     = DispatchedRequests(pend, {}, c.instances, g, db, now)
    /\ lastSeen' = now /\ seenWritten' = now
    /\ UNCHANGED <<now, db, outputState, queue, timers, due, tickAt, pc, busy>>

(* _summarize: the latest event of a set of inputs, and how many.          *)
LatestOf(ins, downtime) ==
    LET times == UNION {{downtime[i][k] : k \in DOMAIN downtime[i]} : i \in ins}
    IN  IF times = {} THEN None ELSE CHOOSE t \in times : \A u \in times : u <= t

CountOf(ins, downtime) ==
    Cardinality(UNION {{i} \X DOMAIN downtime[i] : i \in ins})

(* reconcile(): catch_up() on every input (those in raised failed and are  *)
(* retried), query() on every output (an UNKNOWN is retried), then one     *)
(* transaction that resolves every rule and forces a push to every output. *)
ReconcileAll(downtime, raised, reports) ==
    LET ins   == InputNames(Graph)
        outs  == OutputNames(Graph)
        rules == RuleNames(Graph)
        event == [r \in Rules |-> IF r \in rules
                                  THEN LatestOf(Graph.inputs[r] \ raised, downtime) ELSE None]
        count == [r \in Rules |-> IF r \in rules
                                  THEN CountOf(Graph.inputs[r] \ raised, downtime) ELSE 0]
        known == [r \in Rules |-> IF r \in rules
                                  THEN {reports[o] : o \in Graph.outputs[r]} ELSE {}]
        new   == Resolved(rules, event, count, known)
        pend  == SyncOutputs(outs, Graph, new, outputState, pending, TRUE)
    IN  /\ phase = "starting"
        /\ phase' = "running"
        /\ WriteLatches(rules, new)
        /\ timers' = timers
             \cup {Timer(ReconcileRetryInitial,
                         [kind |-> "catchup", instance |-> i, attempt |-> Bump(0),
                          since |-> lastSeen]) : i \in ins \cap raised}
             \cup {Timer(ReconcileRetryInitial,
                         [kind |-> "reconcile", instance |-> o, attempt |-> Bump(0)]) :
                     o \in {p \in outs : reports[p].belief = "UNKNOWN"}}
        /\ pending'  = DispatchedTable(pend, inFlight, Live, Graph, new, now)
        /\ inFlight' = inFlight \cup ReadyOutputs(pend, inFlight, Live, now)
        /\ jobs'     = jobs \cup DispatchedRequests(pend, inFlight, Live, Graph, new, now)
        /\ lastSeen' = now /\ seenWritten' = now
        /\ UNCHANGED <<now, outputState, config, queue, due, tickAt, pc, busy>>

-----------------------------------------------------------------------------
(* A fresh database, no process yet, and the clock anywhere.               *)
Init ==
    /\ now \in Time
    /\ db = [r \in Rules |-> FreshLatch]
    /\ outputState = [o \in Outputs |-> "none"]
    /\ pending = [o \in Outputs |-> NoPush]
    /\ lastSeen = None
    /\ phase = "down" /\ pc = "get"
    /\ config \in Configurations
    /\ latches = db
    /\ queue = <<>> /\ timers = {} /\ due = {} /\ tickAt = 0 /\ inFlight = {}
    /\ seenWritten = None
    /\ jobs = {} /\ busy = {}

(* What plugins may answer: a clear is reported no later than now.         *)
Reports == {rep \in Report : (rep.belief = "CLEARED" /\ rep.cleared_at <= now)
                             \/ rep.cleared_at = None}
EventLists == UNION {[1 .. n -> 0 .. now] : n \in 0 .. MaxDowntime}

CoreNext ==
    \/ HandleInputEvent \/ HandleUnlatch \/ IgnoreUnlatch
    \/ HandlePushResult \/ HandleReload \/ HandleShutdown
    \/ BeginTick \/ DispatchDuePushes
    \/ \E t \in due, rep \in Reports : HandleReconcileRetry(t, rep)
    \/ \E t \in due, raised \in BOOLEAN, ev \in EventLists : HandleCatchUpRetry(t, raised, ev)
    \/ \E downtime \in [Inputs -> EventLists], raised \in SUBSET Inputs,
          reports \in [Outputs -> Reports] : ReconcileAll(downtime, raised, reports)

PoolNext ==
    \/ \E j \in jobs : Take(j)
    \/ \E j \in busy, ok \in {"yes", "no"} : Finish(j, ok)

OutsideNext ==
    \/ \E i \in Inputs, t \in Time : Emit(i, t)
    \/ \E o \in Outputs : RequestUnlatch(o)
    \/ \E c \in Configurations : SubmitReload(c) \/ Start(c)
    \/ RequestStop \/ Crash \/ ClockTick

Next == CoreNext \/ PoolNext \/ OutsideNext

Spec == Init /\ [][Next]_vars

-----------------------------------------------------------------------------
(* Type correctness of the engine's state: the rows of the database, the   *)
(* fields of Engine.__init__ and the dispatcher's requests.                *)
TypeOK ==
    /\ now \in Time /\ tickAt \in Time
    /\ db \in [Rules -> LatchRecord] /\ latches \in [Rules -> LatchRecord]
    /\ outputState \in [Outputs -> Values \cup {"none"}]
    /\ pending \in [Outputs -> PendingPush]
    /\ lastSeen \in OptTime /\ seenWritten \in OptTime
    /\ phase \in {"down", "starting", "running"}
    /\ pc \in {"get", "tick", "timers"}
    /\ config \in Configurations
    /\ queue \in Seq(CoreMessage)
    /\ timers \in SUBSET [at : Time, message : TimerMessage]
    /\ due \in SUBSET [at : Time, message : TimerMessage]
    /\ inFlight \in SUBSET Outputs
    /\ jobs \in SUBSET Request /\ busy \in SUBSET Request

(* No output is ever left wrong and forgotten: whatever was handled, an    *)
(* output of the graph either was last told what the latches want of it,   *)
(* or has a pending push carrying exactly that value.  This is what        *)
(* _sync_output is called for after every mutation, also when a push of    *)
(* another value is in flight, has failed, or a reload changed the graph.  *)
PendingCoversDesired ==
    phase # "down" =>
        \A o \in OutputNames(Graph) :
            outputState[o] = Desired(o) \/ pending[o].target = Desired(o)

(* The results still waiting in the core's queue for an output.            *)
Results(o) == {k \in DOMAIN queue : queue[k].kind = "result" /\ queue[k].instance = o}

(* At most one push per output is anywhere between dispatch and the        *)
(* handling of its result, and _in_flight holds exactly the outputs that   *)
(* have one: two pushes to one output could land in either order, and an   *)
(* output left in _in_flight would never be pushed to again.               *)
SingleFlight ==
    \A o \in Outputs :
        Cardinality({j \in jobs : j.output = o}) + Cardinality({j \in busy : j.output = o})
            + Cardinality(Results(o)) = (IF o \in inFlight THEN 1 ELSE 0)

(* Replaying a stale value is impossible: whatever is handed to the pool,  *)
(* in a tick, at start-up or by reconciliation, is the value the latches   *)
(* want at that moment, even if the row was written for another one.       *)
FreshDispatch ==
    [][\A j \in jobs' \ jobs : j.value = Desired(j.output)']_vars

(* One background retry chain per plugin: an unreachable output or input   *)
(* never has two ReconcileOutput or CatchUp messages outstanding, or the   *)
(* retries would multiply with every failure.                              *)
OneRetryChain ==
    \A s, t \in timers \cup due :
        s.message.kind = t.message.kind /\ s.message.instance = t.message.instance => s = t

=============================================================================
