------------------------------- MODULE Daemon -------------------------------
(***************************************************************************)
(* The running daemon (runtime.py) around the core loop: the reload thread *)
(* that SIGHUP wakes, the plugin instances it builds, stops and starts,    *)
(* its hand-over to the core through a ReloadMessage with an               *)
(* acknowledgement, the latch cache it refreshes behind the core's back,   *)
(* and the way out through SIGTERM or a core loop that raised.             *)
(*                                                                         *)
(* A configuration is a set of [name, settings] pairs; an instance is a    *)
(* pair together with the number of the reload that built it.  One rule's  *)
(* latch stands for the latch table, since the cache is replaced whole.    *)
(***************************************************************************)
EXTENDS Integers, Sequences

CONSTANTS
    Configs,       \* the configurations that load
    Broken,        \* those among them with a plugin whose constructor raises
    Bad,           \* a configuration directory that does not load
    First,         \* the one the daemon was started with
    MaxReloads     \* bound: times the operator reconfigures

ASSUME DaemonAssumption ==
    /\ Broken \subseteq Configs /\ First \in Configs \ Broken /\ Bad \notin Configs
    /\ MaxReloads \in Nat
    /\ \A c \in Configs : \A x, y \in c : x.name = y.name => x = y

VARIABLES
    file,              \* the configuration directory
    reloadRequested,   \* _reload_requested
    shuttingDown,      \* _shutting_down
    queue,             \* the ReloadMessages and ShutdownMessages in the core's queue
    db, latches,       \* the latch in the database and in the core's cache
    adopted,           \* the engine's _plugins
    live,              \* _live
    running,           \* the instances started and not stopped
    reloader,          \* where the reload thread is
    plan,              \* its local variables
    result,            \* how its last _reload() went
    acknowledged,      \* the Event of the ReloadMessage it waits for
    main,              \* the main thread: run(), stop(), joining, gone
    reloads            \* how often the operator reconfigured

signals == <<reloadRequested, shuttingDown>>
core    == <<queue, db, latches, adopted, acknowledged, main>>
vars    == <<file, signals, core, live, running, reloader, plan, result, reloads>>

-----------------------------------------------------------------------------
Instances == UNION {{[name |-> x.name, settings |-> x.settings, built |-> n] : x \in c} :
                       c \in Configs, n \in 0 .. MaxReloads}

Built(c, n) == {[name |-> x.name, settings |-> x.settings, built |-> n] : x \in c}
Settings(instances) == {[name |-> o.name, settings |-> o.settings] : o \in instances}

(* _build_instances, with every instance whose plugin and settings are     *)
(* unchanged replaced by the one that runs.                                *)
Rebuilt(c, n) ==
    {o \in live : [name |-> o.name, settings |-> o.settings] \in c}
      \cup {o \in Built(c, n) : [name |-> o.name, settings |-> o.settings] \notin Settings(live)}

ReloadMessage(instances, n) == [kind |-> "reload", plugins |-> instances, number |-> n]
ShutdownMessage             == [kind |-> "shutdown"]

Alive == main # "gone"

-----------------------------------------------------------------------------
(* The operator edits the configuration and sends SIGHUP.                  *)
Reconfigure(c) ==
    /\ Alive /\ reloads < MaxReloads
    /\ reloads' = reloads + 1
    /\ file' = c
    /\ reloadRequested' = TRUE
    /\ UNCHANGED <<shuttingDown, core, live, running, reloader, plan, result>>

(* Mutant: the handler only sets the flags, and the core sleeps on.        *)
TerminateSilently ==
    /\ main = "run" /\ ~shuttingDown
    /\ shuttingDown' = TRUE /\ reloadRequested' = TRUE
    /\ UNCHANGED <<file, core, live, running, reloader, plan, result, reloads>>

(* _on_terminate                                                           *)
Terminate ==
    /\ main = "run" /\ ~shuttingDown
    /\ shuttingDown' = TRUE /\ reloadRequested' = TRUE
    /\ queue' = Append(queue, ShutdownMessage)
    /\ UNCHANGED <<file, db, latches, adopted, acknowledged, main, live, running,
                   reloader, plan, result, reloads>>

-----------------------------------------------------------------------------
(* _reload_loop: the request is cleared before the configuration is read,  *)
(* so that a SIGHUP during a reload causes another one.                    *)
Woken ==
    /\ Alive /\ reloader = "wait" /\ reloadRequested
    /\ reloadRequested' = FALSE
    /\ reloader' = IF shuttingDown THEN "ended" ELSE "load"
    /\ UNCHANGED <<file, shuttingDown, core, live, running, plan, result, reloads>>

LoadFails ==
    /\ Alive /\ reloader = "load" /\ file = Bad
    /\ reloader' = "wait" /\ result' = "invalid"
    /\ UNCHANGED <<file, signals, core, live, running, plan, reloads>>

(* Mutant: problems in the configuration are ignored.                      *)
LoadAnything ==
    /\ Alive /\ reloader = "load"
    /\ reloader' = "read"
    /\ plan' = [plan EXCEPT !.config = file]
    /\ UNCHANGED <<file, signals, core, live, running, result, reloads>>

Load ==
    /\ Alive /\ reloader = "load" /\ file # Bad
    /\ reloader' = "read"
    /\ plan' = [plan EXCEPT !.config = file]
    /\ UNCHANGED <<file, signals, core, live, running, result, reloads>>

(* engine.reload_latches() on the reload thread: read the table ...        *)
ReadLatches ==
    /\ Alive /\ reloader = "read"
    /\ reloader' = "swap"
    /\ plan' = [plan EXCEPT !.latches = db]
    /\ UNCHANGED <<file, signals, core, live, running, result, reloads>>

(* ... and replace the core's cache by it.                                 *)
SwapLatches ==
    /\ Alive /\ reloader = "swap"
    /\ reloader' = "build"
    /\ latches' = plan.latches
    /\ UNCHANGED <<file, signals, queue, db, adopted, acknowledged, main, live, running,
                   plan, result, reloads>>

BuildFails ==
    /\ Alive /\ reloader = "build" /\ plan.config \in Broken
    /\ reloader' = "wait" /\ result' = "failed"
    /\ UNCHANGED <<file, signals, core, live, running, plan, reloads>>

(* Mutant: every instance is built anew.                                   *)
SubmitAllNew ==
    /\ Alive /\ reloader = "build" /\ plan.config \notin Broken
    /\ reloader' = "acknowledge" /\ acknowledged' = FALSE
    /\ plan' = [plan EXCEPT !.number = @ + 1, !.previous = live,
                            !.rebuilt = Built(plan.config, plan.number + 1)]
    /\ queue' = Append(queue, ReloadMessage(Built(plan.config, plan.number + 1), plan.number + 1))
    /\ UNCHANGED <<file, signals, db, latches, adopted, main, live, running, result, reloads>>

SubmitReload ==
    /\ Alive /\ reloader = "build" /\ plan.config \notin Broken
    /\ reloader' = "acknowledge" /\ acknowledged' = FALSE
    /\ LET number  == plan.number + 1
           rebuilt == Rebuilt(plan.config, number)
       IN  /\ plan' = [plan EXCEPT !.number = number, !.previous = live, !.rebuilt = rebuilt]
           /\ queue' = Append(queue, ReloadMessage(rebuilt, number))
    /\ UNCHANGED <<file, signals, db, latches, adopted, main, live, running, result, reloads>>

(* The core did not get to the message in time; it will later.             *)
TimesOut ==
    /\ Alive /\ reloader = "acknowledge" /\ ~acknowledged
    /\ reloader' = "wait" /\ result' = "timeout"
    /\ UNCHANGED <<file, signals, core, live, running, plan, reloads>>

Acknowledged ==
    /\ Alive /\ reloader = "acknowledge" /\ acknowledged
    /\ reloader' = "stop"
    /\ live' = plan.rebuilt
    /\ UNCHANGED <<file, signals, core, running, plan, result, reloads>>

(* Mutant: what replaces an instance starts before that is stopped.        *)
StopRemovedLate ==
    /\ Alive /\ reloader = "stop"
    /\ reloader' = "start"
    /\ running' = running \cup (plan.rebuilt \ plan.previous)
    /\ UNCHANGED <<file, signals, core, live, plan, result, reloads>>

(* _stop_instances(removed), then _start_instances(started).               *)
StopRemoved ==
    /\ Alive /\ reloader = "stop"
    /\ reloader' = "start"
    /\ running' = running \ (plan.previous \ plan.rebuilt)
    /\ UNCHANGED <<file, signals, core, live, plan, result, reloads>>

(* Mutant: the request is cleared when the reload is over.                 *)
StartNewClearing ==
    /\ Alive /\ reloader = "start"
    /\ reloader' = "wait" /\ result' = "complete"
    /\ running' = running \cup (plan.rebuilt \ plan.previous)
    /\ reloadRequested' = FALSE
    /\ UNCHANGED <<file, shuttingDown, core, live, plan, reloads>>

StartNew ==
    /\ Alive /\ reloader = "start"
    /\ reloader' = "wait" /\ result' = "complete"
    /\ running' = running \cup (plan.rebuilt \ plan.previous)
    /\ UNCHANGED <<file, signals, core, live, plan, reloads>>

-----------------------------------------------------------------------------
(* The core thread: an event sets the latch, an unlatch clears one that    *)
(* the cache shows as set.                                                 *)
HandleInputEvent ==
    /\ main = "run"
    /\ db' = "set" /\ latches' = "set"
    /\ UNCHANGED <<file, signals, queue, adopted, acknowledged, main, live, running,
                   reloader, plan, result, reloads>>

HandleUnlatch ==
    /\ main = "run" /\ latches = "set"
    /\ db' = "clear" /\ latches' = "clear"
    /\ UNCHANGED <<file, signals, queue, adopted, acknowledged, main, live, running,
                   reloader, plan, result, reloads>>

(* Mutants of _handle_reload: the cache is not read again; the plugins are *)
(* not adopted.                                                            *)
HandleReloadKeepsCache ==
    /\ main = "run"
    /\ queue # <<>> /\ Head(queue).kind = "reload"
    /\ queue' = Tail(queue)
    /\ adopted' = Head(queue).plugins
    /\ acknowledged' = (acknowledged \/ Head(queue).number = plan.number)
    /\ UNCHANGED <<file, signals, db, latches, main, live, running, reloader, plan, result,
                   reloads>>

HandleReloadAcknowledgesOnly ==
    /\ main = "run"
    /\ queue # <<>> /\ Head(queue).kind = "reload"
    /\ queue' = Tail(queue)
    /\ latches' = db
    /\ acknowledged' = (acknowledged \/ Head(queue).number = plan.number)
    /\ UNCHANGED <<file, signals, db, adopted, main, live, running, reloader, plan, result,
                   reloads>>

HandleReload ==
    /\ main = "run"
    /\ queue # <<>> /\ Head(queue).kind = "reload"
    /\ queue' = Tail(queue)
    /\ adopted' = Head(queue).plugins
    /\ latches' = db
    /\ acknowledged' = (acknowledged \/ Head(queue).number = plan.number)
    /\ UNCHANGED <<file, signals, db, main, live, running, reloader, plan, result, reloads>>

HandleShutdown ==
    /\ main = "run"
    /\ queue # <<>> /\ Head(queue).kind = "shutdown"
    /\ queue' = Tail(queue)
    /\ main' = "stop"
    /\ UNCHANGED <<file, signals, db, latches, adopted, acknowledged, live, running,
                   reloader, plan, result, reloads>>

(* run() raises: the core's database call failed.                          *)
CoreRaises ==
    /\ main = "run"
    /\ main' = "stop"
    /\ UNCHANGED <<file, signals, queue, db, latches, adopted, acknowledged, live, running,
                   reloader, plan, result, reloads>>

-----------------------------------------------------------------------------
(* stop() from _run's finally: a second call, or one after SIGTERM, does   *)
(* nothing.                                                                *)
StopReturns ==
    /\ main = "stop" /\ shuttingDown
    /\ main' = "gone"
    /\ UNCHANGED <<file, signals, queue, db, latches, adopted, acknowledged, live, running,
                   reloader, plan, result, reloads>>

StopInstances ==
    /\ main = "stop" /\ ~shuttingDown
    /\ main' = "join"
    /\ shuttingDown' = TRUE /\ reloadRequested' = TRUE
    /\ queue' = Append(queue, ShutdownMessage)
    /\ running' = running \ live
    /\ live' = {}
    /\ UNCHANGED <<file, db, latches, adopted, acknowledged, reloader, plan, result, reloads>>

(* The join of the reload thread has a timeout, then the process exits.    *)
JoinThreads ==
    /\ main = "join"
    /\ main' = "gone"
    /\ UNCHANGED <<file, signals, queue, db, latches, adopted, acknowledged, live, running,
                   reloader, plan, result, reloads>>

-----------------------------------------------------------------------------
Init ==
    /\ file = First
    /\ reloadRequested = FALSE /\ shuttingDown = FALSE
    /\ queue = <<>> /\ acknowledged = FALSE
    /\ db = "clear" /\ latches = "clear"
    /\ adopted = Built(First, 0) /\ live = adopted /\ running = adopted
    /\ reloader = "wait" /\ result = "none"
    /\ plan = [config |-> First, latches |-> "clear", number |-> 0, previous |-> {}, rebuilt |-> {}]
    /\ main = "run" /\ reloads = 0

Reloader ==
    \/ Woken \/ LoadFails \/ Load \/ ReadLatches \/ SwapLatches \/ BuildFails \/ SubmitReload
    \/ TimesOut \/ Acknowledged \/ StopRemoved \/ StartNew

MessageLoop == HandleReload \/ HandleShutdown
Exit        == StopReturns \/ StopInstances \/ JoinThreads

Next ==
    \/ Reloader \/ MessageLoop \/ Exit
    \/ HandleInputEvent \/ HandleUnlatch \/ CoreRaises
    \/ Terminate \/ \E c \in Configs \cup {Bad} : Reconfigure(c)

Spec == Init /\ [][Next]_vars

(* Both threads are scheduled, and the core gets through its queue.        *)
FairSpec == Spec /\ WF_vars(Reloader) /\ WF_vars(MessageLoop) /\ WF_vars(Exit)

-----------------------------------------------------------------------------
(* Types of the daemon's tables and of the reload thread's variables.      *)
TypeOK ==
    /\ file \in Configs \cup {Bad}
    /\ reloadRequested \in BOOLEAN /\ shuttingDown \in BOOLEAN /\ acknowledged \in BOOLEAN
    /\ queue \in Seq([kind : {"reload"}, plugins : SUBSET Instances, number : 1 .. MaxReloads]
                       \cup {ShutdownMessage})
    /\ db \in {"set", "clear"} /\ latches \in {"set", "clear"}
    /\ adopted \subseteq Instances /\ live \subseteq Instances /\ running \subseteq Instances
    /\ reloader \in {"wait", "load", "read", "swap", "build", "acknowledge", "stop", "start", "ended"}
    /\ plan \in [config : Configs, latches : {"set", "clear"}, number : 0 .. MaxReloads,
                 previous : SUBSET Instances, rebuilt : SUBSET Instances]
    /\ result \in {"none", "invalid", "failed", "timeout", "complete"}
    /\ main \in {"run", "stop", "join", "gone"} /\ reloads \in 0 .. MaxReloads

ReloadQueued == \E k \in DOMAIN queue : queue[k].kind = "reload"
Settled      == main = "run" /\ reloader = "wait" /\ ~reloadRequested /\ ~ReloadQueued

(* After a reload that completed, the instances the core uses, the ones    *)
(* the daemon lists and the ones that run are the same, however the reload *)
(* before it ended.                                                        *)
AdoptedIsRunning == Settled /\ result = "complete" => adopted = live /\ live = running

(* Never two instances of one name at a time: two listeners would fight    *)
(* for a port, two readers for a cursor.                                   *)
OneInstancePerName == \A o, p \in running : o.name = p.name => o = p

(* "Instances whose plugin and settings are unchanged keep running         *)
(* untouched": a reload stops only what the configuration it loaded does   *)
(* not contain.                                                            *)
UnchangedUntouched ==
    [][\A o \in running \ running' :
          main = "run" /\ main' = "run" =>
              [name |-> o.name, settings |-> o.settings] \notin plan.config]_vars

(* The cache the reload thread puts into the core may be older than the    *)
(* database, but only until the core handles the reload's message.  After  *)
(* a reload whose plugins could not be built there is no such message.     *)
StaleCacheIsRepaired ==
    main = "run" /\ latches # db =>
        \/ reloader \in {"read", "swap", "build", "acknowledge"} \/ ReloadQueued
        \/ plan.config \in Broken

(* The configuration of the last SIGHUP is adopted, also when it came in   *)
(* the middle of a reload, if it loads and its plugins can be built.       *)
LastReloadAdopted ==
    <>[](main = "run" /\ ~shuttingDown /\ file \in Configs \ Broken => Settings(adopted) = file)

(* SIGTERM ends the process.                                               *)
TerminateExits == shuttingDown ~> main = "gone"

(* "Shut everything down" (Daemon.stop): when the process exits, no plugin *)
(* instance is left that was not stopped.                                  *)
StoppedOnExit == main = "gone" => running = {}

=============================================================================
