----------------------------- MODULE FileInput -----------------------------
(***************************************************************************)
(* plugins/file_input: a watcher thread polls a directory and reports a    *)
(* new or changed file once it has been quiet for debounce_seconds, and    *)
(* catch_up(), on the core's thread, reports what changed before.  Both    *)
(* remember what they have reported in plugin_kv, which outlives the       *)
(* process; what is pending and what catch_up() has collected do not.      *)
(*                                                                         *)
(* A file is what the plugin can tell of it: when it was modified, and its *)
(* size.  The watcher runs while reconcile() calls catch_up() (runtime.py  *)
(* starts the instances first), and a file may change at any time.         *)
(***************************************************************************)
EXTENDS Naturals

CONSTANTS
    Paths,             \* the paths that the glob matches
    Sizes,
    Debounce,          \* debounce_seconds, in ticks of the clock
    LastSeenInterval,  \* LAST_SEEN_INTERVAL_SECONDS, in ticks of the clock
    None,
    MaxTime,           \* bound: the clock stops here; files change before
    MaxWrites,         \* bound: changes of files
    MaxFaults,         \* bound: polls and catch-ups that raise
    MaxStops           \* bound: ends of the process

ASSUME DebounceAssumption == Debounce \in Nat \ {0} /\ MaxTime \in Nat

VARIABLES
    now,           \* the clock
    files,         \* what is on disk
    writes,        \* how many changes the files have seen
    settings,      \* emit_on_modify
    seen,          \* plugin_kv: the fingerprint last remembered for a path
    lastSeen,      \* daemon_state: last_seen_at
    phase,         \* "down", "starting" or "running"
    watch,         \* the watcher thread and the poll it is in
    pending,       \* _pending and, as an age, _quiet_since
    catch,         \* catch_up() on the core's thread
    faults, stops,
    calm,          \* history: ticks since a path changed, up to Debounce
    reported,      \* history: emitted, or returned by catch_up()
    skipped,       \* history: what catch_up() passed over, and last_seen_at before the start
    lost,          \* history: collected by a catch_up() that did not return
    known          \* history: last_seen_at before this process wrote it

disk    == <<files, writes, calm>>
memory  == <<watch, pending, catch>>
history == <<reported, skipped, lost, known>>
vars    == <<now, disk, settings, seen, lastSeen, phase, memory, faults, stops, history>>

Time  == 0 .. MaxTime
Files == [mtime : Time, size : Sizes]

Event(p, f) == [path |-> p, mtime |-> f.mtime, size |-> f.size]

(* _observe: the paths that are files, as they are.                        *)
Observed == [p \in {q \in Paths : files[q] # None} |-> files[p]]

Nobody == [at |-> "off", left |-> <<>>, all |-> {}, due |-> {}, late |-> 0, path |-> None]
NoCatchUp == [at |-> "off", left |-> <<>>, got |-> {}, since |-> None]

Without(f, p) == [q \in DOMAIN f \ {p} |-> f[q]]

(* _is_new: never remembered, or changed and emit_on_modify.               *)
IsNew(p, f) == seen[p] = None \/ (settings.emit_on_modify /\ seen[p] # f)

-----------------------------------------------------------------------------
(* The watcher: poll_once.  The clock is read and the directory looked at  *)
(* once; then the paths are taken one by one.  `due` are the paths that    *)
(* have been pending for the quiet period, `late` the time since the look. *)
PollBegins ==
    /\ watch.at = "waiting"
    /\ watch' = [at |-> "polling", left |-> Observed, all |-> DOMAIN Observed,
                 late |-> 0, path |-> None,
                 due |-> {p \in Paths : pending[p] # None /\ pending[p].age >= Debounce}]
    /\ UNCHANGED <<now, disk, settings, seen, lastSeen, phase, pending, catch,
                   faults, stops, history>>

(* The directory cannot be listed: start() goes on with the next poll.     *)
PollRaises ==
    /\ watch.at = "waiting" /\ faults < MaxFaults
    /\ faults' = faults + 1
    /\ UNCHANGED <<now, disk, settings, seen, lastSeen, phase, memory, stops, history>>

Polling(p) == watch.at = "polling" /\ p \in DOMAIN watch.left
Taken(p)   == watch' = [watch EXCEPT !.left = Without(@, p)]
Forget(p)  == pending' = [pending EXCEPT ![p] = None]

PollKnown(p) ==
    /\ Polling(p) /\ ~IsNew(p, watch.left[p])
    /\ Forget(p) /\ Taken(p)
    /\ UNCHANGED <<now, disk, settings, seen, lastSeen, phase, catch, faults, stops,
                   history>>

StillChanging(p) == ~(pending[p] # None /\ pending[p].file = watch.left[p])

(* Mutant: the quiet period starts with the first change of a burst.       *)
PollChangedKeepsQuiet(p) ==
    /\ Polling(p) /\ IsNew(p, watch.left[p])
    /\ StillChanging(p)
    /\ pending' = [pending EXCEPT ![p] =
                      [file |-> watch.left[p],
                       age  |-> IF pending[p] = None THEN watch.late ELSE pending[p].age]]
    /\ Taken(p)
    /\ UNCHANGED <<now, disk, settings, seen, lastSeen, phase, catch, faults, stops,
                   history>>

PollChanged(p) ==
    /\ Polling(p) /\ IsNew(p, watch.left[p])
    /\ StillChanging(p)
    /\ pending' = [pending EXCEPT ![p] = [file |-> watch.left[p], age |-> watch.late]]
    /\ Taken(p)
    /\ UNCHANGED <<now, disk, settings, seen, lastSeen, phase, catch, faults, stops,
                   history>>

PollQuiet(p) ==
    /\ Polling(p) /\ IsNew(p, watch.left[p])
    /\ ~StillChanging(p) /\ p \notin watch.due
    /\ Taken(p)
    /\ UNCHANGED <<now, disk, settings, seen, lastSeen, phase, pending, catch, faults,
                   stops, history>>

(* Mutant: the path is ticked off before it is remembered.                 *)
PollEmitsAndTakes(p) ==
    /\ Polling(p) /\ IsNew(p, watch.left[p])
    /\ ~StillChanging(p) /\ p \in watch.due
    /\ reported' = reported \cup {Event(p, watch.left[p])}
    /\ watch' = [watch EXCEPT !.at = "emitted", !.path = p, !.left = Without(@, p)]
    /\ UNCHANGED <<now, disk, settings, seen, lastSeen, phase, pending, catch, faults, stops,
                   skipped, lost, known>>

(* emit() and _remember() are two steps.                                   *)
PollEmits(p) ==
    /\ Polling(p) /\ IsNew(p, watch.left[p])
    /\ ~StillChanging(p) /\ p \in watch.due
    /\ reported' = reported \cup {Event(p, watch.left[p])}
    /\ watch' = [watch EXCEPT !.at = "emitted", !.path = p]
    /\ UNCHANGED <<now, disk, settings, seen, lastSeen, phase, pending, catch, faults, stops,
                   skipped, lost, known>>

(* Mutant: the file is looked at again to be remembered.                   *)
PollRemembersAsItIs ==
    /\ watch.at = "emitted"
    /\ seen' = [seen EXCEPT ![watch.path] = files[watch.path]]
    /\ Forget(watch.path)
    /\ watch' = [watch EXCEPT !.at = "polling", !.left = Without(@, watch.path), !.path = None]
    /\ UNCHANGED <<now, disk, settings, lastSeen, phase, catch, faults, stops, history>>

PollRemembers ==
    /\ watch.at = "emitted"
    /\ seen' = [seen EXCEPT ![watch.path] = watch.left[watch.path]]
    /\ Forget(watch.path)
    /\ watch' = [watch EXCEPT !.at = "polling", !.left = Without(@, watch.path), !.path = None]
    /\ UNCHANGED <<now, disk, settings, lastSeen, phase, catch, faults, stops, history>>

(* Mutant: every path is forgotten after a pass.                           *)
PollEndsForgettingAll ==
    /\ watch.at = "polling" /\ DOMAIN watch.left = {}
    /\ pending' = [p \in Paths |-> None]
    /\ watch' = [Nobody EXCEPT !.at = "waiting"]
    /\ UNCHANGED <<now, disk, settings, seen, lastSeen, phase, catch, faults, stops,
                   history>>

(* What has vanished is no longer pending.                                 *)
PollEnds ==
    /\ watch.at = "polling" /\ DOMAIN watch.left = {}
    /\ pending' = [p \in Paths |-> IF p \in watch.all THEN pending[p] ELSE None]
    /\ watch' = [Nobody EXCEPT !.at = "waiting"]
    /\ UNCHANGED <<now, disk, settings, seen, lastSeen, phase, catch, faults, stops,
                   history>>

(* plugin_kv raises: start() catches OSError only, and the thread is gone. *)
WatcherDies ==
    /\ watch.at \in {"polling", "emitted"} /\ faults < MaxFaults
    /\ faults' = faults + 1
    /\ watch' = Nobody
    /\ UNCHANGED <<now, disk, settings, seen, lastSeen, phase, pending, catch, stops,
                   history>>

-----------------------------------------------------------------------------
(* The core: catch_up() from reconcile(), and again if it raised.  What is *)
(* skipped or collected is remembered in the same pass.                    *)
CatchUpBegins ==
    /\ \/ phase = "starting" /\ catch.at = "off"
          /\ catch' = [at |-> "looking", left |-> Observed, got |-> {}, since |-> lastSeen]
       \/ phase = "running" /\ catch.at = "retry"
          /\ catch' = [catch EXCEPT !.at = "looking", !.left = Observed]
    /\ UNCHANGED <<now, disk, settings, seen, lastSeen, phase, watch, pending, faults,
                   stops, history>>

Looking(p) == catch.at = "looking" /\ p \in DOMAIN catch.left

CatchUpKnown(p) ==
    /\ Looking(p) /\ ~IsNew(p, catch.left[p])
    /\ catch' = [catch EXCEPT !.left = Without(@, p)]
    /\ UNCHANGED <<now, disk, settings, seen, lastSeen, phase, watch, pending, faults,
                   stops, history>>

(* Older than since: history, not an event.                                *)
IsHistory(p) == catch.since # None /\ catch.left[p].mtime < catch.since

CatchUpSkips(p) ==
    /\ Looking(p) /\ IsNew(p, catch.left[p]) /\ IsHistory(p)
    /\ seen' = [seen EXCEPT ![p] = catch.left[p]]
    /\ catch' = [catch EXCEPT !.left = Without(@, p)]
    /\ skipped' = skipped \cup {[event |-> Event(p, catch.left[p]), known |-> known]}
    /\ UNCHANGED <<now, disk, settings, lastSeen, phase, watch, pending, faults, stops,
                   reported, lost, known>>

CatchUpCollects(p) ==
    /\ Looking(p) /\ IsNew(p, catch.left[p]) /\ ~IsHistory(p)
    /\ seen' = [seen EXCEPT ![p] = catch.left[p]]
    /\ catch' = [catch EXCEPT !.left = Without(@, p), !.got = @ \cup {Event(p, catch.left[p])}]
    /\ UNCHANGED <<now, disk, settings, lastSeen, phase, watch, pending, faults, stops,
                   history>>

(* The events are returned: reconcile() goes on to the core's loop, or     *)
(* _handle_catch_up_retry is done.                                         *)
CatchUpReturns ==
    /\ catch.at = "looking" /\ DOMAIN catch.left = {}
    /\ catch' = NoCatchUp
    /\ reported' = reported \cup catch.got
    /\ phase' = "running" /\ lastSeen' = IF phase = "starting" THEN now ELSE lastSeen
    /\ UNCHANGED <<now, disk, settings, seen, watch, pending, faults, stops, skipped, lost,
                   known>>

(* The directory or plugin_kv raises: what was collected goes with the     *)
(* exception, and a retry with the same since is scheduled.                *)
CatchUpRaises ==
    /\ catch.at = "looking" /\ faults < MaxFaults
    /\ faults' = faults + 1
    /\ catch' = [catch EXCEPT !.at = "retry", !.left = <<>>, !.got = {}]
    /\ lost' = lost \cup catch.got
    /\ phase' = "running" /\ lastSeen' = IF phase = "starting" THEN now ELSE lastSeen
    /\ UNCHANGED <<now, disk, settings, seen, watch, pending, stops, reported, skipped, known>>

InLoop == phase = "running" /\ catch.at \in {"off", "retry"}

MaybeWriteLastSeen ==
    /\ InLoop /\ now >= lastSeen + LastSeenInterval
    /\ lastSeen' = now
    /\ UNCHANGED <<now, disk, settings, seen, phase, memory, faults, stops, history>>

-----------------------------------------------------------------------------
(* The process.  start() drains the queue, and the tick in it writes       *)
(* last_seen_at, before it starts the watcher and calls reconcile().       *)
Start ==
    /\ phase = "down"
    /\ phase' = "starting"
    /\ known' = lastSeen /\ lastSeen' = now
    /\ watch' = [Nobody EXCEPT !.at = "waiting"]
    /\ UNCHANGED <<now, disk, settings, seen, pending, catch, faults, stops, reported,
                   skipped, lost>>

Gone ==
    /\ phase' = "down" /\ stops' = stops + 1
    /\ watch' = Nobody /\ pending' = [p \in Paths |-> None]
    /\ catch' = NoCatchUp
    /\ lost' = lost \cup catch.got

(* A stop between two messages, which _on_stop records, or a crash.        *)
Stop ==
    /\ InLoop /\ stops < MaxStops
    /\ Gone /\ lastSeen' = now
    /\ UNCHANGED <<now, disk, settings, seen, faults, reported, skipped, known>>

Crash ==
    /\ phase # "down" /\ stops < MaxStops
    /\ Gone
    /\ UNCHANGED <<now, disk, settings, seen, lastSeen, faults, reported, skipped, known>>

(* The outside: time passes; a file is written or removed; and purge takes *)
(* the instance's state while it is not configured.                        *)
Older(age) == IF age < Debounce THEN age + 1 ELSE age

Tick ==
    /\ now' = IF now < MaxTime THEN now + 1 ELSE now
    /\ calm' = [p \in Paths |-> Older(calm[p])]
    /\ pending' = [p \in Paths |-> IF pending[p] = None THEN None
                                   ELSE [pending[p] EXCEPT !.age = Older(@)]]
    /\ watch' = IF watch.at \in {"polling", "emitted"} THEN [watch EXCEPT !.late = Older(@)]
                ELSE watch
    /\ UNCHANGED <<files, writes, settings, seen, lastSeen, phase, catch, faults, stops,
                   history>>

Change(p, f) ==
    /\ writes < MaxWrites /\ now < MaxTime /\ files[p] # f
    /\ writes' = writes + 1
    /\ files' = [files EXCEPT ![p] = f]
    /\ calm' = [calm EXCEPT ![p] = 0]
    /\ UNCHANGED <<now, settings, seen, lastSeen, phase, memory, faults, stops, history>>

Write(p, size) == Change(p, [mtime |-> now, size |-> size])
Remove(p)      == Change(p, None)

Purge ==
    /\ phase = "down"
    /\ seen' = [p \in Paths |-> None]
    /\ UNCHANGED <<now, disk, settings, lastSeen, phase, memory, faults, stops, history>>

-----------------------------------------------------------------------------
Init ==
    /\ now = 0 /\ writes = 0
    /\ files \in [Paths -> {None} \cup [mtime : {0}, size : Sizes]]
    /\ calm = [p \in Paths |-> Debounce]
    /\ settings \in [emit_on_modify : BOOLEAN]
    /\ seen = [p \in Paths |-> None] /\ lastSeen = None
    /\ phase = "down" /\ watch = Nobody /\ pending = [p \in Paths |-> None]
    /\ catch = NoCatchUp
    /\ faults = 0 /\ stops = 0
    /\ reported = {} /\ skipped = {} /\ lost = {} /\ known = None

Watcher ==
    \/ PollBegins \/ PollRemembers \/ PollEnds
    \/ \E p \in Paths : PollKnown(p) \/ PollChanged(p) \/ PollQuiet(p) \/ PollEmits(p)

Core ==
    \/ CatchUpBegins \/ CatchUpReturns
    \/ \E p \in Paths : CatchUpKnown(p) \/ CatchUpSkips(p) \/ CatchUpCollects(p)

Faults == PollRaises \/ WatcherDies \/ CatchUpRaises \/ Stop \/ Crash

Outside ==
    \/ Purge
    \/ \E p \in Paths : Remove(p) \/ \E size \in Sizes : Write(p, size)

Next == Watcher \/ Core \/ MaybeWriteLastSeen \/ Start \/ Faults \/ Tick \/ Outside

Spec == Init /\ [][Next]_vars

(* Both threads run, the clock goes on and systemd starts the service.     *)
FairSpec == Spec /\ WF_vars(Watcher) /\ WF_vars(Core) /\ WF_vars(Tick) /\ WF_vars(Start)

-----------------------------------------------------------------------------
Events == [path : Paths, mtime : Time, size : Sizes]

(* Types of the disk, the seen-state, the threads and the history.         *)
TypeOK ==
    /\ now \in Time /\ {lastSeen, known} \subseteq Time \cup {None}
    /\ files \in [Paths -> Files \cup {None}] /\ seen \in [Paths -> Files \cup {None}]
    /\ pending \in [Paths -> [file : Files, age : 0 .. Debounce] \cup {None}]
    /\ phase \in {"down", "starting", "running"}
    /\ watch.at \in {"off", "waiting", "polling", "emitted"}
    /\ \A p \in DOMAIN watch.left : p \in Paths /\ watch.left[p] \in Files
    /\ catch.at \in {"off", "looking", "retry"} /\ catch.since \in Time \cup {None}
    /\ watch.at = "emitted" => watch.path \in DOMAIN watch.left
    /\ \A p \in DOMAIN catch.left : p \in Paths /\ catch.left[p] \in Files
    /\ catch.got \cup reported \cup lost \subseteq Events

(* What is remembered was reported: it was emitted, is or was collected,   *)
(* or is history to catch_up().  Although two threads write the seen-state *)
(* each from a look of its own, the watcher dies between emit() and        *)
(* _remember() and the process crashes anywhere, the seen-state never runs *)
(* ahead of the reports; only a catch_up() that does not return takes what *)
(* it had collected with it.                                               *)
RememberedIsReported ==
    \A p \in Paths :
        seen[p] # None =>
            LET e == Event(p, seen[p])
            IN  \/ e \in reported \cup catch.got \cup lost
                \/ \E s \in skipped : s.event = e

(* An editor's write burst does not fire mid-write (poll_once): what the   *)
(* watcher reports had not changed for the quiet period when it looked,    *)
(* whatever polls failed and whatever files vanished and came back.        *)
NoEventMidBurst ==
    [][\A p \in Paths :
          watch.at = "polling" /\ watch'.at = "emitted" /\ watch'.path = p
              => files[p] # watch.left[p] \/ calm[p] >= Debounce]_vars

(* A change that stays is dealt with in the end by a watcher that stays,   *)
(* with whatever the seen-state was when the watcher or the process last   *)
(* ended.                                                                  *)
SettledIsDealtWith ==
    \A p \in Paths :
        <>[](phase = "running" /\ watch.at # "off" /\ files[p] # None)
            => []<>~IsNew(p, files[p])

(* `since` is the last time the daemon is known to have been running       *)
(* (docs/plugin-authoring.md): what catch_up() passes over as history was  *)
(* not written after that time.                                            *)
OnlyHistoryIsSkipped ==
    \A s \in skipped : s.known # None => s.event.mtime <= s.known

=============================================================================
