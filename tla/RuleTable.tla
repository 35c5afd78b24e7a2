----------------------------- MODULE RuleTable -----------------------------
(***************************************************************************)
(* The rows that outlive a configuration: tables rules, latches and        *)
(* instances of storage.py, and everybody who writes them.                 *)
(*                                                                         *)
(*   - the operator edits the files, and runs the command line (cli.py:    *)
(*     rename, and purge with its question) at any time, also while the    *)
(*     daemon runs, from a process of its own;                             *)
(*   - the daemon mirrors what it loads when it starts and on SIGHUP       *)
(*     (runtime.py), in transactions of its own, before the core uses it;  *)
(*   - the core writes the latches of the rules of its graph (engine.py).  *)
(*     Table latches references table rules: a write for a rule without a  *)
(*     row raises, and that ends the process.                              *)
(***************************************************************************)
EXTENDS Configuration, RuleGraph

CONSTANTS
    Rules, Instances,
    FirstEditions,     \* what the operator may have written before the first start
    Edits,             \* what the operator may write later
    MaxReloads         \* bound: reload messages waiting in the core's queue

Editions == FirstEditions \cup Edits

(* What JSON makes of a file: lists are lists, and settings are good, bad  *)
(* or no object at all.                                                    *)
IsList(s) == Len(s) \in Nat /\ DOMAIN s = 1 .. Len(s)

Shaped(e) ==
    /\ IsList(e.docs)
    /\ \A section \in {"instances", "rules"} :
          \A f \in Parsed(e) : IsList(e.docs[f][section])
    /\ \A p \in Entries(e, "instances") : At(e, p).config \in {"good", "bad", "not an object"}
    /\ \A p \in Entries(e, "rules") : IsList(At(e, p).inputs.of) /\ IsList(At(e, p).outputs.of)

(* The tables have room for the names of what the loader accepts.          *)
ASSUME EditionsAssumption ==
    \A e \in Editions :
        /\ Shaped(e)
        /\ Accepted(e) => /\ Configuration(e).allRules \subseteq Rules
                          /\ Configuration(e).allInstances \subseteq Instances

VARIABLES
    edition,    \* what is on disk
    rows,       \* table rules: "none", "current" or "orphaned"
    latches,    \* table latches: "none", "set" or "clear"
    instances,  \* table instances, as rows
    stored,     \* the instances with rows in plugin_kv, output_state, ...
    process,    \* "down", "starting" or "running"
    step,       \* where start() or the reload thread is
    loaded,     \* the configuration it has loaded, Empty outside
    adopting,   \* the reload messages the core has not read
    graph,      \* the configuration the core uses
    cache,      \* _latches
    listing,    \* what a running purge has printed; Nothing without one
    mirrored,   \* history: the names last mirrored
    taken       \* history: rules of which the command line took the row

tables == <<rows, latches, instances, stored>>
daemon == <<process, step, loaded, adopting, graph, cache>>
vars   == <<edition, tables, daemon, listing, mirrored, taken>>

RowStates   == {"none", "current", "orphaned"}
LatchStates == {"none", "set", "clear"}
Nothing     == [instances |-> {}, rules |-> {}]

Empty == [inputs |-> <<>>, outputs |-> <<>>, instances |-> {}, rules |-> {},
          allRules |-> {}, allInstances |-> {}]

-----------------------------------------------------------------------------
(* sync_instances: what is configured is current, the rest that was is     *)
(* orphaned; nothing is deleted.                                           *)
Synced(old, present) ==
    [n \in DOMAIN old |-> IF n \in present THEN "current"
                          ELSE IF old[n] = "current" THEN "orphaned" ELSE old[n]]

(* Mutants of sync_rules: INSERT OR REPLACE resets a latch; a rule that    *)
(* left the configuration loses its row.                                   *)
SyncedLatchesReset(old, present) ==
    [r \in DOMAIN old |-> IF r \in present THEN "clear" ELSE old[r]]

SyncedRulesDeleting(old, present) ==
    [r \in DOMAIN old |-> IF r \in present THEN "current" ELSE "none"]

(* sync_rules: the same for rules, and a latch for a rule that has none:   *)
(* INSERT OR IGNORE re-adopts the latch of a rule that returns.            *)
SyncedRules(old, present) == Synced(old, present)

SyncedLatches(old, present) ==
    [r \in DOMAIN old |-> IF r \in present /\ old[r] = "none" THEN "clear" ELSE old[r]]

-----------------------------------------------------------------------------
(* start() and _reload(): load, mirror the instances, mirror the rules,    *)
(* read the latches; each is a step of its own.  A configuration that is   *)
(* not accepted ends the start, or leaves the running one alone.           *)
Start ==
    /\ process = "down" /\ Accepted(edition)
    /\ process' = "starting" /\ step' = "instances"
    /\ loaded' = Configuration(edition)
    /\ UNCHANGED <<edition, tables, adopting, graph, cache, listing, mirrored, taken>>

Reload ==
    /\ process = "running" /\ step = "idle" /\ Accepted(edition)
    /\ step' = "instances"
    /\ loaded' = Configuration(edition)
    /\ UNCHANGED <<edition, tables, process, adopting, graph, cache, listing, mirrored, taken>>

SyncInstances ==
    /\ step = "instances"
    /\ step' = "rules"
    /\ instances' = Synced(instances, loaded.allInstances)
    /\ mirrored' = [mirrored EXCEPT !.instances = loaded.allInstances]
    /\ UNCHANGED <<edition, rows, latches, stored, process, loaded, adopting, graph, cache,
                   listing, taken>>

SyncRules ==
    /\ step = "rules"
    /\ step' = "latches"
    /\ rows' = SyncedRules(rows, loaded.allRules)
    /\ latches' = SyncedLatches(latches, loaded.allRules)
    /\ mirrored' = [mirrored EXCEPT !.rules = loaded.allRules]
    /\ taken' = taken \ loaded.allRules
    /\ UNCHANGED <<edition, instances, stored, process, loaded, adopting, graph, cache,
                   listing>>

(* Engine.__init__, or reload_latches() on the reload thread: the cache is *)
(* the table.  (That the reload thread reads it a moment before it stores  *)
(* it is the subject of Daemon.tla.)                                       *)
BuildEngine ==
    /\ step = "latches" /\ process = "starting"
    /\ step' = "reconcile"
    /\ cache' = latches /\ graph' = loaded /\ loaded' = Empty
    /\ UNCHANGED <<edition, tables, process, adopting, listing, mirrored, taken>>

(* Mutant: the reload leaves the cache to the core's adoption.             *)
ReloadLatchesLater ==
    /\ step = "latches" /\ process = "running"
    /\ step' = "submit"
    /\ UNCHANGED <<edition, tables, process, loaded, adopting, graph, cache, listing,
                   mirrored, taken>>

ReloadLatches ==
    /\ step = "latches" /\ process = "running"
    /\ step' = "submit"
    /\ cache' = latches
    /\ UNCHANGED <<edition, tables, process, loaded, adopting, graph, listing, mirrored, taken>>

(* The plugins are built and the core is told; if building one raises, the *)
(* reload ends here, with the mirror ahead of the core.                    *)
SubmitReload ==
    /\ step = "submit" /\ Len(adopting) < MaxReloads
    /\ step' = "idle"
    /\ adopting' = Append(adopting, loaded) /\ loaded' = Empty
    /\ UNCHANGED <<edition, tables, process, graph, cache, listing, mirrored, taken>>

BuildRaises ==
    /\ step = "submit"
    /\ step' = "idle" /\ loaded' = Empty
    /\ UNCHANGED <<edition, tables, process, adopting, graph, cache, listing,
                   mirrored, taken>>

-----------------------------------------------------------------------------
(* The core.  A process that is gone leaves the tables.                    *)
ProcessGone ==
    /\ process' = "down" /\ step' = "idle"
    /\ loaded' = Empty /\ adopting' = <<>> /\ graph' = Empty
    /\ cache' = [r \in Rules |-> "none"]

(* _write_latch in one transaction for the rules rs.                       *)
WritesRaise(rs) == \E r \in rs : rows[r] = "none"

WriteLatches(rs, state) ==
    /\ ~WritesRaise(rs)
    /\ latches' = [r \in Rules |-> IF r \in rs THEN state ELSE latches[r]]
    /\ cache'   = [r \in Rules |-> IF r \in rs THEN state ELSE cache[r]]

(* A foreign key fails: the transaction is rolled back, run() raises.      *)
CoreRaises(rs) ==
    /\ WritesRaise(rs)
    /\ ProcessGone
    /\ UNCHANGED <<edition, tables, listing, mirrored, taken>>

CoreGraph == FromConfiguration(graph)
TriggeredBy(i) == RulesForInput(CoreGraph, i)
ClearedBy(o)   == {r \in RulesForOutput(CoreGraph, o) : cache[r] = "set"}

CoreWrites(rs, state) ==
    /\ WriteLatches(rs, state)
    /\ UNCHANGED <<edition, rows, instances, stored, process, step, loaded, adopting, graph,
                   listing, mirrored, taken>>

HandleInputEvent(i) ==
    /\ process = "running" /\ i \in graph.instances /\ TriggeredBy(i) # {}
    /\ CoreWrites(TriggeredBy(i), "set") \/ CoreRaises(TriggeredBy(i))

HandleUnlatch(o) ==
    /\ process = "running" /\ o \in graph.instances /\ ClearedBy(o) # {}
    /\ CoreWrites(ClearedBy(o), "clear") \/ CoreRaises(ClearedBy(o))

(* reconcile() writes the latches it changes: of some rules an event of    *)
(* the downtime, of others a clear (Reconcile.tla says which).             *)
Reconciles(set, cleared) ==
    /\ step = "reconcile"
    /\ set \cap cleared = {}
    /\ \A r \in cleared : cache[r] = "set"
    /\ \/ /\ ~WritesRaise(set \cup cleared)
          /\ process' = "running" /\ step' = "idle"
          /\ latches' = [r \in Rules |-> IF r \in set THEN "set"
                                         ELSE IF r \in cleared THEN "clear" ELSE latches[r]]
          /\ cache'   = [r \in Rules |-> IF r \in set THEN "set"
                                         ELSE IF r \in cleared THEN "clear" ELSE cache[r]]
          /\ UNCHANGED <<edition, rows, instances, stored, loaded, adopting, graph, listing,
                         mirrored, taken>>
       \/ CoreRaises(set \cup cleared)

(* _handle_reload                                                          *)
HandleReload ==
    /\ process = "running" /\ adopting # <<>>
    /\ graph' = Head(adopting) /\ adopting' = Tail(adopting)
    /\ cache' = latches
    /\ UNCHANGED <<edition, tables, process, step, loaded, listing, mirrored, taken>>

(* A plugin, or the core on its behalf, keeps something for an instance.   *)
Keep(n) ==
    /\ process = "running" /\ n \in graph.instances
    /\ stored' = stored \cup {n}
    /\ UNCHANGED <<edition, rows, latches, instances, daemon, listing, mirrored, taken>>

Stop ==
    /\ process # "down"
    /\ ProcessGone
    /\ UNCHANGED <<edition, tables, listing, mirrored, taken>>

-----------------------------------------------------------------------------
(* The operator and the command line.                                      *)
Edit(e) ==
    /\ edition' = e
    /\ UNCHANGED <<tables, daemon, listing, mirrored, taken>>

TookRows(gone) == taken' = IF process = "down" THEN taken ELSE taken \cup gone

(* Mutant: the latch stays with the old row, and goes with it.             *)
RenameRuleWithoutLatch(old, new) ==
    /\ rows[old] # "none" /\ rows[new] = "none"
    /\ rows'    = [rows EXCEPT ![old] = "none", ![new] = "current"]
    /\ latches' = [latches EXCEPT ![old] = "none", ![new] = "none"]
    /\ TookRows({old})
    /\ UNCHANGED <<edition, instances, stored, daemon, listing, mirrored>>

(* rename_rule: refused without the old row or with a new one; else the    *)
(* latch moves to the new row, and the old row goes.                       *)
RenameRule(old, new) ==
    /\ rows[old] # "none" /\ rows[new] = "none"
    /\ rows'    = [rows EXCEPT ![old] = "none", ![new] = "current"]
    /\ latches' = [latches EXCEPT ![old] = "none", ![new] = latches[old]]
    /\ TookRows({old})
    /\ UNCHANGED <<edition, instances, stored, daemon, listing, mirrored>>

Orphans(table) == {n \in DOMAIN table : table[n] = "orphaned"}

(* _purge prints what is orphaned and asks; the answer comes later.        *)
PurgeAsks ==
    /\ listing = Nothing
    /\ Orphans(rows) \cup Orphans(instances) # {}
    /\ listing' = [rules |-> Orphans(rows), instances |-> Orphans(instances)]
    /\ UNCHANGED <<edition, tables, daemon, mirrored, taken>>

PurgeCancelled ==
    /\ listing # Nothing
    /\ listing' = Nothing
    /\ UNCHANGED <<edition, tables, daemon, mirrored, taken>>

(* purge_orphans on the rules and instances it deletes.                    *)
Purge(gone, goneInstances) ==
    /\ rows'      = [r \in Rules |-> IF r \in gone THEN "none" ELSE rows[r]]
    /\ latches'   = [r \in Rules |-> IF r \in gone THEN "none" ELSE latches[r]]
    /\ instances' = [n \in Instances |-> IF n \in goneInstances THEN "none" ELSE instances[n]]
    /\ stored'    = stored \ goneInstances
    /\ TookRows(gone)

(* Mutant: what was listed is deleted.                                     *)
PurgeListed ==
    /\ listing # Nothing
    /\ listing' = Nothing
    /\ Purge(listing.rules, listing.instances)
    /\ UNCHANGED <<edition, daemon, mirrored>>

(* purge_orphans looks for the orphans again.                              *)
PurgeOrphans ==
    /\ listing # Nothing
    /\ listing' = Nothing
    /\ Purge(Orphans(rows), Orphans(instances))
    /\ UNCHANGED <<edition, daemon, mirrored>>

-----------------------------------------------------------------------------
Init ==
    /\ edition \in FirstEditions
    /\ rows = [r \in Rules |-> "none"] /\ latches = [r \in Rules |-> "none"]
    /\ instances = [n \in Instances |-> "none"] /\ stored = {}
    /\ process = "down" /\ step = "idle" /\ loaded = Empty /\ adopting = <<>>
    /\ graph = Empty /\ cache = [r \in Rules |-> "none"]
    /\ listing = Nothing /\ mirrored = Nothing /\ taken = {}

DaemonNext ==
    \/ Start \/ Reload \/ SyncInstances \/ SyncRules \/ BuildEngine \/ ReloadLatches
    \/ SubmitReload \/ BuildRaises \/ HandleReload \/ Stop
    \/ \E n \in Instances : HandleInputEvent(n) \/ HandleUnlatch(n) \/ Keep(n)
    \/ \E set, cleared \in SUBSET graph.rules : Reconciles(set, cleared)

OperatorNext ==
    \/ \E e \in Edits : Edit(e)
    \/ \E old, new \in Rules : RenameRule(old, new)
    \/ PurgeAsks \/ PurgeCancelled \/ PurgeOrphans

Next == DaemonNext \/ OperatorNext

Spec == Init /\ [][Next]_vars

-----------------------------------------------------------------------------
(* Types; a latch has its rule's row (the foreign key), and a row that the *)
(* daemon made has a latch.                                                *)
TypeOK ==
    /\ rows \in [Rules -> RowStates] /\ latches \in [Rules -> LatchStates]
    /\ instances \in [Instances -> RowStates] /\ stored \subseteq Instances
    /\ cache \in [Rules -> LatchStates]
    /\ process \in {"down", "starting", "running"}
    /\ \A r \in Rules : latches[r] = "none" <=> rows[r] = "none"

(* A latch outlives everything but a deliberate act: it is gone or clear   *)
(* only after the core cleared it, a purge deleted it as an orphan, or a   *)
(* rename gave it to another name.  Reloads, restarts, rejected files and  *)
(* rules that leave the configuration and come back keep it.               *)
LatchesSurvive ==
    [][\A r \in Rules :
          latches[r] = "set" /\ latches'[r] # "set" =>
              \/ r \in graph.rules /\ cache[r] = "set" /\ cache'[r] = "clear"
              \/ rows[r] = "orphaned" /\ listing # Nothing /\ listing' = Nothing
              \/ \E new \in Rules : rows[new] = "none" /\ latches'[new] = "set"]_vars

(* The core never meets a rule without a row, unless the command line took *)
(* that row since the rule was last mirrored: whatever reloads, failed     *)
(* reloads and messages still waiting come together.                       *)
GraphHasRows ==
    \A r \in graph.rules \cup UNION {adopting[k].rules : k \in DOMAIN adopting} :
        rows[r] # "none" \/ r \in taken

(* purge deletes no row, latch or stored state of what the configuration   *)
(* last mirrored names, however long its question stood on the screen.     *)
PurgeSparesConfigured ==
    [][listing # Nothing /\ listing' = Nothing =>
          /\ \A r \in mirrored.rules : latches'[r] = latches[r]
          /\ mirrored.instances \cap stored \subseteq stored']_vars

(* What the core believes is what is stored: unless the command line took  *)
(* its row, the cache holds the latch of every rule of the graph, through  *)
(* reloads that add, drop or bring back rules.  Only until a reload has    *)
(* read the latches again may it be behind the mirror.                     *)
CacheIsTheTable ==
    process = "running" /\ step # "latches" =>
        \A r \in graph.rules \ taken : cache[r] = latches[r]

-----------------------------------------------------------------------------
(* What the operator must have written for a configuration to be good,     *)
(* without the order in which the loader looks at it.                      *)
DistinctNames(e, section) ==
    /\ \A p \in Entries(e, section) : At(e, p).raw.valid /\ At(e, p).object
    /\ \A p, q \in Entries(e, section) : At(e, p).raw.key = At(e, q).raw.key => p = q

GoodList(e, list, direction) ==
    /\ list.kind = "list" /\ list.of # <<>>
    /\ \A k \in DOMAIN list.of :
          /\ list.of[k].string
          /\ \E p \in Entries(e, "instances") :
                Name(e, p) = list.of[k].name /\ direction \in Directions(At(e, p).plugin)
          /\ \A j \in DOMAIN list.of : list.of[j].name = list.of[k].name => j = k

WellFormed(e) ==
    /\ e.docs # <<>> /\ Parsed(e) = DOMAIN e.docs
    /\ \A f \in Parsed(e) : ~e.docs[f].badKeys /\ e.docs[f].daemon # "bad"
    /\ \A f, g \in DaemonBlocks(e) : f = g
    /\ e.secrets.state \in {"absent", "good"}
    /\ DistinctNames(e, "instances") /\ DistinctNames(e, "rules")
    /\ \A p \in Entries(e, "instances") :
          LET i == At(e, p)
          IN  /\ ~i.unknownKeys /\ i.plugin \in KnownPlugins
              /\ i.enabled # "bad" /\ i.config = "good"
              /\ i.secrets = {} \/ (e.secrets.state = "good" /\ i.secrets \subseteq e.secrets.names)
    /\ \A p \in Entries(e, "rules") :
          LET r == At(e, p)
          IN  /\ ~r.unknownKeys /\ r.enabled # "bad"
              /\ GoodList(e, r.inputs, "input") /\ GoodList(e, r.outputs, "output")
              /\ Members(r.inputs) \cap Members(r.outputs) = {}

(* The loader accepts exactly the well-formed editions, whatever the order *)
(* of the files, and what it accepts it accepts whole: every instance and  *)
(* every rule that is written down is in the configuration.  Loading takes *)
(* nothing but the files, so that every edition is looked at before the    *)
(* first start.                                                            *)
LoaderIsExact ==
    mirrored = Nothing =>
    /\ Accepted(edition) <=> WellFormed(edition)
    /\ Accepted(edition) =>
          /\ Configuration(edition).allRules =
                {Name(edition, p) : p \in Entries(edition, "rules")}
          /\ Configuration(edition).allInstances =
                {Name(edition, p) : p \in Entries(edition, "instances")}

(* Nothing is dropped silently: an entry that is not in the configuration  *)
(* has an error of its own, or is a rule with a list that names an entry   *)
(* which has one (the error that _broken_instances suppresses).            *)
HasError(e, p) == \E err \in Errors(e) : err[1] = p

NothingDroppedSilently ==
    mirrored = Nothing =>
    \A p \in Entries(edition, "instances") \cup Entries(edition, "rules") :
        p \in Built(edition) \cup BuiltRules(edition)
        \/ HasError(edition, p)
        \/ /\ p[1] = "rules"
           /\ \E q \in Entries(edition, "instances") :
                 /\ HasError(edition, q)
                 /\ Name(edition, q) \in Members(At(edition, p).inputs)
                                         \cup Members(At(edition, p).outputs)

=============================================================================
