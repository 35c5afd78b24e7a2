--------------------------- MODULE RuleTableProofs ---------------------------
(***************************************************************************)
(* Theorems about RuleTable.tla, for every set of editions that            *)
(* EditionsAssumption allows.                                              *)
(***************************************************************************)
EXTENDS RuleTable, TLAPS

Configurations == {Configuration(e) : e \in {f \in Editions : Accepted(f)}} \cup {Empty}

(* TypeOK, with the variables it leaves out.                               *)
Typed ==
    /\ TypeOK
    /\ edition \in Editions /\ loaded \in Configurations /\ graph \in Configurations
    /\ adopting \in Seq(Configurations)
    /\ step \in {"idle", "instances", "rules", "latches", "reconcile", "submit"}
    /\ mirrored.rules \subseteq Rules /\ mirrored.instances \subseteq Instances
    /\ mirrored = [rules |-> mirrored.rules, instances |-> mirrored.instances]
    /\ taken \subseteq Rules

(* A process that is down keeps no configuration, and only one that starts *)
(* or reloads is in the middle of a step.                                  *)
DownInv ==
    /\ process = "down" => /\ step = "idle" /\ graph = Empty /\ adopting = <<>> /\ loaded = Empty
    /\ process = "starting" => step # "submit"
    /\ process = "running" => step # "reconcile"

(* A rule that the core knows, is about to be told of or that was just     *)
(* mirrored has its row, unless the command line took it since.            *)
HasRow(c) == \A r \in c.rules : rows[r] # "none" \/ r \in taken

RowsInv ==
    /\ HasRow(graph)
    /\ \A k \in DOMAIN adopting : HasRow(adopting[k])
    /\ step \in {"latches", "submit"} => HasRow(loaded)

(* The cache is the table from the moment the engine is built, and again   *)
(* as soon as a reload that mirrored new rules has read it.                *)
CacheInv == step # "latches" => \A r \in graph.rules \ taken : cache[r] = latches[r]

(* What was mirrored last is not orphaned: only the next mirror orphans.   *)
MirrorInv ==
    /\ \A r \in mirrored.rules : rows[r] # "orphaned"
    /\ \A n \in mirrored.instances : instances[n] # "orphaned"

TableInv == Typed /\ DownInv /\ RowsInv /\ CacheInv /\ MirrorInv

-----------------------------------------------------------------------------
(* A configuration enables some of the rules and instances it has.         *)
LEMMA ConfigurationFacts ==
    ASSUME NEW e
    PROVE  /\ Configuration(e).rules \subseteq Configuration(e).allRules
           /\ Configuration(e).instances \subseteq Configuration(e).allInstances
<1>1. /\ Configuration(e).allRules = {Name(e, p) : p \in BuiltRules(e)}
      /\ Configuration(e).rules = {Name(e, p) : p \in {q \in BuiltRules(e) : Enabled(e, q)}}
      /\ Configuration(e).allInstances = {Name(e, p) : p \in Built(e)}
      /\ Configuration(e).instances = {Name(e, p) : p \in {q \in Built(e) : Enabled(e, q)}}
  BY DEF Configuration
<1> QED BY <1>1

LEMMA ConfigurationsFacts ==
    ASSUME NEW c \in Configurations
    PROVE  /\ c.rules \subseteq c.allRules /\ c.allRules \subseteq Rules
           /\ c.instances \subseteq c.allInstances /\ c.allInstances \subseteq Instances
<1>1. CASE c = Empty
  BY <1>1 DEF Empty
<1>2. ASSUME NEW e \in Editions, Accepted(e), c = Configuration(e)
      PROVE  /\ c.rules \subseteq c.allRules /\ c.allRules \subseteq Rules
             /\ c.instances \subseteq c.allInstances /\ c.allInstances \subseteq Instances
  BY <1>2, ConfigurationFacts, EditionsAssumption
<1> QED BY <1>1, <1>2 DEF Configurations

LEMMA EmptyFacts == Empty \in Configurations /\ Empty.rules = {}
BY DEF Configurations, Empty

LEMMA LoadedFacts ==
    ASSUME Typed, Accepted(edition)
    PROVE  Configuration(edition) \in Configurations
BY DEF Typed, Configurations

(* The mirror: what is present is current, nothing that was there goes,    *)
(* and a latch appears only with its row.                                  *)
LEMMA SyncedFacts ==
    ASSUME NEW S, NEW old \in [S -> RowStates], NEW present
    PROVE  /\ Synced(old, present) \in [S -> RowStates]
           /\ \A n \in S \cap present : Synced(old, present)[n] = "current"
           /\ \A n \in S : old[n] # "none" => Synced(old, present)[n] # "none"
           /\ \A n \in S : old[n] = "none" /\ n \notin present => Synced(old, present)[n] = "none"
BY DEF Synced, RowStates

LEMMA SyncedLatchesFacts ==
    ASSUME NEW S, NEW old \in [S -> LatchStates], NEW present
    PROVE  /\ SyncedLatches(old, present) \in [S -> LatchStates]
           /\ \A r \in S : old[r] # "none" => SyncedLatches(old, present)[r] = old[r]
           /\ \A r \in S : SyncedLatches(old, present)[r] = "none" <=>
                 old[r] = "none" /\ r \notin present
BY DEF SyncedLatches, LatchStates

LEMMA CoreGraphFacts ==
    ASSUME Typed
    PROVE  /\ \A i : TriggeredBy(i) \subseteq graph.rules
           /\ \A o : ClearedBy(o) \subseteq graph.rules /\ \A r \in ClearedBy(o) : cache[r] = "set"
           /\ graph.rules \subseteq Rules
<1>1. DOMAIN CoreGraph.outputs = graph.rules
  BY DEF CoreGraph, FromConfiguration
<1> QED BY <1>1, ConfigurationsFacts DEF TriggeredBy, ClearedBy, RulesForInput, RulesForOutput,
        RuleNames, Typed

(* What the core does to the tables: it sets some latches of its graph and *)
(* clears others that its cache shows as set, or it is gone.               *)
CoreSets(set, cleared) ==
    /\ set \cap cleared = {}
    /\ \A r \in cleared : cache[r] = "set"
    /\ \A r \in set \cup cleared : rows[r] # "none"
    /\ latches' = [r \in Rules |-> IF r \in set THEN "set"
                                   ELSE IF r \in cleared THEN "clear" ELSE latches[r]]
    /\ cache'   = [r \in Rules |-> IF r \in set THEN "set"
                                   ELSE IF r \in cleared THEN "clear" ELSE cache[r]]
    /\ UNCHANGED <<edition, rows, instances, stored, loaded, adopting, graph, listing, mirrored,
                   taken>>
    /\ \/ UNCHANGED <<process, step>>
       \/ step = "reconcile" /\ process' = "running" /\ step' = "idle"

CoreGone == ProcessGone /\ UNCHANGED <<edition, tables, listing, mirrored, taken>>

LEMMA CoreMoves ==
    ASSUME Typed, DaemonNext
    PROVE  \/ \E set, cleared \in SUBSET graph.rules : CoreSets(set, cleared)
           \/ CoreGone
           \/ \E n \in Instances : Keep(n)
           \/ Start \/ Reload \/ SyncInstances \/ SyncRules \/ BuildEngine \/ ReloadLatches
           \/ SubmitReload \/ BuildRaises \/ HandleReload
<1>1. ASSUME NEW rs \in SUBSET graph.rules, NEW state \in {"set", "clear"},
             state = "clear" => \A r \in rs : cache[r] = "set",
             CoreWrites(rs, state) \/ CoreRaises(rs)
      PROVE  (\E set, cleared \in SUBSET graph.rules : CoreSets(set, cleared)) \/ CoreGone
  <2>1. CASE CoreRaises(rs)
    BY <2>1 DEF CoreRaises, CoreGone
  <2>2. CASE CoreWrites(rs, state) /\ state = "set"
    <3>1. CoreSets(rs, {})
      BY <2>2 DEF CoreWrites, WriteLatches, WritesRaise, CoreSets
    <3> QED BY <3>1
  <2>3. CASE CoreWrites(rs, state) /\ state = "clear"
    <3>1. CoreSets({}, rs)
      BY <1>1, <2>3 DEF CoreWrites, WriteLatches, WritesRaise, CoreSets
    <3> QED BY <3>1
  <2> QED BY <1>1, <2>1, <2>2, <2>3
<1>2. ASSUME NEW i \in Instances, HandleInputEvent(i) \/ HandleUnlatch(i)
      PROVE  (\E set, cleared \in SUBSET graph.rules : CoreSets(set, cleared)) \/ CoreGone
  BY <1>1, <1>2, CoreGraphFacts DEF HandleInputEvent, HandleUnlatch
<1>3. ASSUME NEW set \in SUBSET graph.rules, NEW cleared \in SUBSET graph.rules,
             Reconciles(set, cleared)
      PROVE  CoreSets(set, cleared) \/ CoreGone
  BY <1>3 DEF Reconciles, CoreRaises, CoreGone, CoreSets, WritesRaise
<1>4. CASE Stop
  BY <1>4 DEF Stop, CoreGone
<1> QED BY <1>2, <1>3, <1>4 DEF DaemonNext

LEMMA CoreSetsFacts ==
    ASSUME Typed, NEW set \in SUBSET graph.rules, NEW cleared \in SUBSET graph.rules,
           CoreSets(set, cleared)
    PROVE  /\ latches' \in [Rules -> LatchStates] /\ cache' \in [Rules -> LatchStates]
           /\ \A r \in Rules : latches'[r] = "none" <=> latches[r] = "none"
           /\ \A r \in Rules : cache[r] = latches[r] => cache'[r] = latches'[r]
           /\ \A r \in Rules : latches[r] = "set" /\ latches'[r] # "set" =>
                 r \in graph.rules /\ cache[r] = "set" /\ cache'[r] = "clear"
<1>1. graph.rules \subseteq Rules
  BY CoreGraphFacts
<1> QED BY <1>1 DEF Typed, TypeOK, CoreSets, LatchStates

-----------------------------------------------------------------------------
(* Every step keeps the types, and a latch with every row.                 *)
LEMMA TypeStep ==
    ASSUME Typed, [Next]_vars
    PROVE  Typed'
<1> USE DEF tables, daemon
<1>1. ASSUME NEW set \in SUBSET graph.rules, NEW cleared \in SUBSET graph.rules,
             CoreSets(set, cleared)
      PROVE  Typed'
  BY <1>1, CoreSetsFacts DEF CoreSets, Typed, TypeOK
<1>2. CASE CoreGone
  BY <1>2, EmptyFacts DEF CoreGone, ProcessGone, Typed, TypeOK, LatchStates
<1>3. ASSUME NEW n \in Instances, Keep(n)
      PROVE  Typed'
  BY <1>3 DEF Keep, Typed, TypeOK
<1>4. CASE Start \/ Reload
  BY <1>4, LoadedFacts DEF Start, Reload, Typed, TypeOK
<1>5. CASE SyncInstances
  <2>1. /\ instances' \in [Instances -> RowStates] /\ loaded.allInstances \subseteq Instances
    BY <1>5, SyncedFacts, ConfigurationsFacts DEF SyncInstances, Typed, TypeOK
  <2> QED BY <1>5, <2>1 DEF SyncInstances, Typed, TypeOK
<1>6. CASE SyncRules
  <2>1. rows \in [Rules -> RowStates] /\ latches \in [Rules -> LatchStates]
    BY DEF Typed, TypeOK
  <2>2. rows' = Synced(rows, loaded.allRules) /\ latches' = SyncedLatches(latches, loaded.allRules)
    BY <1>6 DEF SyncRules, SyncedRules
  <2>3. rows' \in [Rules -> RowStates] /\ latches' \in [Rules -> LatchStates]
    BY <2>1, <2>2, SyncedFacts, SyncedLatchesFacts
  <2>4. \A r \in Rules : latches'[r] = "none" <=> rows'[r] = "none"
    BY <2>1, <2>2, SyncedFacts, SyncedLatchesFacts DEF Typed, TypeOK
  <2>5. loaded.allRules \subseteq Rules
    BY ConfigurationsFacts DEF Typed
  <2> QED BY <1>6, <2>3, <2>4, <2>5 DEF SyncRules, Typed, TypeOK
<1>7. CASE BuildEngine \/ ReloadLatches \/ BuildRaises
  BY <1>7, EmptyFacts DEF BuildEngine, ReloadLatches, BuildRaises, Typed, TypeOK
<1>8. CASE SubmitReload \/ HandleReload
  <2>1. adopting \in Seq(Configurations) /\ loaded \in Configurations /\ Empty \in Configurations
    BY EmptyFacts DEF Typed
  <2>2. adopting' \in Seq(Configurations)
    BY <1>8, <2>1 DEF SubmitReload, HandleReload
  <2>3. graph' \in Configurations /\ loaded' \in Configurations
    <3>1. HandleReload => Head(adopting) \in Configurations
      BY <2>1 DEF HandleReload
    <3> QED BY <1>8, <2>1, <3>1 DEF SubmitReload, HandleReload, Typed
  <2>4. UNCHANGED <<edition, tables, process, listing, mirrored, taken>>
    BY <1>8 DEF SubmitReload, HandleReload
  <2>5. cache' \in [Rules -> LatchStates] /\ step' \in {step, "idle"}
    BY <1>8 DEF SubmitReload, HandleReload, Typed, TypeOK
  <2> QED BY <2>2, <2>3, <2>4, <2>5 DEF Typed, TypeOK
<1>9. ASSUME NEW e \in Edits, Edit(e)
      PROVE  Typed'
  BY <1>9 DEF Edit, Typed, TypeOK, Editions
<1>10. ASSUME NEW old \in Rules, NEW new \in Rules, RenameRule(old, new)
       PROVE  Typed'
  BY <1>10 DEF RenameRule, TookRows, Typed, TypeOK, RowStates, LatchStates
<1>11. CASE PurgeAsks \/ PurgeCancelled \/ UNCHANGED vars
  BY <1>11 DEF PurgeAsks, PurgeCancelled, vars, Typed, TypeOK
<1>12. CASE PurgeOrphans
  BY <1>12 DEF PurgeOrphans, Purge, Orphans, TookRows, Typed, TypeOK, RowStates, LatchStates
<1> QED BY <1>1, <1>2, <1>3, <1>4, <1>5, <1>6, <1>7, <1>8, <1>9, <1>10, <1>11, <1>12, CoreMoves
        DEF Next, OperatorNext

(* Every step keeps a process that is down without a configuration.        *)
LEMMA DownStep ==
    ASSUME Typed, DownInv, [Next]_vars
    PROVE  DownInv'
<1> USE DEF DownInv, tables, daemon
<1>1. ASSUME NEW set \in SUBSET graph.rules, NEW cleared \in SUBSET graph.rules,
             CoreSets(set, cleared)
      PROVE  DownInv'
  BY <1>1 DEF CoreSets
<1>2. CASE CoreGone
  BY <1>2 DEF CoreGone, ProcessGone
<1>3. CASE \E n \in Instances : Keep(n)
  BY <1>3 DEF Keep
<1>4. CASE Start \/ Reload \/ SyncInstances \/ SyncRules
  BY <1>4 DEF Start, Reload, SyncInstances, SyncRules
<1>5. CASE BuildEngine \/ ReloadLatches \/ SubmitReload \/ BuildRaises \/ HandleReload
  BY <1>5 DEF BuildEngine, ReloadLatches, SubmitReload, BuildRaises, HandleReload, Typed, TypeOK
<1>6. CASE OperatorNext \/ UNCHANGED vars
  BY <1>6 DEF OperatorNext, Edit, RenameRule, PurgeAsks, PurgeCancelled, PurgeOrphans, vars
<1> QED BY <1>1, <1>2, <1>3, <1>4, <1>5, <1>6, CoreMoves DEF Next

(* Every step keeps the rows of the rules the core knows or will know: a   *)
(* row goes only by the command line's hand, and a rule is taken from the  *)
(* history of those only when its row is made anew.                        *)
LEMMA RowsStep ==
    ASSUME Typed, DownInv, RowsInv, [Next]_vars
    PROVE  RowsInv'
<1> USE DEF tables, daemon
<1>0. /\ graph.rules \subseteq Rules /\ loaded.rules \subseteq loaded.allRules
      /\ loaded.allRules \subseteq Rules
      /\ \A k \in DOMAIN adopting : adopting[k].rules \subseteq Rules
  <2>1. \A k \in DOMAIN adopting : adopting[k] \in Configurations
    BY DEF Typed
  <2> QED BY <2>1, ConfigurationsFacts DEF Typed
<1>1. ASSUME \A r \in Rules : (rows[r] # "none" \/ r \in taken) =>
                                 (rows'[r] # "none" \/ r \in taken'),
             UNCHANGED <<graph, adopting, loaded>>,
             step' \in {"latches", "submit"} => step \in {"latches", "submit"}
      PROVE  RowsInv'
  BY <1>0, <1>1 DEF RowsInv, HasRow
<1>2. ASSUME NEW set \in SUBSET graph.rules, NEW cleared \in SUBSET graph.rules,
             CoreSets(set, cleared)
      PROVE  RowsInv'
  BY <1>1, <1>2 DEF CoreSets
<1>3. CASE \E n \in Instances : Keep(n)
  BY <1>1, <1>3 DEF Keep
<1>4. CASE CoreGone
  BY <1>4, EmptyFacts DEF CoreGone, ProcessGone, RowsInv, HasRow
<1>5. CASE Start \/ Reload
  BY <1>5 DEF Start, Reload, RowsInv, HasRow
<1>6. CASE SyncInstances
  BY <1>1, <1>6 DEF SyncInstances
<1>7. CASE SyncRules
  <2>1. /\ \A r \in Rules \cap loaded.allRules : rows'[r] = "current"
        /\ \A r \in Rules : rows[r] # "none" => rows'[r] # "none"
    BY <1>7, SyncedFacts DEF SyncRules, SyncedRules, Typed, TypeOK
  <2>2. UNCHANGED <<graph, adopting, loaded>> /\ taken' = taken \ loaded.allRules
    BY <1>7 DEF SyncRules
  <2> QED BY <1>0, <2>1, <2>2 DEF RowsInv, HasRow
<1>8. CASE BuildEngine \/ ReloadLatches
  BY <1>8 DEF BuildEngine, ReloadLatches, RowsInv, HasRow
<1>9. CASE SubmitReload
  <2>1. /\ UNCHANGED <<graph, rows, taken>> /\ step' = "idle" /\ HasRow(loaded)
        /\ adopting' = Append(adopting, loaded)
    BY <1>9 DEF SubmitReload, RowsInv
  <2>2. adopting \in Seq(Configurations) /\ loaded \in Configurations
    BY DEF Typed
  <2>3. \A k \in DOMAIN adopting' : adopting'[k] = loaded \/
                                    (k \in DOMAIN adopting /\ adopting'[k] = adopting[k])
    BY <2>1, <2>2
  <2> QED BY <2>1, <2>3 DEF RowsInv, HasRow
<1>10. CASE BuildRaises
  BY <1>10, EmptyFacts DEF BuildRaises, RowsInv, HasRow
<1>11. CASE HandleReload
  <2>1. /\ UNCHANGED <<rows, taken, step, loaded>> /\ adopting # <<>>
        /\ graph' = Head(adopting) /\ adopting' = Tail(adopting)
    BY <1>11 DEF HandleReload
  <2>2. adopting \in Seq(Configurations)
    BY DEF Typed
  <2>3. /\ graph' = adopting[1] /\ 1 \in DOMAIN adopting
        /\ \A k \in DOMAIN adopting' : k + 1 \in DOMAIN adopting /\ adopting'[k] = adopting[k + 1]
    BY <2>1, <2>2
  <2> QED BY <2>1, <2>3 DEF RowsInv, HasRow
<1>12. CASE (\E e \in Edits : Edit(e)) \/ PurgeAsks \/ PurgeCancelled \/ UNCHANGED vars
  BY <1>1, <1>12 DEF Edit, PurgeAsks, PurgeCancelled, vars
<1>13. ASSUME process # "down",
              \A r \in Rules : rows'[r] = "none" => rows[r] = "none" \/ r \in taken',
              taken \subseteq taken', UNCHANGED <<graph, adopting, loaded, step>>
       PROVE  RowsInv'
  BY <1>1, <1>13 DEF Typed, TypeOK
<1>14. CASE /\ PurgeOrphans \/ \E old, new \in Rules : RenameRule(old, new)
            /\ process = "down"
  <2>1. UNCHANGED <<graph, adopting, step>>
    BY <1>14 DEF PurgeOrphans, RenameRule
  <2> QED BY <1>14, <2>1, EmptyFacts DEF RowsInv, HasRow, DownInv
<1>15. CASE PurgeOrphans /\ process # "down"
  BY <1>13, <1>15 DEF PurgeOrphans, Purge, TookRows
<1>16. ASSUME NEW old \in Rules, NEW new \in Rules, RenameRule(old, new), process # "down"
       PROVE  RowsInv'
  BY <1>13, <1>16 DEF RenameRule, TookRows, Typed, TypeOK
<1> QED BY <1>2, <1>3, <1>4, <1>5, <1>6, <1>7, <1>8, <1>9, <1>10, <1>11, <1>12, <1>14, <1>15, <1>16,
           CoreMoves
        DEF Next, OperatorNext

(* Every step keeps the cache equal to the table, but for rules that the   *)
(* command line took.                                                      *)
LEMMA CacheStep ==
    ASSUME Typed, DownInv, RowsInv, CacheInv, [Next]_vars
    PROVE  CacheInv'
<1> USE DEF tables, daemon
<1>0. graph.rules \subseteq Rules
  BY CoreGraphFacts
<1>1. CASE UNCHANGED <<latches, cache, graph, taken>> /\ (step' # "latches" => step # "latches")
  BY <1>1 DEF CacheInv
<1>2. ASSUME NEW set \in SUBSET graph.rules, NEW cleared \in SUBSET graph.rules,
             CoreSets(set, cleared)
      PROVE  CacheInv'
  <2>1. \A r \in Rules : cache[r] = latches[r] => cache'[r] = latches'[r]
    BY <1>2, CoreSetsFacts
  <2>2. UNCHANGED <<graph, taken>> /\ (step' # "latches" => step # "latches")
    BY <1>2 DEF CoreSets
  <2> QED BY <1>0, <2>1, <2>2 DEF CacheInv
<1>3. CASE CoreGone
  BY <1>3, EmptyFacts DEF CoreGone, ProcessGone, CacheInv
<1>4. CASE SyncRules
  BY <1>4 DEF SyncRules, CacheInv
<1>5. CASE BuildEngine \/ ReloadLatches \/ HandleReload
  BY <1>5 DEF BuildEngine, ReloadLatches, HandleReload, CacheInv
<1>6. CASE \/ Start \/ Reload \/ SyncInstances \/ SubmitReload \/ BuildRaises
           \/ \E n \in Instances : Keep(n)
           \/ (\E e \in Edits : Edit(e)) \/ PurgeAsks \/ PurgeCancelled \/ UNCHANGED vars
  <2>1. CASE Start \/ Reload \/ SyncInstances
    BY <1>1, <2>1 DEF Start, Reload, SyncInstances, DownInv
  <2>2. CASE SubmitReload \/ BuildRaises
    BY <1>1, <2>2 DEF SubmitReload, BuildRaises
  <2>3. CASE (\E n \in Instances : Keep(n)) \/ (\E e \in Edits : Edit(e))
    BY <1>1, <2>3 DEF Keep, Edit
  <2>4. CASE PurgeAsks \/ PurgeCancelled \/ UNCHANGED vars
    BY <1>1, <2>4 DEF PurgeAsks, PurgeCancelled, vars
  <2> QED BY <1>6, <2>1, <2>2, <2>3, <2>4
<1>7. CASE PurgeOrphans
  <2>1. CASE process = "down"
    BY <1>7, <2>1, EmptyFacts DEF PurgeOrphans, DownInv, CacheInv
  <2>2. CASE process # "down"
    BY <1>0, <1>7, <2>2 DEF PurgeOrphans, Purge, TookRows, CacheInv
  <2> QED BY <2>1, <2>2
<1>8. ASSUME NEW old \in Rules, NEW new \in Rules, RenameRule(old, new)
      PROVE  CacheInv'
  <2>1. CASE process = "down"
    BY <1>8, <2>1, EmptyFacts DEF RenameRule, DownInv, CacheInv
  <2>2. CASE process # "down"
    <3>1. /\ rows[new] = "none" /\ taken' = taken \cup {old}
          /\ UNCHANGED <<step, graph, cache>>
          /\ \A r \in Rules \ {old, new} : latches'[r] = latches[r]
      BY <1>8, <2>2 DEF RenameRule, TookRows, Typed, TypeOK
    <3>2. new \notin graph.rules \ taken
      BY <3>1 DEF RowsInv, HasRow
    <3> QED BY <1>0, <3>1, <3>2 DEF CacheInv
  <2> QED BY <2>1, <2>2
<1> QED BY <1>2, <1>3, <1>4, <1>5, <1>6, <1>7, <1>8, CoreMoves DEF Next, OperatorNext

(* Every step keeps what was mirrored last from being an orphan.           *)
LEMMA MirrorStep ==
    ASSUME Typed, MirrorInv, [Next]_vars
    PROVE  MirrorInv'
<1> USE DEF tables, daemon
<1>1. CASE UNCHANGED <<rows, instances, mirrored>>
  BY <1>1 DEF MirrorInv
<1>2. CASE SyncInstances
  <2>1. /\ mirrored'.rules = mirrored.rules /\ mirrored'.instances = loaded.allInstances
        /\ rows' = rows /\ loaded.allInstances \subseteq Instances
        /\ instances' = Synced(instances, loaded.allInstances)
    BY <1>2, ConfigurationsFacts DEF SyncInstances, Typed
  <2> QED BY <2>1, SyncedFacts DEF MirrorInv, Typed, TypeOK
<1>3. CASE SyncRules
  <2>1. /\ mirrored'.instances = mirrored.instances /\ mirrored'.rules = loaded.allRules
        /\ instances' = instances /\ loaded.allRules \subseteq Rules
        /\ rows' = Synced(rows, loaded.allRules)
    BY <1>3, ConfigurationsFacts DEF SyncRules, SyncedRules, Typed
  <2> QED BY <2>1, SyncedFacts DEF MirrorInv, Typed, TypeOK
<1>4. ASSUME NEW old \in Rules, NEW new \in Rules, RenameRule(old, new)
      PROVE  MirrorInv'
  BY <1>4 DEF RenameRule, MirrorInv, Typed, TypeOK
<1>5. CASE PurgeOrphans
  BY <1>5 DEF PurgeOrphans, Purge, MirrorInv, Typed
<1>6. CASE \/ Start \/ Reload \/ BuildEngine \/ ReloadLatches \/ SubmitReload \/ BuildRaises
           \/ HandleReload \/ CoreGone \/ (\E n \in Instances : Keep(n))
           \/ (\E set, cleared \in SUBSET graph.rules : CoreSets(set, cleared))
           \/ (\E e \in Edits : Edit(e)) \/ PurgeAsks \/ PurgeCancelled \/ UNCHANGED vars
  BY <1>1, <1>6 DEF Start, Reload, BuildEngine, ReloadLatches, SubmitReload, BuildRaises,
     HandleReload, CoreGone, Keep, CoreSets, Edit, PurgeAsks, PurgeCancelled, vars
<1> QED BY <1>2, <1>3, <1>4, <1>5, <1>6, CoreMoves DEF Next, OperatorNext

-----------------------------------------------------------------------------
LEMMA InitStep == Init => TableInv
<1> SUFFICES ASSUME Init PROVE TableInv
  OBVIOUS
<1>1. Typed
  BY EmptyFacts DEF Init, Typed, TypeOK, RowStates, LatchStates, Editions, Nothing
<1> QED BY <1>1, EmptyFacts DEF Init, TableInv, DownInv, RowsInv, HasRow, CacheInv, MirrorInv,
        Nothing

LEMMA TableAlways == Spec => []TableInv
<1>1. TableInv /\ [Next]_vars => TableInv'
  BY TypeStep, DownStep, RowsStep, CacheStep, MirrorStep DEF TableInv
<1> QED BY <1>1, InitStep, PTL DEF Spec

(* Types; a latch has its rule's row, and a row has a latch.               *)
THEOREM TypeCorrect == Spec => []TypeOK
BY TableAlways, PTL DEF TableInv, Typed

(* The core never meets a rule without a row that the command line did not *)
(* take: in no order of reloads, failed reloads and waiting messages.      *)
THEOREM NoForeignKeyRaises == Spec => []GraphHasRows
<1>1. TableInv => GraphHasRows
  BY DEF TableInv, RowsInv, HasRow, GraphHasRows
<1> QED BY <1>1, TableAlways, PTL

(* The cache the core works on holds what is stored, through reloads that  *)
(* add, drop or bring back rules.                                          *)
THEOREM CoreBelievesTheTable == Spec => []CacheIsTheTable
<1>1. TableInv => CacheIsTheTable
  BY DEF TableInv, CacheInv, CacheIsTheTable
<1> QED BY <1>1, TableAlways, PTL

(* A latch that is set goes only by a deliberate act: the core clears it,  *)
(* a purge that was asked for deletes an orphan, or a rename moves it.     *)
THEOREM LatchesOutliveReloads == Spec => LatchesSurvive
<1> USE DEF tables, daemon
<1>1. ASSUME TableInv, [Next]_vars, NEW r \in Rules, latches[r] = "set", latches'[r] # "set"
      PROVE  \/ r \in graph.rules /\ cache[r] = "set" /\ cache'[r] = "clear"
             \/ rows[r] = "orphaned" /\ listing # Nothing /\ listing' = Nothing
             \/ \E new \in Rules : rows[new] = "none" /\ latches'[new] = "set"
  <2>0. Typed
    BY <1>1 DEF TableInv
  <2>1. ~ UNCHANGED latches
    BY <1>1
  <2>2. ASSUME NEW set \in SUBSET graph.rules, NEW cleared \in SUBSET graph.rules,
               CoreSets(set, cleared)
        PROVE  r \in graph.rules /\ cache[r] = "set" /\ cache'[r] = "clear"
    BY <1>1, <2>0, <2>2, CoreSetsFacts
  <2>3. ~SyncRules
    BY <1>1, <2>0, SyncedLatchesFacts DEF SyncRules, Typed, TypeOK
  <2>4. ASSUME NEW old \in Rules, NEW new \in Rules, RenameRule(old, new)
        PROVE  rows[new] = "none" /\ latches'[new] = "set"
    BY <1>1, <2>0, <2>4 DEF RenameRule, Typed, TypeOK
  <2>5. PurgeOrphans => rows[r] = "orphaned" /\ listing # Nothing /\ listing' = Nothing
    BY <1>1, <2>0 DEF PurgeOrphans, Purge, Orphans, Typed, TypeOK
  <2>6. ~( \/ Start \/ Reload \/ SyncInstances \/ BuildEngine \/ ReloadLatches \/ SubmitReload
           \/ BuildRaises \/ HandleReload \/ CoreGone \/ (\E n \in Instances : Keep(n))
           \/ (\E e \in Edits : Edit(e)) \/ PurgeAsks \/ PurgeCancelled \/ UNCHANGED vars )
    BY <2>1 DEF Start, Reload, SyncInstances, BuildEngine, ReloadLatches, SubmitReload, BuildRaises,
       HandleReload, CoreGone, Keep, Edit, PurgeAsks, PurgeCancelled, vars
  <2> QED BY <1>1, <2>0, <2>2, <2>3, <2>4, <2>5, <2>6, CoreMoves DEF Next, OperatorNext
<1>2. TableInv /\ [Next]_vars =>
        [\A r \in Rules :
            latches[r] = "set" /\ latches'[r] # "set" =>
                \/ r \in graph.rules /\ cache[r] = "set" /\ cache'[r] = "clear"
                \/ rows[r] = "orphaned" /\ listing # Nothing /\ listing' = Nothing
                \/ \E new \in Rules : rows[new] = "none" /\ latches'[new] = "set"]_vars
  BY <1>1
<1> QED BY <1>2, TableAlways, PTL DEF Spec, LatchesSurvive

(* However long its question stood on the screen, a purge deletes nothing  *)
(* of what the configuration that was mirrored last names.                 *)
THEOREM PurgeDeletesOrphansOnly == Spec => PurgeSparesConfigured
<1> USE DEF tables, daemon
<1>1. ASSUME TableInv, [Next]_vars, listing # Nothing, listing' = Nothing
      PROVE  /\ \A r \in mirrored.rules : latches'[r] = latches[r]
             /\ mirrored.instances \cap stored \subseteq stored'
  <2>0. Typed /\ MirrorInv
    BY <1>1 DEF TableInv
  <2>1. ~ UNCHANGED listing
    BY <1>1
  <2>2. PurgeOrphans \/ PurgeCancelled
    <3>1. ~( \/ Start \/ Reload \/ SyncInstances \/ SyncRules \/ BuildEngine \/ ReloadLatches
             \/ SubmitReload \/ BuildRaises \/ HandleReload \/ CoreGone
             \/ (\E n \in Instances : Keep(n))
             \/ (\E set, cleared \in SUBSET graph.rules : CoreSets(set, cleared))
             \/ (\E e \in Edits : Edit(e)) \/ (\E old, new \in Rules : RenameRule(old, new))
             \/ UNCHANGED vars )
      BY <2>1 DEF Start, Reload, SyncInstances, SyncRules, BuildEngine, ReloadLatches, SubmitReload,
         BuildRaises, HandleReload, CoreGone, Keep, CoreSets, Edit, RenameRule, vars
    <3> QED BY <1>1, <2>0, <3>1, CoreMoves DEF Next, OperatorNext, PurgeAsks
  <2>3. CASE PurgeCancelled
    BY <2>3 DEF PurgeCancelled
  <2>4. CASE PurgeOrphans
    BY <2>0, <2>4 DEF PurgeOrphans, Purge, Orphans, MirrorInv, Typed
  <2> QED BY <2>2, <2>3, <2>4
<1>2. TableInv /\ [Next]_vars =>
        [listing # Nothing /\ listing' = Nothing =>
            /\ \A r \in mirrored.rules : latches'[r] = latches[r]
            /\ mirrored.instances \cap stored \subseteq stored']_vars
  BY <1>1
<1> QED BY <1>2, TableAlways, PTL DEF Spec, PurgeSparesConfigured

-----------------------------------------------------------------------------
(* The errors of each part are errors of the whole.                        *)
LEMMA ErrorParts ==
    ASSUME NEW e
    PROVE  /\ DocumentErrors(e) \subseteq Errors(e) /\ DaemonErrors(e) \subseteq Errors(e)
           /\ \A s \in {"instances", "rules"} : NameErrors(e, s) \subseteq Errors(e)
           /\ InstanceErrors(e) \subseteq Errors(e) /\ RuleErrors(e) \subseteq Errors(e)
BY DEF Errors

(* An entry stands in its section.                                         *)
LEMMA EntryPlace ==
    ASSUME NEW e, NEW section, NEW p \in Entries(e, section)
    PROVE  /\ p[1] = section /\ p[2] \in Parsed(e) /\ p[3] \in DOMAIN e.docs[p[2]][section]
           /\ p = <<section, p[2], p[3]>>
BY DEF Entries

(* An entry that does not become a draft has an error of its own.          *)
LEMMA NoDraftNoSilence ==
    ASSUME NEW e, NEW section \in {"instances", "rules"}, NEW p \in Entries(e, section),
           p \notin Drafts(e, section)
    PROVE  HasError(e, p)
<1> DEFINE bad == <<p, "bad name">>
           dup == <<p, "duplicate">>
           obj == <<p, "not an object">>
<1>1. ~At(e, p).raw.valid => bad \in NameErrors(e, section)
  BY DEF NameErrors
<1>2. At(e, p).raw.valid /\ Conflicts(e, p) => dup \in NameErrors(e, section)
  BY DEF NameErrors
<1>3. At(e, p).raw.valid /\ ~Conflicts(e, p) /\ ~At(e, p).object => obj \in NameErrors(e, section)
  BY DEF NameErrors
<1>4. ~At(e, p).raw.valid \/ Conflicts(e, p) \/ ~At(e, p).object
  BY DEF Drafts, Declares
<1>5. bad[1] = p /\ dup[1] = p /\ obj[1] = p
  OBVIOUS
<1> HIDE DEF bad, dup, obj
<1>6. \E err \in NameErrors(e, section) : err[1] = p
  BY <1>1, <1>2, <1>3, <1>4, <1>5
<1> QED BY <1>6, ErrorParts DEF HasError

(* An instance that is not built has an error of its own.                  *)
LEMMA InstanceNotSilent ==
    ASSUME NEW e, NEW p \in Entries(e, "instances"), p \notin Built(e)
    PROVE  HasError(e, p)
<1>1. CASE p \notin InstanceDrafts(e)
  BY <1>1, NoDraftNoSilence DEF InstanceDrafts
<1>2. CASE p \in InstanceDrafts(e)
  <2> DEFINE plu == <<p, "no such plugin">>
             con == <<p, "config">>
  <2>1. At(e, p).plugin \notin KnownPlugins \/ At(e, p).config = "not an object"
    BY <1>2 DEF Built, Builds
  <2>2. At(e, p).plugin \notin KnownPlugins => plu \in InstanceErrors(e)
    BY <1>2 DEF InstanceErrors
  <2>3. At(e, p).plugin \in KnownPlugins /\ At(e, p).config = "not an object"
           => con \in InstanceErrors(e)
    BY <1>2 DEF InstanceErrors
  <2>4. plu[1] = p /\ con[1] = p
    OBVIOUS
  <2> HIDE DEF plu, con
  <2> QED BY <2>1, <2>2, <2>3, <2>4, ErrorParts DEF HasError
<1> QED BY <1>1, <1>2

(* A list of a rule that is not good has an error at the rule, or names a  *)
(* broken instance.                                                        *)
LEMMA ListNotSilent ==
    ASSUME NEW e, NEW p, NEW list, NEW direction, ~ListGood(e, list, direction)
    PROVE  \/ \E err \in ListErrors(e, p, list, direction) : err[1] = p
           \/ \E q \in Broken(e) : Name(e, q) \in Members(list)
<1>1. CASE list.kind # "list" \/ list.of = <<>>
  <2>1. <<p, direction, 0>> \in ListErrors(e, p, list, direction)
    BY <1>1 DEF ListErrors
  <2>2. <<p, direction, 0>>[1] = p
    OBVIOUS
  <2> QED BY <2>1, <2>2
<1>2. CASE ~(list.kind # "list" \/ list.of = <<>>)
  <2>1. PICK k \in DOMAIN list.of : ~MemberGood(e, list.of, k, direction)
    BY <1>2 DEF ListGood
  <2>2. CASE MemberReported(e, list.of, k, direction)
    <3>1. <<p, direction, k>> \in ListErrors(e, p, list, direction)
      BY <1>2, <2>2 DEF ListErrors
    <3>2. <<p, direction, k>>[1] = p
      OBVIOUS
    <3> QED BY <3>1, <3>2
  <2>3. CASE ~MemberReported(e, list.of, k, direction)
    <3>1. PICK q \in Broken(e) : Name(e, q) = list.of[k].name
      BY <2>1, <2>3 DEF MemberReported
    <3>2. list.of[k].name \in Members(list)
      BY DEF Members
    <3> QED BY <3>1, <3>2
  <2> QED BY <2>2, <2>3
<1> QED BY <1>1, <1>2

(* A rule that is not built has an error, or names an instance that has.   *)
LEMMA RuleNotSilent ==
    ASSUME NEW e, NEW p \in Entries(e, "rules"), p \notin BuiltRules(e)
    PROVE  \/ HasError(e, p)
           \/ \E q \in Entries(e, "instances") :
                 /\ HasError(e, q)
                 /\ Name(e, q) \in Members(At(e, p).inputs) \cup Members(At(e, p).outputs)
<1>1. CASE p \notin RuleDrafts(e)
  BY <1>1, NoDraftNoSilence DEF RuleDrafts
<1>2. CASE p \in RuleDrafts(e) /\ ListsGood(e, p)
  <2>1. <<p, "overlap">> \in RuleErrors(e)
    BY <1>2 DEF RuleErrors, BuiltRules
  <2>2. <<p, "overlap">>[1] = p
    OBVIOUS
  <2> QED BY <2>1, <2>2, ErrorParts DEF HasError
<1>3. CASE p \in RuleDrafts(e) /\ ~ListsGood(e, p)
  <2> DEFINE of(q) == ListErrors(e, q, At(e, q).inputs, "input")
                      \cup ListErrors(e, q, At(e, q).outputs, "output")
  <2>1. of(p) \subseteq UNION {of(q) : q \in RuleDrafts(e)}
    <3> HIDE DEF of
    <3> QED BY <1>3
  <2>2. UNION {of(q) : q \in RuleDrafts(e)} \subseteq RuleErrors(e)
    BY DEF RuleErrors
  <2>3. /\ ListErrors(e, p, At(e, p).inputs, "input") \subseteq Errors(e)
        /\ ListErrors(e, p, At(e, p).outputs, "output") \subseteq Errors(e)
    BY <2>1, <2>2, ErrorParts
  <2>4. \A q \in Broken(e) : q \in Entries(e, "instances") /\ HasError(e, q)
    BY InstanceNotSilent DEF Broken, InstanceDrafts, Drafts
  <2>5. PICK list, direction :
           /\ ListErrors(e, p, list, direction) \subseteq Errors(e)
           /\ Members(list) \subseteq Members(At(e, p).inputs) \cup Members(At(e, p).outputs)
           /\ ~ListGood(e, list, direction)
    BY <1>3, <2>3 DEF ListsGood
  <2>6. \/ \E err \in ListErrors(e, p, list, direction) : err[1] = p
        \/ \E q \in Broken(e) : Name(e, q) \in Members(list)
    BY <2>5, ListNotSilent
  <2> QED BY <2>4, <2>5, <2>6 DEF HasError
<1> QED BY <1>1, <1>2, <1>3

(* Whatever the files hold, an entry that does not make it into the        *)
(* configuration is reported, or is a rule that names one that is.         *)
THEOREM NothingGoesSilently == Spec => []NothingDroppedSilently
<1>1. NothingDroppedSilently
  BY InstanceNotSilent, RuleNotSilent, EntryPlace DEF NothingDroppedSilently
<1> QED BY <1>1, PTL

-----------------------------------------------------------------------------
(* Of two entries of a section that are not the same, one is before the    *)
(* other.                                                                  *)
LEMMA EntriesOrdered ==
    ASSUME NEW e, Shaped(e), NEW section \in {"instances", "rules"},
           NEW p \in Entries(e, section), NEW q \in Entries(e, section), p # q
    PROVE  Before(p, q) \/ Before(q, p)
<1>1. /\ p[2] \in DOMAIN e.docs /\ p[3] \in DOMAIN e.docs[p[2]][section]
      /\ q[2] \in DOMAIN e.docs /\ q[3] \in DOMAIN e.docs[q[2]][section]
      /\ p[2] \in Parsed(e) /\ q[2] \in Parsed(e)
  BY EntryPlace DEF Parsed
<1>2. IsList(e.docs) /\ IsList(e.docs[p[2]][section]) /\ IsList(e.docs[q[2]][section])
  BY <1>1 DEF Shaped
<1>3. p[2] \in Int /\ p[3] \in Int /\ q[2] \in Int /\ q[3] \in Int
  BY <1>1, <1>2 DEF IsList
<1>4. p[2] # q[2] \/ p[3] # q[3]
  BY EntryPlace
<1> QED BY <1>3, <1>4 DEF Before

(* An entry is not before itself.                                          *)
LEMMA NotBeforeItself ==
    ASSUME NEW e, Shaped(e), NEW section \in {"instances", "rules"},
           NEW p \in Entries(e, section)
    PROVE  ~Before(p, p)
<1>1. p[2] \in DOMAIN e.docs /\ p[2] \in Parsed(e) /\ p[3] \in DOMAIN e.docs[p[2]][section]
  BY EntryPlace DEF Parsed
<1>2. IsList(e.docs) /\ IsList(e.docs[p[2]][section])
  BY <1>1 DEF Shaped
<1>3. p[2] \in Int /\ p[3] \in Int
  BY <1>1, <1>2 DEF IsList
<1> QED BY <1>3 DEF Before

(* The names of a section are reported unless they are valid and distinct, *)
(* and then every entry is a draft.                                        *)
LEMMA NamesExact ==
    ASSUME NEW e, Shaped(e), NEW section \in {"instances", "rules"}
    PROVE  /\ NameErrors(e, section) = {} <=> DistinctNames(e, section)
           /\ NameErrors(e, section) = {} => Drafts(e, section) = Entries(e, section)
<1> DEFINE bad == {q \in Entries(e, section) : ~At(e, q).raw.valid}
           dup == {q \in Entries(e, section) : At(e, q).raw.valid /\ Conflicts(e, q)}
           obj == {q \in Entries(e, section) : At(e, q).raw.valid /\ ~Conflicts(e, q)
                                               /\ ~At(e, q).object}
<1>1. NameErrors(e, section) = {} <=> bad = {} /\ dup = {} /\ obj = {}
  <2>1. NameErrors(e, section) = {<<p, "bad name">> : p \in bad}
           \cup {<<p, "duplicate">> : p \in dup} \cup {<<p, "not an object">> : p \in obj}
    BY DEF NameErrors
  <2> HIDE DEF bad, dup, obj
  <2>2. /\ {<<p, "bad name">> : p \in bad} = {} <=> bad = {}
        /\ {<<p, "duplicate">> : p \in dup} = {} <=> dup = {}
        /\ {<<p, "not an object">> : p \in obj} = {} <=> obj = {}
    OBVIOUS
  <2> QED BY <2>1, <2>2
<1>2. bad = {} /\ dup = {} /\ obj = {} <=>
         \A p \in Entries(e, section) : Declares(e, p) /\ ~Conflicts(e, p)
  BY DEF Declares
<1>3. ASSUME \A p \in Entries(e, section) : Declares(e, p) /\ ~Conflicts(e, p)
      PROVE  DistinctNames(e, section)
  <2>1. ASSUME NEW p \in Entries(e, section), NEW q \in Entries(e, section),
               At(e, p).raw.key = At(e, q).raw.key, p # q
        PROVE  FALSE
    <3>1. p[1] = section /\ q[1] = section
      BY EntryPlace
    <3>2. CASE Before(p, q)
      BY <1>3, <2>1, <3>1, <3>2 DEF Conflicts
    <3>3. CASE Before(q, p)
      BY <1>3, <2>1, <3>1, <3>3 DEF Conflicts
    <3> QED BY <2>1, <3>2, <3>3, EntriesOrdered
  <2> QED BY <1>3, <2>1 DEF DistinctNames, Declares
<1>4. ASSUME DistinctNames(e, section)
      PROVE  \A p \in Entries(e, section) : Declares(e, p) /\ ~Conflicts(e, p)
  <2>1. ASSUME NEW p \in Entries(e, section), Conflicts(e, p)
        PROVE  FALSE
    <3>1. PICK q \in Entries(e, section) :
             Before(q, p) /\ At(e, q).raw.key = At(e, p).raw.key
      BY <2>1, EntryPlace DEF Conflicts
    <3>2. q = p
      BY <1>4, <3>1 DEF DistinctNames
    <3> QED BY <3>1, <3>2, NotBeforeItself
  <2> QED BY <1>4, <2>1 DEF DistinctNames, Declares
<1>5. (\A p \in Entries(e, section) : Declares(e, p) /\ ~Conflicts(e, p))
         => Drafts(e, section) = Entries(e, section)
  BY DEF Drafts
<1> HIDE DEF bad, dup, obj
<1> QED BY <1>1, <1>2, <1>3, <1>4, <1>5

(* What WellFormed asks of an instance, beside its name.                   *)
GoodInstance(e, p) ==
    LET i == At(e, p)
    IN  /\ ~i.unknownKeys /\ i.plugin \in KnownPlugins
        /\ i.enabled # "bad" /\ i.config = "good"
        /\ i.secrets = {} \/ (e.secrets.state = "good" /\ i.secrets \subseteq e.secrets.names)

(* Once every instance is a draft, they are reported unless each is good,  *)
(* and then every one of them is built.                                    *)
LEMMA InstancesExact ==
    ASSUME NEW e, Shaped(e), SecretsLoad(e), InstanceDrafts(e) = Entries(e, "instances")
    PROVE  /\ InstanceErrors(e) = {} <=> \A p \in Entries(e, "instances") : GoodInstance(e, p)
           /\ InstanceErrors(e) = {} => Built(e) = Entries(e, "instances")
<1> DEFINE key == {q \in InstanceDrafts(e) : At(e, q).unknownKeys}
           plu == {q \in InstanceDrafts(e) : At(e, q).plugin \notin KnownPlugins}
           ena == {q \in InstanceDrafts(e) :
                      At(e, q).plugin \in KnownPlugins /\ At(e, q).enabled = "bad"}
           con == {q \in InstanceDrafts(e) :
                      At(e, q).plugin \in KnownPlugins /\ At(e, q).config = "not an object"}
           sec == {q \in Built(e) : ~(At(e, q).secrets \subseteq SecretNames(e))}
           set == {q \in Built(e) : At(e, q).config = "bad"}
           none == key = {} /\ plu = {} /\ ena = {} /\ con = {} /\ sec = {} /\ set = {}
<1>1. InstanceErrors(e) = {} <=> none
  <2>1. InstanceErrors(e) =
           {<<p, "unknown key">> : p \in key} \cup {<<p, "no such plugin">> : p \in plu}
           \cup {<<p, "enabled">> : p \in ena} \cup {<<p, "config">> : p \in con}
           \cup {<<p, "undefined secret">> : p \in sec} \cup {<<p, "settings">> : p \in set}
    BY DEF InstanceErrors
  <2> HIDE DEF key, plu, ena, con, sec, set
  <2>2. /\ {<<p, "unknown key">> : p \in key} = {} <=> key = {}
        /\ {<<p, "no such plugin">> : p \in plu} = {} <=> plu = {}
        /\ {<<p, "enabled">> : p \in ena} = {} <=> ena = {}
        /\ {<<p, "config">> : p \in con} = {} <=> con = {}
        /\ {<<p, "undefined secret">> : p \in sec} = {} <=> sec = {}
        /\ {<<p, "settings">> : p \in set} = {} <=> set = {}
    OBVIOUS
  <2> QED BY <2>1, <2>2
<1>2. plu = {} /\ con = {} => Built(e) = Entries(e, "instances")
  BY DEF Built, Builds
<1>3. ASSUME none, NEW p \in Entries(e, "instances") PROVE GoodInstance(e, p)
  <2>1. /\ ~At(e, p).unknownKeys /\ At(e, p).plugin \in KnownPlugins
        /\ At(e, p).enabled # "bad" /\ At(e, p).config \notin {"bad", "not an object"}
    BY <1>2, <1>3
  <2>2. At(e, p).config = "good"
    BY <2>1 DEF Shaped
  <2>3. At(e, p).secrets \subseteq SecretNames(e)
    BY <1>2, <1>3
  <2>4. At(e, p).secrets = {} \/ (e.secrets.state = "good" /\ At(e, p).secrets \subseteq e.secrets.names)
    BY <2>3 DEF SecretNames
  <2> QED BY <2>1, <2>2, <2>4 DEF GoodInstance
<1>4. ASSUME \A p \in Entries(e, "instances") : GoodInstance(e, p) PROVE none
  <2>1. key = {} /\ plu = {} /\ ena = {} /\ con = {} /\ set = {}
    BY <1>4 DEF GoodInstance, Built
  <2>2. ASSUME NEW q \in Built(e) PROVE At(e, q).secrets \subseteq SecretNames(e)
    <3>1. GoodInstance(e, q)
      BY <1>4 DEF Built
    <3> QED BY <3>1 DEF GoodInstance, SecretNames
  <2> QED BY <2>1, <2>2
<1> HIDE DEF key, plu, ena, con, sec, set
<1> QED BY <1>1, <1>2, <1>3, <1>4

(* Once every instance is built, a list is good for the loader exactly if  *)
(* it is good, and reported exactly if it is not.                          *)
LEMMA ListExact ==
    ASSUME NEW e, Built(e) = Entries(e, "instances"),
           NEW p, NEW list, IsList(list.of), NEW direction
    PROVE  /\ ListGood(e, list, direction) <=> GoodList(e, list, direction)
           /\ ListErrors(e, p, list, direction) = {} <=> GoodList(e, list, direction)
<1>1. Broken(e) = {}
  BY DEF Broken, InstanceDrafts, Drafts
<1>2. \A m : Usable(e, m, direction) <=>
         /\ m.string
         /\ \E q \in Entries(e, "instances") :
               Name(e, q) = m.name /\ direction \in Directions(At(e, q).plugin)
  BY DEF Usable, Instance
<1>3. \A k \in DOMAIN list.of : k \in Int /\ 1 .. k - 1 \subseteq DOMAIN list.of
  BY DEF IsList
<1>4. ASSUME ListGood(e, list, direction) PROVE GoodList(e, list, direction)
  <2>1. /\ list.kind = "list" /\ list.of # <<>>
        /\ \A k \in DOMAIN list.of : Usable(e, list.of[k], direction)
        /\ \A k \in DOMAIN list.of : ~Repeated(e, list.of, k, direction)
    BY <1>4 DEF ListGood, MemberGood
  <2>2. ASSUME NEW j \in DOMAIN list.of, NEW k \in DOMAIN list.of,
               list.of[j].name = list.of[k].name, j < k
        PROVE  FALSE
    <3>1. j \in 1 .. k - 1
      BY <2>2 DEF IsList
    <3>2. Usable(e, list.of[j], direction) /\ list.of[k].string
      BY <2>1, <1>2
    <3> QED BY <2>1, <2>2, <3>1, <3>2 DEF Repeated
  <2>3. \A j, k \in DOMAIN list.of : list.of[j].name = list.of[k].name => j = k
    <3>1. \A j, k \in DOMAIN list.of : j = k \/ j < k \/ k < j
      BY <1>3
    <3> QED BY <2>2, <3>1
  <2> QED BY <1>2, <2>1, <2>3 DEF GoodList
<1>5. ASSUME GoodList(e, list, direction) PROVE ListGood(e, list, direction)
  <2>1. \A k \in DOMAIN list.of : Usable(e, list.of[k], direction)
    BY <1>2, <1>5 DEF GoodList
  <2>2. ASSUME NEW k \in DOMAIN list.of, NEW j \in 1 .. k - 1
        PROVE  list.of[j].name # list.of[k].name
    <3>1. j \in DOMAIN list.of /\ j # k
      BY <1>3
    <3> QED BY <1>5, <3>1 DEF GoodList
  <2>3. \A k \in DOMAIN list.of : ~Repeated(e, list.of, k, direction)
    BY <2>2 DEF Repeated
  <2> QED BY <1>5, <2>1, <2>3 DEF ListGood, MemberGood, GoodList
<1>6. ListErrors(e, p, list, direction) = {} <=> ListGood(e, list, direction)
  <2>1. \A k : MemberReported(e, list.of, k, direction) <=> ~MemberGood(e, list.of, k, direction)
    BY <1>1 DEF MemberReported
  <2> DEFINE wrong == {j \in DOMAIN list.of : MemberReported(e, list.of, j, direction)}
  <2>2. ListErrors(e, p, list, direction) =
           IF list.kind # "list" \/ list.of = <<>> THEN {<<p, direction, 0>>}
           ELSE {<<p, direction, k>> : k \in wrong}
    BY DEF ListErrors
  <2>3. wrong = {} <=> \A k \in DOMAIN list.of : MemberGood(e, list.of, k, direction)
    BY <2>1
  <2> HIDE DEF wrong
  <2>4. {<<p, direction, k>> : k \in wrong} = {} <=> wrong = {}
    OBVIOUS
  <2> QED BY <2>2, <2>3, <2>4 DEF ListGood
<1> QED BY <1>4, <1>5, <1>6

(* What WellFormed asks of a rule, beside its name.                        *)
GoodRule(e, p) ==
    LET r == At(e, p)
    IN  /\ ~r.unknownKeys /\ r.enabled # "bad"
        /\ GoodList(e, r.inputs, "input") /\ GoodList(e, r.outputs, "output")
        /\ Members(r.inputs) \cap Members(r.outputs) = {}

(* The same for the rules, once every instance is built.                   *)
LEMMA RulesExact ==
    ASSUME NEW e, Shaped(e), Built(e) = Entries(e, "instances"),
           RuleDrafts(e) = Entries(e, "rules")
    PROVE  /\ RuleErrors(e) = {} <=> \A p \in Entries(e, "rules") : GoodRule(e, p)
           /\ RuleErrors(e) = {} => BuiltRules(e) = Entries(e, "rules")
<1> DEFINE key == {q \in RuleDrafts(e) : At(e, q).unknownKeys}
           of(q) == ListErrors(e, q, At(e, q).inputs, "input")
                    \cup ListErrors(e, q, At(e, q).outputs, "output")
           lap == {q \in RuleDrafts(e) : ListsGood(e, q) /\ Overlap(e, q) # {}}
           ena == {q \in BuiltRules(e) : At(e, q).enabled = "bad"}
           listed == \A q \in RuleDrafts(e) : of(q) = {}
           none == key = {} /\ listed /\ lap = {} /\ ena = {}
<1>1. RuleErrors(e) = {} <=> none
  <2>1. RuleErrors(e) =
           {<<p, "unknown key">> : p \in key} \cup (UNION {of(p) : p \in RuleDrafts(e)})
           \cup {<<p, "overlap">> : p \in lap} \cup {<<p, "enabled">> : p \in ena}
    BY DEF RuleErrors
  <2>2. UNION {of(p) : p \in RuleDrafts(e)} = {} <=> listed
    <3> HIDE DEF of
    <3> QED OBVIOUS
  <2> HIDE DEF key, lap, ena, of, listed
  <2>3. /\ {<<p, "unknown key">> : p \in key} = {} <=> key = {}
        /\ {<<p, "overlap">> : p \in lap} = {} <=> lap = {}
        /\ {<<p, "enabled">> : p \in ena} = {} <=> ena = {}
    OBVIOUS
  <2> QED BY <2>1, <2>2, <2>3
<1>2. ASSUME NEW p \in Entries(e, "rules")
      PROVE  /\ of(p) = {} <=> GoodList(e, At(e, p).inputs, "input")
                               /\ GoodList(e, At(e, p).outputs, "output")
             /\ ListsGood(e, p) <=> GoodList(e, At(e, p).inputs, "input")
                                    /\ GoodList(e, At(e, p).outputs, "output")
  <2>1. IsList(At(e, p).inputs.of) /\ IsList(At(e, p).outputs.of)
    BY DEF Shaped
  <2>2. /\ ListGood(e, At(e, p).inputs, "input") <=> GoodList(e, At(e, p).inputs, "input")
        /\ ListErrors(e, p, At(e, p).inputs, "input") = {}
              <=> GoodList(e, At(e, p).inputs, "input")
    BY <2>1, ListExact
  <2>3. /\ ListGood(e, At(e, p).outputs, "output") <=> GoodList(e, At(e, p).outputs, "output")
        /\ ListErrors(e, p, At(e, p).outputs, "output") = {}
              <=> GoodList(e, At(e, p).outputs, "output")
    BY <2>1, ListExact
  <2> QED BY <2>2, <2>3 DEF ListsGood
<1> HIDE DEF of
<1>3. none => /\ BuiltRules(e) = Entries(e, "rules")
              /\ \A p \in Entries(e, "rules") : GoodRule(e, p)
  <2>1. SUFFICES ASSUME none PROVE BuiltRules(e) = Entries(e, "rules")
                                   /\ \A p \in Entries(e, "rules") : GoodRule(e, p)
    OBVIOUS
  <2>2. \A p \in Entries(e, "rules") : ListsGood(e, p) /\ Overlap(e, p) = {}
    BY <1>2, <2>1
  <2>3. BuiltRules(e) = Entries(e, "rules")
    BY <2>2 DEF BuiltRules
  <2>4. \A p \in Entries(e, "rules") : ~At(e, p).unknownKeys /\ At(e, p).enabled # "bad"
    BY <2>1, <2>3
  <2> QED BY <1>2, <2>2, <2>3, <2>4 DEF GoodRule, Overlap
<1>4. ASSUME \A p \in Entries(e, "rules") : GoodRule(e, p) PROVE none
  <2>1. \A p \in Entries(e, "rules") :
           ~At(e, p).unknownKeys /\ At(e, p).enabled # "bad" /\ of(p) = {} /\ Overlap(e, p) = {}
    BY <1>2, <1>4 DEF GoodRule, Overlap
  <2> QED BY <2>1 DEF BuiltRules
<1> HIDE DEF none
<1> QED BY <1>1, <1>3, <1>4

(* The files that parse and the daemon blocks are reported unless each     *)
(* file is good and there is at most one block.                            *)
LEMMA DocumentsExact ==
    ASSUME NEW e, Shaped(e)
    PROVE  DocumentErrors(e) = {} /\ DaemonErrors(e) = {} <=>
              /\ e.docs # <<>> /\ Parsed(e) = DOMAIN e.docs
              /\ \A f \in Parsed(e) : ~e.docs[f].badKeys /\ e.docs[f].daemon # "bad"
              /\ \A f, g \in DaemonBlocks(e) : f = g
<1> DEFINE par == DOMAIN e.docs \ Parsed(e)
           key == {g \in Parsed(e) : e.docs[g].badKeys}
           sec == {g \in DaemonBlocks(e) : \E h \in DaemonBlocks(e) : h < g}
           bad == {g \in DaemonBlocks(e) : e.docs[g].daemon = "bad"
                                           /\ ~\E h \in DaemonBlocks(e) : h < g}
<1>1. DocumentErrors(e) = {} <=> e.docs # <<>> /\ par = {} /\ key = {}
  <2>1. DocumentErrors(e) = (IF e.docs = <<>> THEN {<<File(0), "no files">>} ELSE {})
           \cup {<<File(f), "does not parse">> : f \in par}
           \cup {<<File(f), "bad top-level key">> : f \in key}
    BY DEF DocumentErrors
  <2> HIDE DEF par, key
  <2>2. /\ {<<File(f), "does not parse">> : f \in par} = {} <=> par = {}
        /\ {<<File(f), "bad top-level key">> : f \in key} = {} <=> key = {}
    OBVIOUS
  <2> QED BY <2>1, <2>2
<1>2. DaemonErrors(e) = {} <=> sec = {} /\ bad = {}
  <2>1. DaemonErrors(e) = {<<File(f), "second daemon block">> : f \in sec}
           \cup {<<File(f), "bad daemon setting">> : f \in bad}
    BY DEF DaemonErrors
  <2> HIDE DEF sec, bad
  <2>2. /\ {<<File(f), "second daemon block">> : f \in sec} = {} <=> sec = {}
        /\ {<<File(f), "bad daemon setting">> : f \in bad} = {} <=> bad = {}
    OBVIOUS
  <2> QED BY <2>1, <2>2
<1>3. DaemonBlocks(e) \subseteq Int /\ DaemonBlocks(e) \subseteq Parsed(e)
  <2>1. DaemonBlocks(e) \subseteq Parsed(e) /\ Parsed(e) \subseteq DOMAIN e.docs
    BY DEF DaemonBlocks, Parsed
  <2>2. IsList(e.docs)
    BY DEF Shaped
  <2>3. DOMAIN e.docs \subseteq Int
    BY <2>2 DEF IsList
  <2> QED BY <2>1, <2>3
<1>4. sec = {} <=> \A f, g \in DaemonBlocks(e) : f = g
  <2>1. \A f, g \in DaemonBlocks(e) : f = g \/ f < g \/ g < f
    BY <1>3
  <2>2. \A f \in DaemonBlocks(e) : ~(f < f)
    BY <1>3
  <2> QED BY <2>1, <2>2
<1>5. sec = {} => (bad = {} <=> \A f \in Parsed(e) : e.docs[f].daemon # "bad")
  BY DEF DaemonBlocks
<1>6. par = {} <=> Parsed(e) = DOMAIN e.docs
  BY DEF Parsed
<1>7. key = {} <=> \A f \in Parsed(e) : ~e.docs[f].badKeys
  OBVIOUS
<1> HIDE DEF par, key, sec, bad
<1> QED BY <1>1, <1>2, <1>4, <1>5, <1>6, <1>7

(* WellFormed, part by part.                                               *)
LEMMA WellFormedParts ==
    ASSUME NEW e
    PROVE  WellFormed(e) <=>
              /\ /\ e.docs # <<>> /\ Parsed(e) = DOMAIN e.docs
                 /\ \A f \in Parsed(e) : ~e.docs[f].badKeys /\ e.docs[f].daemon # "bad"
                 /\ \A f, g \in DaemonBlocks(e) : f = g
              /\ SecretsLoad(e)
              /\ DistinctNames(e, "instances") /\ DistinctNames(e, "rules")
              /\ \A p \in Entries(e, "instances") : GoodInstance(e, p)
              /\ \A p \in Entries(e, "rules") : GoodRule(e, p)
BY DEF WellFormed, SecretsLoad, GoodInstance, GoodRule

(* The loader accepts the well-formed editions and no other, and accepts   *)
(* them whole.                                                             *)
LEMMA AcceptsWellFormed ==
    ASSUME NEW e, Shaped(e)
    PROVE  /\ Accepted(e) <=> WellFormed(e)
           /\ Accepted(e) => /\ Built(e) = Entries(e, "instances")
                             /\ BuiltRules(e) = Entries(e, "rules")
<1>1. Errors(e) = {} <=>
         /\ DocumentErrors(e) = {} /\ DaemonErrors(e) = {}
         /\ NameErrors(e, "instances") = {} /\ NameErrors(e, "rules") = {}
         /\ InstanceErrors(e) = {} /\ RuleErrors(e) = {}
  BY DEF Errors
<1>2. /\ NameErrors(e, "instances") = {} <=> DistinctNames(e, "instances")
      /\ NameErrors(e, "instances") = {} => InstanceDrafts(e) = Entries(e, "instances")
      /\ NameErrors(e, "rules") = {} <=> DistinctNames(e, "rules")
      /\ NameErrors(e, "rules") = {} => RuleDrafts(e) = Entries(e, "rules")
  BY NamesExact DEF InstanceDrafts, RuleDrafts
<1>3. SecretsLoad(e) /\ NameErrors(e, "instances") = {} =>
         /\ InstanceErrors(e) = {} <=> \A p \in Entries(e, "instances") : GoodInstance(e, p)
         /\ InstanceErrors(e) = {} => Built(e) = Entries(e, "instances")
  BY <1>2, InstancesExact
<1>4. Built(e) = Entries(e, "instances") /\ NameErrors(e, "rules") = {} =>
         /\ RuleErrors(e) = {} <=> \A p \in Entries(e, "rules") : GoodRule(e, p)
         /\ RuleErrors(e) = {} => BuiltRules(e) = Entries(e, "rules")
  BY <1>2, RulesExact
<1> QED BY <1>1, <1>2, <1>3, <1>4, DocumentsExact, WellFormedParts DEF Accepted

(* For every edition the operator may write, the loader accepts it exactly *)
(* if it is well-formed, and then every entry is in the configuration.     *)
THEOREM LoaderAcceptsExactly == Spec => []LoaderIsExact
<1>1. TableInv => LoaderIsExact
  <2>1. SUFFICES ASSUME TableInv PROVE LoaderIsExact
    OBVIOUS
  <2>2. Shaped(edition)
    BY <2>1, EditionsAssumption DEF TableInv, Typed
  <2>3. PICK e : e = edition
    OBVIOUS
  <2>4. /\ Accepted(e) <=> WellFormed(e)
        /\ Accepted(e) => /\ Built(e) = Entries(e, "instances")
                          /\ BuiltRules(e) = Entries(e, "rules")
    BY <2>2, <2>3, AcceptsWellFormed
  <2>5. /\ Configuration(e).allRules = {Name(e, p) : p \in BuiltRules(e)}
        /\ Configuration(e).allInstances = {Name(e, p) : p \in Built(e)}
    BY DEF Configuration
  <2> QED BY <2>3, <2>4, <2>5 DEF LoaderIsExact
<1> QED BY <1>1, TableAlways, PTL

=============================================================================
