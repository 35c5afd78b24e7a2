--------------------------- MODULE Configuration ---------------------------
(***************************************************************************)
(* From the files the operator writes to the configuration the daemon      *)
(* runs: discovery.py, secrets.py and the _Loader of config.py, as pure    *)
(* operators.  An edition is what is on disk at one time:                  *)
(*    [docs    |-> the *.json files in lexical order,                      *)
(*     secrets |-> [state |-> ..., names |-> ...]]                         *)
(* A document that parses has a sequence of entries for "instances" and    *)
(* one for "rules".  A raw name is a record [name, key, valid]: the        *)
(* stripped text, its case-folded NFC form, and whether it has no problem. *)
(*                                                                         *)
(* The loader accumulates errors instead of stopping at the first one, so  *)
(* an error here is a pair <<where, what>> and the errors are a set.       *)
(***************************************************************************)
EXTENDS Integers, Sequences

CONSTANT Candidates    \* the plugin directories in search order, as modules

-----------------------------------------------------------------------------
(* _inspect_module: the attributes a module must have to be a plugin.      *)
Loads(c) == c.imports /\ c.named /\ c.directions # {} /\ c.concrete

(* discover: the first candidate that loads under a name provides it, a    *)
(* later one is a failure and changes nothing.                             *)
Discovered == {k \in DOMAIN Candidates :
                  /\ Loads(Candidates[k])
                  /\ \A j \in 1 .. k - 1 : Loads(Candidates[j]) =>
                        Candidates[j].plugin # Candidates[k].plugin}

KnownPlugins == {Candidates[k].plugin : k \in Discovered}

Directions(plugin) ==
    Candidates[CHOOSE k \in Discovered : Candidates[k].plugin = plugin].directions

(* load_secrets: no file is an empty store; a file that cannot be read, is *)
(* open to others, or is malformed is an error.                            *)
SecretsLoad(e) == e.secrets.state \in {"absent", "good"}
SecretNames(e) == IF e.secrets.state = "good" THEN e.secrets.names ELSE {}

-----------------------------------------------------------------------------
(* _read_files, _parse, _collect_document                                  *)
Parsed(e) == {f \in DOMAIN e.docs : e.docs[f].parses}

File(f) == <<"file", f, 0>>

DaemonBlocks(e) == {f \in Parsed(e) : e.docs[f].daemon # "absent"}

DocumentErrors(e) ==
    (IF e.docs = <<>> THEN {<<File(0), "no files">>} ELSE {})
    \cup {<<File(f), "does not parse">> : f \in DOMAIN e.docs \ Parsed(e)}
    \cup {<<File(f), "bad top-level key">> : f \in {g \in Parsed(e) : e.docs[g].badKeys}}

(* _collect_daemon and _build_daemon: the first block counts.              *)
DaemonErrors(e) ==
    {<<File(f), "second daemon block">> : f \in {g \in DaemonBlocks(e) :
                                              \E h \in DaemonBlocks(e) : h < g}}
    \cup {<<File(f), "bad daemon setting">> : f \in {g \in DaemonBlocks(e) :
                 e.docs[g].daemon = "bad" /\ ~\E h \in DaemonBlocks(e) : h < g}}

-----------------------------------------------------------------------------
(* _collect_named.  An entry is at <<section, file, position>>.            *)
Entries(e, section) ==
    UNION {{<<section, f, k>> : k \in DOMAIN e.docs[f][section]} : f \in Parsed(e)}

At(e, p) == e.docs[p[2]][p[1]][p[3]]

Before(p, q) == p[2] < q[2] \/ (p[2] = q[2] /\ p[3] < q[3])

(* Would take its name in the registry.                                    *)
Declares(e, p) == At(e, p).raw.valid /\ At(e, p).object

(* find_conflict: an earlier entry has the same name but for its case.     *)
Conflicts(e, p) ==
    \E q \in Entries(e, p[1]) :
        Before(q, p) /\ Declares(e, q) /\ At(e, q).raw.key = At(e, p).raw.key

Drafts(e, section) == {p \in Entries(e, section) : Declares(e, p) /\ ~Conflicts(e, p)}

(* Mutant: a later file redefines a name silently.                         *)
NameErrorsShadowing(e, section) ==
    {<<p, "bad name">> : p \in {q \in Entries(e, section) : ~At(e, q).raw.valid}}
    \cup {<<p, "not an object">> : p \in {q \in Entries(e, section) :
                 At(e, q).raw.valid /\ ~At(e, q).object}}

NameErrors(e, section) ==
    {<<p, "bad name">> : p \in {q \in Entries(e, section) : ~At(e, q).raw.valid}}
    \cup {<<p, "duplicate">> : p \in {q \in Entries(e, section) :
                 At(e, q).raw.valid /\ Conflicts(e, q)}}
    \cup {<<p, "not an object">> : p \in {q \in Entries(e, section) :
                 At(e, q).raw.valid /\ ~Conflicts(e, q) /\ ~At(e, q).object}}

-----------------------------------------------------------------------------
(* _build_instance: without a known plugin or an object of settings there  *)
(* is no instance; every other problem is reported and the instance built, *)
(* so that its rules can be checked too.                                   *)
Builds(e, p) == At(e, p).plugin \in KnownPlugins /\ At(e, p).config # "not an object"

InstanceDrafts(e) == Drafts(e, "instances")
Built(e)  == {p \in InstanceDrafts(e) : Builds(e, p)}
Broken(e) == InstanceDrafts(e) \ Built(e)

InstanceErrors(e) ==
    {<<p, "unknown key">> : p \in {q \in InstanceDrafts(e) : At(e, q).unknownKeys}}
    \cup {<<p, "no such plugin">> : p \in {q \in InstanceDrafts(e) :
                 At(e, q).plugin \notin KnownPlugins}}
    \cup {<<p, "enabled">> : p \in {q \in InstanceDrafts(e) :
                 At(e, q).plugin \in KnownPlugins /\ At(e, q).enabled = "bad"}}
    \cup {<<p, "config">> : p \in {q \in InstanceDrafts(e) :
                 At(e, q).plugin \in KnownPlugins /\ At(e, q).config = "not an object"}}
    \cup {<<p, "undefined secret">> : p \in {q \in Built(e) :
                 ~(At(e, q).secrets \subseteq SecretNames(e))}}
    \cup {<<p, "settings">> : p \in {q \in Built(e) : At(e, q).config = "bad"}}

Name(e, p) == At(e, p).raw.name
Instance(e, name) == {p \in Built(e) : Name(e, p) = name}

-----------------------------------------------------------------------------
(* _resolve_members on one element of a list: what is wrong with it, where *)
(* a reference to a broken instance is wrong without being reported again. *)
Usable(e, m, direction) ==
    /\ m.string
    /\ \E p \in Instance(e, m.name) : direction \in Directions(At(e, p).plugin)

Repeated(e, list, k, direction) ==
    /\ list[k].string
    /\ \E j \in 1 .. k - 1 : Usable(e, list[j], direction) /\ list[j].name = list[k].name

MemberGood(e, list, k, direction) ==
    Usable(e, list[k], direction) /\ ~Repeated(e, list, k, direction)

(* Mutant: a name that only a broken entry declares passes.                *)
MemberReportedIfUnknown(e, list, k, direction) ==
    /\ ~MemberGood(e, list, k, direction)
    /\ list[k].string /\ Instance(e, list[k].name) # {}

MemberReported(e, list, k, direction) ==
    /\ ~MemberGood(e, list, k, direction)
    /\ ~(/\ list[k].string
         /\ ~Repeated(e, list, k, direction)
         /\ \E p \in Broken(e) : Name(e, p) = list[k].name)

(* _rule_members: the list is there and every element of it is good.       *)
ListGood(e, list, direction) ==
    list.kind = "list" /\ list.of # <<>>
        /\ \A k \in DOMAIN list.of : MemberGood(e, list.of, k, direction)

ListErrors(e, p, list, direction) ==
    IF list.kind # "list" \/ list.of = <<>>
    THEN {<<p, direction, 0>>}
    ELSE {<<p, direction, k>> : k \in {j \in DOMAIN list.of :
                                           MemberReported(e, list.of, j, direction)}}

Members(list) == {list.of[k].name : k \in DOMAIN list.of}

(* _build_rule: both lists, then no instance in both, then "enabled".      *)
ListsGood(e, p) == /\ ListGood(e, At(e, p).inputs, "input")
                   /\ ListGood(e, At(e, p).outputs, "output")

Overlap(e, p) == Members(At(e, p).inputs) \cap Members(At(e, p).outputs)

RuleDrafts(e) == Drafts(e, "rules")
BuiltRules(e) == {p \in RuleDrafts(e) : ListsGood(e, p) /\ Overlap(e, p) = {}}

RuleErrors(e) ==
    {<<p, "unknown key">> : p \in {q \in RuleDrafts(e) : At(e, q).unknownKeys}}
    \cup (UNION {ListErrors(e, p, At(e, p).inputs, "input")
                 \cup ListErrors(e, p, At(e, p).outputs, "output") : p \in RuleDrafts(e)})
    \cup {<<p, "overlap">> : p \in {q \in RuleDrafts(e) : ListsGood(e, q)
                                                          /\ Overlap(e, q) # {}}}
    \cup {<<p, "enabled">> : p \in {q \in BuiltRules(e) : At(e, q).enabled = "bad"}}

-----------------------------------------------------------------------------
(* load: every error of every part, and the configuration when there is    *)
(* none.  A value that was reported is built with its default.             *)
Errors(e) == DocumentErrors(e) \cup DaemonErrors(e)
                \cup NameErrors(e, "instances") \cup NameErrors(e, "rules")
                \cup InstanceErrors(e) \cup RuleErrors(e)

(* _load_configuration: the secrets first, then the files.                 *)
Accepted(e) == SecretsLoad(e) /\ Errors(e) = {}

Enabled(e, p) == At(e, p).enabled # "no"

(* What the rest of the daemon uses of a Configuration: every name for the *)
(* mirror, and the enabled part in the form RuleGraph.tla takes.           *)
Configuration(e) ==
    LET on == {p \in BuiltRules(e) : Enabled(e, p)}
        rule(name) == CHOOSE p \in BuiltRules(e) : Name(e, p) = name
    IN  [allRules     |-> {Name(e, p) : p \in BuiltRules(e)},
         allInstances |-> {Name(e, p) : p \in Built(e)},
         rules        |-> {Name(e, p) : p \in on},
         instances    |-> {Name(e, p) : p \in {q \in Built(e) : Enabled(e, q)}},
         inputs       |-> [r \in {Name(e, p) : p \in on} |-> Members(At(e, rule(r)).inputs)],
         outputs      |-> [r \in {Name(e, p) : p \in on} |-> Members(At(e, rule(r)).outputs)]]

=============================================================================
