----------------------------- MODULE RuleGraph -----------------------------
(***************************************************************************)
(* The rule graph of noti_mapper/rules.py: which rules an instance         *)
(* touches, and what an output should be given the latches.  Everything    *)
(* here is a pure operator on a graph g, a record                          *)
(*    [inputs  |-> [rule -> set of input instances],                       *)
(*     outputs |-> [rule -> set of output instances]]                      *)
(* whose two functions have the graph's rules as their domain.  The dicts  *)
(* _by_input and _by_output of the class are indexes over the same lists.  *)
(*                                                                         *)
(* A latch table ls maps every rule to a record with a field "state",      *)
(* "set" or "clear"; a rule the code's cache does not hold is "clear".     *)
(***************************************************************************)

(* A configuration as the rule graph sees it: the enabled rules, the       *)
(* enabled instances and the two lists of every rule.  A disabled instance *)
(* leaves the lists; the rule itself stays.                                *)
FromConfiguration(c) ==
    [inputs  |-> [r \in c.rules |-> c.inputs[r]  \cap c.instances],
     outputs |-> [r \in c.rules |-> c.outputs[r] \cap c.instances]]

RuleNames(g) == DOMAIN g.outputs

(* Every rule this instance can set the latch of.                          *)
RulesForInput(g, i) == {r \in RuleNames(g) : i \in g.inputs[r]}

(* Every rule this instance renders, and can clear.                        *)
RulesForOutput(g, o) == {r \in RuleNames(g) : o \in g.outputs[r]}

InputNames(g)  == UNION {g.inputs[r]  : r \in RuleNames(g)}
OutputNames(g) == UNION {g.outputs[r] : r \in RuleNames(g)}

(* An output is on when any rule listing it as an output is latched.       *)
DesiredOutputState(g, o, ls) ==
    IF \E r \in RulesForOutput(g, o) : ls[r].state = "set" THEN "on" ELSE "off"

(* Every output whose state could change if these rules changed.           *)
OutputsAffectedBy(g, rs) == UNION {g.outputs[r] : r \in rs \cap RuleNames(g)}

=============================================================================
