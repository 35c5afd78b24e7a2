---------------------------- MODULE MCRuleTable ----------------------------
(* Small instances of RuleTable.tla for TLC.                               *)
EXTENDS RuleTable, TLC

(* Two plugins, a second one under a taken name, and one that fails.       *)
Plugins == <<
    [plugin |-> "mail", directions |-> {"input"},  imports |-> TRUE,  named |-> TRUE, concrete |-> TRUE],
    [plugin |-> "lamp", directions |-> {"output"}, imports |-> TRUE,  named |-> TRUE, concrete |-> TRUE],
    [plugin |-> "lamp", directions |-> {"input"},  imports |-> TRUE,  named |-> TRUE, concrete |-> TRUE],
    [plugin |-> "feed", directions |-> {"input"},  imports |-> FALSE, named |-> TRUE, concrete |-> TRUE]>>

Raw(n)   == [name |-> n, key |-> n, valid |-> TRUE]
RawUpper(n, k) == [name |-> n, key |-> k, valid |-> TRUE]
BadName  == [name |-> "/", key |-> "/", valid |-> FALSE]

Item(n)   == [name |-> n, string |-> TRUE]
NotAName  == [name |-> "i", string |-> FALSE]
List(s)   == [kind |-> "list", of |-> s]
NoList    == [kind |-> "missing", of |-> <<>>]

Mail == [plugin |-> "mail", raw |-> Raw("i"), object |-> TRUE, unknownKeys |-> FALSE,
         enabled |-> "yes", config |-> "good", secrets |-> {"s"}]
Lamp == [plugin |-> "lamp", raw |-> Raw("o"), object |-> TRUE, unknownKeys |-> FALSE,
         enabled |-> "yes", config |-> "good", secrets |-> {}]
Rule(n) == [raw |-> Raw(n), object |-> TRUE, unknownKeys |-> FALSE, enabled |-> "yes",
            inputs |-> List(<<Item("i")>>), outputs |-> List(<<Item("o")>>)]

Doc(is, rs) == [parses |-> TRUE, badKeys |-> FALSE, daemon |-> "absent",
                instances |-> is, rules |-> rs]
Edition(docs) == [secrets |-> [state |-> "good", names |-> {"s"}], docs |-> docs]

(* One thing wrong, or different, with each part.                          *)
Mails == {Mail} \cup {[Mail EXCEPT !.raw = n] : n \in {BadName, RawUpper("I", "i")}}
    \cup {[Mail EXCEPT !.plugin = x] : x \in {"missing", "feed", "lamp"}}
    \cup {[Mail EXCEPT !.config = x] : x \in {"bad", "not an object"}}
    \cup {[Mail EXCEPT !.enabled = x] : x \in {"no", "bad"}}
    \cup {[Mail EXCEPT !.object = FALSE], [Mail EXCEPT !.unknownKeys = TRUE]}

Lists == {List(<<Item("i")>>), List(<<Item("i"), Item("i")>>), List(<<Item("o")>>),
          List(<<Item("i"), Item("x")>>), List(<<NotAName>>), List(<<>>), NoList}

OneRule == {[Rule("a") EXCEPT !.inputs = l] : l \in Lists}
    \cup {[Rule("a") EXCEPT !.outputs = List(<<Item("o"), Item("i")>>)]}
    \cup {[Rule("a") EXCEPT !.enabled = x] : x \in {"no", "bad"}}
    \cup {[Rule("a") EXCEPT !.object = FALSE], [Rule("a") EXCEPT !.unknownKeys = TRUE]}

SecondFiles == {Doc(<<>>, <<>>), Doc(<<>>, <<Rule("b")>>),
                Doc(<<>>, <<[Rule("A") EXCEPT !.raw = RawUpper("A", "a")]>>),
                Doc(<<[Lamp EXCEPT !.raw = RawUpper("I", "i")]>>, <<>>),
                [Doc(<<>>, <<>>) EXCEPT !.parses = FALSE],
                [Doc(<<>>, <<>>) EXCEPT !.badKeys = TRUE],
                [Doc(<<>>, <<>>) EXCEPT !.daemon = "good"],
                [Doc(<<>>, <<>>) EXCEPT !.daemon = "bad"]}

FirstFile(m, r, d) == [Doc(<<m, Lamp>>, <<r>>) EXCEPT !.daemon = d]

Written ==
    {[secrets |-> k, docs |-> <<FirstFile(m, r, d), s>>] :
        m \in Mails, r \in OneRule, d \in {"absent", "good"}, s \in SecondFiles,
        k \in {[state |-> "good", names |-> {"s"}], [state |-> "absent", names |-> {}],
               [state |-> "open to others", names |-> {"s"}]}}
    \cup {Edition(<<>>)}

(* Later editions: the rule and its input change their names.              *)
Later == {Edition(<<Doc(<<Mail, Lamp>>, <<Rule("a")>>)>>),
          Edition(<<Doc(<<[Mail EXCEPT !.raw = Raw("j")], Lamp>>,
                        <<[Rule("b") EXCEPT !.inputs = List(<<Item("j")>>)]>>)>>)}

=============================================================================
