------------------------------ MODULE MCEngine ------------------------------
(* Small instances of Engine.tla for TLC.                                  *)
EXTENDS EngineDelivery, TLC

CONSTANTS r1, i1, o1

(* One rule, one input, one output; the same with the output disabled; and *)
(* with the rule removed, its instances left.  A reload, or a start, may    *)
(* go from any of them to any other.                                       *)
Single   == [rules |-> {r1}, instances |-> {i1, o1},
             inputs |-> (r1 :> {i1}), outputs |-> (r1 :> {o1})]
Disabled == [Single EXCEPT !.instances = {i1}]
Removed  == [rules |-> {}, instances |-> {i1, o1}, inputs |-> <<>>, outputs |-> <<>>]
Reloadable == {Single, Disabled, Removed}

=============================================================================
