------------------------------ MODULE MCSystem ------------------------------
(* Small instances of System.tla for TLC.                                  *)
EXTENDS System, TLC

CONSTANTS r1, i1, pager, lamp

(* One rule with the pager as its only output.                             *)
Pager == [rules |-> {r1}, instances |-> {i1, pager},
          inputs |-> (r1 :> {i1}), outputs |-> (r1 :> {pager})]

(* One rule couples the pager and the lamp.                                *)
Coupled == [rules |-> {r1}, instances |-> {i1, pager, lamp},
            inputs |-> (r1 :> {i1}), outputs |-> (r1 :> {pager, lamp})]

Both == {Pager, Coupled}

(* Pushes and queries fail, answers get lost, and the process lives on.    *)
Faults == [config |-> Pager, start |-> 0,
           events |-> 2, faults |-> 2, crashes |-> 0, clears |-> 0]

(* The process dies and the operator resolves the incident meanwhile.      *)
Downtime == [config |-> Pager, start |-> 0,
             events |-> 2, faults |-> 0, crashes |-> 1, clears |-> 1]

(* The same with two outputs that clear each other, all at one time.       *)
Coupling == [config |-> Coupled, start |-> 2,
             events |-> 1, faults |-> 0, crashes |-> 1, clears |-> 1]

Apart == {Faults, Downtime, Coupling}

(* A push fails and the process dies.                                      *)
FaultAndCrash == {[Faults EXCEPT !.faults = 1, !.crashes = 1]}

(* The operator clears an output once, and a second event follows.         *)
TwoEvents == {[Coupling EXCEPT !.start = 0, !.events = 2, !.crashes = 0]}

=============================================================================
