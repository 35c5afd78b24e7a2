------------------------------ MODULE Delivery ------------------------------
(***************************************************************************)
(* What the engine and its push pool promise to an output, without rules,  *)
(* latches, messages, timers or threads: a register that is brought to the *)
(* wanted value by sending it one value at a time.                         *)
(*                                                                         *)
(*   - at most one value is on its way to an output, and it is the one     *)
(*     that was wanted when it was sent;                                   *)
(*   - the output is noted as told a value only when that very value was   *)
(*     on its way and has been reported;                                   *)
(*   - an output that is served and was not told what is wanted is owed    *)
(*     it, at every moment;                                                *)
(*   - only the end of the process loses sight of a value on its way.      *)
(*                                                                         *)
(* When wanted changes, which outputs are served and how long anything     *)
(* takes is left open.                                                     *)
(***************************************************************************)
CONSTANTS Outputs, Values

VARIABLES
    served,   \* the outputs somebody wants something of; none without a process
    wanted,   \* what is wanted of each output
    told,     \* what each output was last told, "none" before the first time
    owed,     \* what each output is still to be told, "none" if nothing
    flying    \* what is on its way to each output, "none" if nothing

vars == <<served, wanted, told, owed, flying>>

-----------------------------------------------------------------------------
(* The promise: wrong and forgotten never come together.                   *)
Covered == \A o \in served : told[o] = wanted[o] \/ owed[o] = wanted[o]

Rest(o) ==
    /\ flying'[o] = flying[o] /\ told'[o] = told[o]

Send(o) ==
    /\ flying[o] = "none"
    /\ flying'[o] = wanted'[o] /\ owed'[o] = wanted'[o]
    /\ told'[o] = told[o]

(* The value that was on its way is reported as applied, or as failed.     *)
Report(o) ==
    /\ flying[o] # "none" /\ flying'[o] = "none"
    /\ told'[o] \in {told[o], flying[o]}

Work ==
    /\ \A o \in Outputs : Rest(o) \/ Send(o) \/ Report(o)
    /\ Covered'

(* The process ends; what it had noted stays.                              *)
Stop ==
    /\ served' = {}
    /\ flying' = [o \in Outputs |-> "none"]
    /\ UNCHANGED <<told, owed>>

Init ==
    /\ served = {}
    /\ wanted \in [Outputs -> Values]
    /\ told = [o \in Outputs |-> "none"]
    /\ owed = [o \in Outputs |-> "none"]
    /\ flying = [o \in Outputs |-> "none"]

Next == Work \/ Stop

Spec == Init /\ [][Next]_vars

=============================================================================
