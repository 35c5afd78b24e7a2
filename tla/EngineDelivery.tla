--------------------------- MODULE EngineDelivery ---------------------------
(***************************************************************************)
(* Engine.tla implements Delivery.tla.  The refinement mapping: an output  *)
(* is served while a process runs a graph that contains it, wanted is what *)
(* the latches want, told and owed are its rows in output_state and        *)
(* pending_pushes, and flying is the value of its request in the pool or   *)
(* of its unread result in the core's queue.                               *)
(***************************************************************************)
EXTENDS Engine

Served == IF phase = "down" THEN {} ELSE OutputNames(Graph)

Flights(o) ==
    {j.value : j \in {k \in jobs \cup busy : k.output = o}}
        \cup {queue[k].value : k \in Results(o)}

Flying(o) == IF Flights(o) = {} THEN "none" ELSE CHOOSE v \in Flights(o) : TRUE

D == INSTANCE Delivery WITH
        served <- Served,
        wanted <- [o \in Outputs |-> Desired(o)],
        told   <- outputState,
        owed   <- [o \in Outputs |-> pending[o].target],
        flying <- [o \in Outputs |-> Flying(o)]

(* Every behaviour of the engine, with any plugins, reloads and crashes,   *)
(* is one the abstract register allows: whatever _handle_push_result notes *)
(* as applied was on its way, whatever _dispatch_due_pushes sends is the   *)
(* only value on its way, and no served output is wrong and forgotten.     *)
DeliversAsPromised == D!Spec

=============================================================================
