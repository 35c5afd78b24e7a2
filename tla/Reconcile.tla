----------------------------- MODULE Reconcile -----------------------------
(***************************************************************************)
(* resolve_rule of noti_mapper/reconcile.py: what one rule's latch should  *)
(* be after downtime, from the persisted record, the latest event seen     *)
(* during the downtime and what the rule's outputs report.                 *)
(*                                                                         *)
(* A timestamp is a natural number or None.  A report is a record          *)
(* [belief, cleared_at]; the code's list of reports is used only through   *)
(* "is there one that ..." and max(), so it is a set here.                 *)
(***************************************************************************)
EXTENDS Integers

None == -1

Beliefs == {"ACTIVE", "CLEARED", "UNKNOWN"}

(* The fields of a ReconcileOutcome; the wording of "reason" is left out.  *)
Outcome(state, set_at, cleared_at) ==
    [state |-> state, set_at |-> set_at, cleared_at |-> cleared_at]

(* _latest                                                                 *)
Latest(first, second) ==
    IF first = None \/ second > first THEN second ELSE first

(* max(known_clear_times), or None when no CLEARED report carries a time.  *)
ClearTime(cleared) ==
    LET known == {rep.cleared_at : rep \in cleared} \ {None}
    IN  IF known = {} THEN None
        ELSE CHOOSE t \in known : \A u \in known : u <= t

(* Mutant: a clear always wins.                                            *)
ResolveWithClearAlways(now, persisted, event, cleared) ==
    Outcome("clear", persisted.set_at,
            IF ClearTime(cleared) # None THEN ClearTime(cleared) ELSE now)

(* _resolve_with_clear: a clear wins unless an event is strictly later.    *)
ResolveWithClear(now, persisted, event, cleared) ==
    LET clear_time == ClearTime(cleared)
    IN  IF event # None /\ (clear_time = None \/ event > clear_time)
        THEN Outcome("set", event,
                     IF clear_time # None THEN clear_time ELSE persisted.cleared_at)
        ELSE Outcome("clear", persisted.set_at,
                     IF clear_time # None THEN clear_time ELSE now)

(* resolve_rule.  The three branches that keep the persisted state (an     *)
(* output still active with the latch set, with the latch clear, and       *)
(* nothing reported) differ only in their reason.                          *)
ResolveRule(now, persisted, event, reports) ==
    LET cleared == {rep \in reports : rep.belief = "CLEARED"}
    IN  CASE cleared # {} -> ResolveWithClear(now, persisted, event, cleared)
          [] cleared = {} /\ event # None ->
                Outcome("set",
                        IF persisted.state = "set"
                        THEN Latest(persisted.set_at, event) ELSE event,
                        persisted.cleared_at)
          [] OTHER -> Outcome(persisted.state, persisted.set_at, persisted.cleared_at)

=============================================================================
