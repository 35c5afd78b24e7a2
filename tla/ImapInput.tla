----------------------------- MODULE ImapInput ------------------------------
(***************************************************************************)
(* The IMAP reader (plugins/imap_input): the UID cursor it keeps in        *)
(* plugin_kv, and the two threads that move it.  The instance's own thread *)
(* connects and watches (start()); the core thread calls catch_up() once   *)
(* during start-up, and again from a timer when it raised.  Both run the   *)
(* same _select and _new_uids against the same two rows.                   *)
(*                                                                         *)
(* Around it are the mail server, which may renumber the mailbox, and one  *)
(* rule: its latch, the core's queue and the reconciliation after          *)
(* downtime, when the operator may have resolved the incident.             *)
(*                                                                         *)
(* Mails are numbered as they arrive, and mail m is dated 2m, so that a    *)
(* resolve falls between two mails.                                        *)
(***************************************************************************)
EXTENDS Sequences, FiniteSets, Reconcile

CONSTANTS
    MaxMail,         \* bound: mails that arrive
    Old,             \* how many of them are there before the first start
    Matching,        \* the mails that meet the criteria
    CatchUpLimit,    \* catch_up_limit
    Shifts,          \* where a rebuilt mailbox may start its UIDs
    RebuildAlone,    \* TRUE: the mailbox is rebuilt only while the watcher is the only
                     \* thread connected, and no stop follows
    MaxRebuilds, MaxFaults, MaxStops   \* bounds on what goes wrong

ASSUME ImapAssumption ==
    /\ MaxMail \in Nat /\ Old \in 0 .. MaxMail /\ Matching \subseteq 1 .. MaxMail
    /\ CatchUpLimit \in Nat \ {0} /\ Shifts \subseteq Nat
    /\ RebuildAlone \in BOOLEAN
    /\ MaxRebuilds \in Nat /\ MaxFaults \in Nat /\ MaxStops \in Nat

VARIABLES
    arrived,     \* how many mails have arrived
    validity,    \* the mailbox's UIDVALIDITY
    uid,         \* each mail's UID, 0 before it arrives
    born,        \* the UIDVALIDITY under which it arrived
    kv,          \* plugin_kv: uidvalidity and last_uid
    phase,       \* the process: down, starting (start()) or running
    session,     \* the two threads' connections
    queue,       \* the core's queue: the mails emitted and not yet handled
    latch,       \* the rule's latch record
    resolvedAt,  \* when the open incident was resolved, or None
    handled,     \* the mails the core has handled
    excused,     \* the mails a baseline or catch_up_limit leaves out
    lost,        \* the mails the cursor had passed when the process ended unhandled
    rebuilds, faults, stops   \* what is used up of the bounds

server == <<arrived, validity, uid, born, rebuilds>>
latching == <<queue, latch, resolvedAt, handled, lost>>
vars == <<server, kv, phase, session, latching, excused, faults, stops>>

-----------------------------------------------------------------------------
Mails    == 1 .. MaxMail
Threads  == {"watch", "catchup"}
Date(m)  == 2 * m
Present  == 1 .. arrived

(* A connection: where its thread is, the UIDVALIDITY it selected, the UID *)
(* it is about to compare with or to write, and the mails it evaluated.    *)
Session == [pc : {"off", "check", "baseline", "setValidity", "setLast", "new", "search",
                  "advance", "idle", "done"},
            validity : Nat, mark : Nat, got : SUBSET Mails]
Closed  == [pc |-> "off", validity |-> 0, mark |-> 0, got |-> {}]

HighestUid(mails) == IF mails = {} THEN 0
                     ELSE CHOOSE u \in {uid[m] : m \in mails} : \A m \in mails : uid[m] <= u

Goes(t, pc) == session' = [session EXCEPT ![t].pc = pc]

(* The thread may run: the watcher as long as the process, catch_up() only *)
(* while the core is in it.                                                *)
Runs(t, pc) == phase # "down" /\ session[t].pc = pc

(* A server that renumbered the mailbox has dropped the connection.        *)
Connected(t) == session[t].validity = validity

-----------------------------------------------------------------------------
(* _connect and select_folder: the response carries UIDVALIDITY.           *)
Select(t) ==
    /\ Runs(t, "off")
    /\ session' = [session EXCEPT ![t] = [Closed EXCEPT !.pc = "check", !.validity = validity]]
    /\ UNCHANGED <<server, kv, phase, latching, excused, faults, stops>>

(* Mutants of _reconcile_uidvalidity: a cursor without a last_uid is taken *)
(* as good; a stored UIDVALIDITY is never compared again.                  *)
CheckValidityOnly(t) ==
    /\ Runs(t, "check")
    /\ Goes(t, IF kv.uidvalidity = session[t].validity THEN "new" ELSE "baseline")
    /\ UNCHANGED <<server, kv, phase, latching, excused, faults, stops>>

CheckValidityOnce(t) ==
    /\ Runs(t, "check")
    /\ Goes(t, IF kv.last_uid # None THEN "new" ELSE "baseline")
    /\ UNCHANGED <<server, kv, phase, latching, excused, faults, stops>>

(* _reconcile_uidvalidity: the cursor is good, or a new baseline is needed.*)
CheckValidity(t) ==
    /\ Runs(t, "check")
    /\ Goes(t, IF kv.uidvalidity = session[t].validity /\ kv.last_uid # None
               THEN "new" ELSE "baseline")
    /\ UNCHANGED <<server, kv, phase, latching, excused, faults, stops>>

(* _highest_uid: what is in the mailbox now is not an event.               *)
Baseline(t) ==
    /\ Runs(t, "baseline") /\ Connected(t)
    /\ session' = [session EXCEPT ![t].pc = "setValidity", ![t].mark = HighestUid(Present)]
    /\ excused' = excused \cup Present
    /\ UNCHANGED <<server, kv, phase, latching, faults, stops>>

(* Two writes, each a transaction of its own.                              *)
SetValidity(t) ==
    /\ Runs(t, "setValidity")
    /\ kv' = [kv EXCEPT !.uidvalidity = session[t].validity]
    /\ Goes(t, "setLast")
    /\ UNCHANGED <<server, phase, latching, excused, faults, stops>>

SetLast(t) ==
    /\ Runs(t, "setLast")
    /\ kv' = [kv EXCEPT !.last_uid = session[t].mark]
    /\ Goes(t, "new")
    /\ UNCHANGED <<server, phase, latching, excused, faults, stops>>

(* _new_uids reads the cursor ...                                          *)
ReadCursor(t) ==
    /\ Runs(t, "new")
    /\ session' = [session EXCEPT ![t].pc = "search", ![t].mark = kv.last_uid]
    /\ UNCHANGED <<server, kv, phase, latching, excused, faults, stops>>

NewMails(t) == {m \in Present : uid[m] > session[t].mark}

(* The newest catch_up_limit of them.                                      *)
Limited(mails) == {m \in mails : Cardinality({n \in mails : n > m}) < CatchUpLimit}

InOrder(mails) == CHOOSE s \in [1 .. Cardinality(mails) -> mails] :
                      \A j, k \in DOMAIN s : j < k => s[j] < s[k]

(* ... and searches above it.  Nothing new: the watcher goes to IDLE, and  *)
(* catch_up() returns an empty list.                                       *)
NothingNew(t) ==
    /\ Runs(t, "search") /\ Connected(t)
    /\ NewMails(t) = {}
    /\ Goes(t, IF t = "watch" THEN "idle" ELSE "done")
    /\ UNCHANGED <<server, kv, phase, latching, excused, faults, stops>>

(* _process_new: every match is emitted as it is evaluated.                *)
EmitNew ==
    /\ Runs("watch", "search") /\ Connected("watch")
    /\ NewMails("watch") # {}
    /\ LET got == NewMails("watch") \cap Matching
       IN  /\ session' = [session EXCEPT !["watch"].pc = "advance", !["watch"].got = got,
                                         !["watch"].mark = HighestUid(NewMails("watch"))]
           /\ queue' = queue \o InOrder(got)
    /\ UNCHANGED <<server, kv, phase, latch, resolvedAt, handled, lost, excused, faults, stops>>

(* catch_up() collects them instead.                                       *)
CollectNew ==
    /\ Runs("catchup", "search") /\ Connected("catchup")
    /\ NewMails("catchup") # {}
    /\ session' = [session EXCEPT !["catchup"].pc = "advance",
                                  !["catchup"].got = Limited(NewMails("catchup")) \cap Matching,
                                  !["catchup"].mark = HighestUid(Limited(NewMails("catchup")))]
    /\ excused' = excused \cup (NewMails("catchup") \ Limited(NewMails("catchup")))
    /\ UNCHANGED <<server, kv, phase, latching, faults, stops>>

(* Mutant: the cursor moves to the highest UID in the mailbox.             *)
AdvanceToHighest(t) ==
    /\ Runs(t, "advance")
    /\ kv' = [kv EXCEPT !.last_uid = HighestUid(Present)]
    /\ Goes(t, IF t = "watch" THEN "idle" ELSE "done")
    /\ UNCHANGED <<server, phase, latching, excused, faults, stops>>

(* _advance_cursor(max(uids))                                              *)
Advance(t) ==
    /\ Runs(t, "advance")
    /\ kv' = [kv EXCEPT !.last_uid = session[t].mark]
    /\ Goes(t, IF t = "watch" THEN "idle" ELSE "done")
    /\ UNCHANGED <<server, phase, latching, excused, faults, stops>>

(* _idle_loop and _poll_loop: the server says something, or the time to    *)
(* refresh IDLE has come and the watcher connects anew.                    *)
Wakes ==
    /\ Runs("watch", "idle") /\ Connected("watch")
    /\ Goes("watch", "new")
    /\ UNCHANGED <<server, kv, phase, latching, excused, faults, stops>>

Refreshes ==
    /\ Runs("watch", "idle")
    /\ Goes("watch", "off")
    /\ UNCHANGED <<server, kv, phase, latching, excused, faults, stops>>

(* Mutant: start() returns when a call fails.                              *)
WatchEnds ==
    /\ phase # "down" /\ session["watch"].pc \in {"baseline", "search", "idle"}
    /\ ~Connected("watch") \/ faults < MaxFaults
    /\ faults' = IF Connected("watch") THEN faults + 1 ELSE faults
    /\ session' = [session EXCEPT !["watch"] = [Closed EXCEPT !.pc = "done"]]
    /\ UNCHANGED <<server, kv, phase, latching, excused, stops>>

(* A call to the server fails: start() reconnects after a delay.           *)
WatchFails ==
    /\ phase # "down" /\ session["watch"].pc \in {"baseline", "search", "idle"}
    /\ ~Connected("watch") \/ faults < MaxFaults
    /\ faults' = IF Connected("watch") THEN faults + 1 ELSE faults
    /\ session' = [session EXCEPT !["watch"] = Closed]
    /\ UNCHANGED <<server, kv, phase, latching, excused, stops>>

(* What the rule's output reports when it is queried.                      *)
Reports == IF resolvedAt = None THEN {}
           ELSE {[belief |-> "CLEARED", cleared_at |-> resolvedAt]}

(* reconcile(): the rule is resolved with what catch_up() returned, and a  *)
(* push is forced, which opens the incident again if the latch is set.     *)
Reconciled(mails) ==
    LET event   == IF mails = {} THEN None
                   ELSE Date(CHOOSE m \in mails : \A n \in mails : n <= m)
        outcome == ResolveRule(Date(arrived) + 1, latch, event, Reports)
    IN  /\ phase' = "running"
        /\ latch' = outcome
        /\ resolvedAt' = IF outcome.state = "set" THEN None ELSE resolvedAt

(* catch_up() raises: start-up goes on with what is persisted, and the     *)
(* core tries again later (a session that is off while running).           *)
CatchUpFails ==
    /\ phase # "down" /\ session["catchup"].pc \in {"off", "baseline", "search"}
    /\ LET dropped == session["catchup"].pc # "off" /\ ~Connected("catchup")
       IN  /\ dropped \/ faults < MaxFaults
           /\ faults' = IF dropped THEN faults ELSE faults + 1
    /\ session' = [session EXCEPT !["catchup"] = Closed]
    /\ IF phase = "starting" THEN Reconciled({}) ELSE UNCHANGED <<phase, latch, resolvedAt>>
    /\ UNCHANGED <<server, kv, queue, handled, lost, excused, stops>>

(* catch_up() returned during start-up: its events are reconciled.         *)
CatchUpReturns ==
    /\ phase = "starting" /\ session["catchup"].pc = "done"
    /\ Reconciled(session["catchup"].got)
    /\ handled' = handled \cup session["catchup"].got
    /\ session' = [session EXCEPT !["catchup"] = [Closed EXCEPT !.pc = "idle"]]
    /\ UNCHANGED <<server, kv, queue, lost, excused, faults, stops>>

(* _apply_trigger; an incident is opened when the latch was clear.         *)
Trigger(m) ==
    /\ latch' = [latch EXCEPT !.state = "set", !.set_at = Date(m)]
    /\ resolvedAt' = IF latch.state = "set" THEN resolvedAt ELSE None

(* The same from _handle_catch_up_retry: each event as an input event.     *)
CatchUpRetryReturns ==
    /\ phase = "running" /\ session["catchup"].pc = "done"
    /\ LET got == session["catchup"].got
       IN  /\ IF got = {} THEN UNCHANGED <<latch, resolvedAt>>
              ELSE Trigger(CHOOSE m \in got : \A n \in got : n <= m)
           /\ handled' = handled \cup got
    /\ session' = [session EXCEPT !["catchup"] = [Closed EXCEPT !.pc = "idle"]]
    /\ UNCHANGED <<server, kv, phase, queue, lost, excused, faults, stops>>

(* The core handles an emitted mail; not while it is inside catch_up().    *)
HandleInputEvent ==
    /\ phase = "running" /\ session["catchup"].pc \in {"off", "idle"}
    /\ queue # <<>>
    /\ Trigger(Head(queue))
    /\ handled' = handled \cup {Head(queue)}
    /\ queue' = Tail(queue)
    /\ UNCHANGED <<server, kv, phase, session, lost, excused, faults, stops>>

-----------------------------------------------------------------------------
Start ==
    /\ phase = "down"
    /\ phase' = "starting"
    /\ UNCHANGED <<server, kv, session, latching, excused, faults, stops>>

(* The mails emitted or collected.                                         *)
Taken == handled \cup {queue[k] : k \in DOMAIN queue} \cup session["catchup"].got

(* The process ends, in order or not: the queue and the threads are gone.  *)
Stop ==
    /\ phase # "down" /\ stops < MaxStops
    /\ stops' = stops + 1
    /\ phase' = "down"
    /\ RebuildAlone => rebuilds = 0
    /\ session' = [t \in Threads |-> Closed] /\ queue' = <<>>
    /\ lost' = lost \cup {m \in Taken \ handled : uid[m] <= kv.last_uid}
    /\ UNCHANGED <<server, kv, latch, resolvedAt, handled, excused, faults>>

Arrives ==
    /\ arrived < MaxMail
    /\ arrived' = arrived + 1
    /\ uid' = [uid EXCEPT ![arrived + 1] = HighestUid(Present) + 1]
    /\ born' = [born EXCEPT ![arrived + 1] = validity]
    /\ UNCHANGED <<validity, rebuilds, kv, phase, session, latching, excused, faults, stops>>

(* The server rebuilds the mailbox: the same mails under other UIDs.       *)
Rebuild(shift) ==
    /\ rebuilds < MaxRebuilds
    /\ RebuildAlone => phase = "running" /\ session["catchup"].pc = "idle"
    /\ rebuilds' = rebuilds + 1
    /\ validity' = validity + 1
    /\ uid' = [m \in Mails |-> IF m \in Present THEN m + shift ELSE 0]
    /\ excused' = excused \cup Present
    /\ UNCHANGED <<arrived, born, kv, phase, session, latching, faults, stops>>

(* The operator resolves the incident while the daemon is down.            *)
Resolve ==
    /\ phase = "down" /\ latch.state = "set" /\ resolvedAt = None
    /\ resolvedAt' = Date(arrived) + 1
    /\ UNCHANGED <<server, kv, phase, session, queue, latch, handled, lost, excused, faults, stops>>

-----------------------------------------------------------------------------
Init ==
    /\ arrived = Old /\ validity = 1
    /\ uid = [m \in Mails |-> IF m <= Old THEN m ELSE 0]
    /\ born = [m \in Mails |-> 0]
    /\ kv = [uidvalidity |-> None, last_uid |-> None]
    /\ phase = "down"
    /\ session = [t \in Threads |-> Closed]
    /\ queue = <<>> /\ handled = {} /\ excused = {} /\ lost = {}
    /\ latch = [state |-> "clear", set_at |-> None, cleared_at |-> None]
    /\ resolvedAt = None
    /\ rebuilds = 0 /\ faults = 0 /\ stops = 0

Steps(t) ==
    \/ Select(t) \/ CheckValidity(t) \/ Baseline(t) \/ SetValidity(t) \/ SetLast(t)
    \/ ReadCursor(t) \/ NothingNew(t) \/ Advance(t)

Watcher == Steps("watch") \/ EmitNew \/ Wakes \/ Refreshes \/ WatchFails
Core    == \/ Steps("catchup") \/ CollectNew \/ CatchUpFails
           \/ CatchUpReturns \/ CatchUpRetryReturns \/ HandleInputEvent
Outside == Stop \/ Arrives \/ Resolve \/ \E shift \in Shifts : Rebuild(shift)

Next == Watcher \/ Core \/ Start \/ Outside

Spec == Init /\ [][Next]_vars

(* Both threads run and systemd starts the service.                        *)
FairSpec == Spec /\ WF_vars(Watcher) /\ WF_vars(Core) /\ WF_vars(Start)

-----------------------------------------------------------------------------
(* Types of the cursor, the connections and the latch.                     *)
TypeOK ==
    /\ arrived \in 0 .. MaxMail /\ validity \in Nat
    /\ uid \in [Mails -> Nat] /\ born \in [Mails -> Nat]
    /\ kv \in [uidvalidity : Nat \cup {None}, last_uid : Nat \cup {None}]
    /\ phase \in {"down", "starting", "running"}
    /\ session \in [Threads -> Session]
    /\ queue \in Seq(Mails)
    /\ handled \subseteq Mails /\ excused \subseteq Mails /\ lost \subseteq Mails
    /\ latch \in [state : {"set", "clear"}, set_at : Nat \cup {None}, cleared_at : Nat \cup {None}]
    /\ resolvedAt \in Nat \cup {None}

(* The cursor is of the mailbox as it is now: a rebuilt mailbox has its    *)
(* cursor only after both writes.                                          *)
Settled ==
    /\ kv.uidvalidity = validity
    /\ rebuilds = 0 \/ \A t \in Threads : session[t].pc # "setLast"

(* The cursor never passes a mail that nobody took: a matching mail at or  *)
(* below last_uid was emitted or collected, unless a baseline or           *)
(* catch_up_limit left it out.  This holds although two threads move the   *)
(* cursor independently, backwards as well, connections break, and a       *)
(* rebuilt mailbox may number its mails lower than the cursor stood.       *)
CursorPassesNothing ==
    Settled => \A m \in Present \cap Matching :
                  uid[m] <= kv.last_uid => m \in Taken \cup excused \cup lost

(* Messages already in the mailbox are not events (_reconcile_uidvalidity) *)
(* and a mailbox that was rebuilt produces no storm of false events: what  *)
(* a connection evaluates arrived under the UIDVALIDITY it selected.  It   *)
(* needs RebuildAlone: the new UIDVALIDITY and the new last_uid are two    *)
(* writes, and a stop or the other thread in between pairs the new number  *)
(* with the old cursor.                                                    *)
NoFalseEvents ==
    \A t \in Threads : \A m \in session[t].got : born[m] = session[t].validity

(* Every matching mail is handled in the end, whichever thread finds it    *)
(* and however often a connection breaks or the process is restarted.  The *)
(* only ones missing are those the cursor had passed, but the core had not *)
(* handled, when a process ended.                                          *)
EveryMailHandled ==
    \A m \in Matching : (m \in Present) ~> (m \in handled \cup excused \cup lost)

=============================================================================
