--------------------------- MODULE FileInputProofs ---------------------------
(***************************************************************************)
(* Theorems about FileInput.tla, for every set of paths, every quiet       *)
(* period and every bound of the clock.                                    *)
(***************************************************************************)
EXTENDS FileInput, TLAPS

(* A look at the directory: some of the paths, and the files found there.  *)
Found == Files \ {None}
Looks == UNION {[S -> Found] : S \in SUBSET Paths}

Watches == [at : {"off", "waiting", "polling", "emitted"}, left : Looks, all : SUBSET Paths,
            due : SUBSET Paths, late : 0 .. Debounce, path : Paths \cup {None}]

CatchUps == [at : {"off", "looking", "retry"}, left : Looks, got : SUBSET Events,
             since : Time \cup {None}]

Pendings == [file : Found, age : 0 .. Debounce] \cup {None}

(* TypeOK, with the fields it leaves out.                                  *)
Typed ==
    /\ now \in Time /\ lastSeen \in Time \cup {None} /\ known \in Time \cup {None}
    /\ files \in [Paths -> Files \cup {None}] /\ seen \in [Paths -> Files \cup {None}]
    /\ calm \in [Paths -> 0 .. Debounce] /\ pending \in [Paths -> Pendings]
    /\ phase \in {"down", "starting", "running"}
    /\ watch \in Watches /\ (watch.at = "emitted" => watch.path \in DOMAIN watch.left)
    /\ catch \in CatchUps
    /\ reported \subseteq Events /\ lost \subseteq Events

(* The seen-state is covered by the reports, also while the watcher is     *)
(* between emit() and _remember(), and while a catch_up() collects.        *)
ReportInv ==
    /\ RememberedIsReported
    /\ watch.at = "emitted" => Event(watch.path, watch.left[watch.path]) \in reported
    /\ catch.at # "looking" => catch.got = {}

(* f was found age ticks ago: if it is there now, it has been quiet since; *)
(* and if a tick has passed, what is written now is told from it by the    *)
(* time it was modified.                                                   *)
QuietSince(p, f, age) ==
    /\ f = files[p] => calm[p] >= age
    /\ f.mtime <= now
    /\ age > 0 /\ now < MaxTime => f.mtime < now

(* What is pending was found as long ago as it is old, what the poll has   *)
(* before it was found when it looked, and what is due there has been      *)
(* pending for the quiet period.                                           *)
Quiet(p) ==
    /\ files[p] # None => files[p].mtime <= now
    /\ pending[p] # None => QuietSince(p, pending[p].file, pending[p].age)
    /\ watch.at \in {"polling", "emitted"} /\ p \in DOMAIN watch.left =>
          /\ QuietSince(p, watch.left[p], watch.late)
          /\ p \in watch.due /\ pending[p] # None => pending[p].age >= Debounce

QuietInv == \A p \in Paths : Quiet(p)

-----------------------------------------------------------------------------
(* A look at the directory, and what is left of it when a path is taken.   *)
LEMMA LookFacts ==
    ASSUME NEW f \in Looks
    PROVE  DOMAIN f \subseteq Paths /\ \A p \in DOMAIN f : f[p] \in Found
BY DEF Looks

LEMMA LookMade ==
    ASSUME NEW S \in SUBSET Paths, NEW f \in [S -> Found]
    PROVE  f \in Looks
BY DEF Looks

LEMMA WithoutFacts ==
    ASSUME NEW f \in Looks, NEW p
    PROVE  /\ Without(f, p) \in Looks /\ DOMAIN Without(f, p) = DOMAIN f \ {p}
           /\ \A q \in DOMAIN f \ {p} : Without(f, p)[q] = f[q]
<1>1. Without(f, p) \in [DOMAIN f \ {p} -> Found]
  BY LookFacts DEF Without
<1> QED BY <1>1, LookFacts, LookMade DEF Without

LEMMA ObservedFacts ==
    ASSUME Typed
    PROVE  /\ Observed \in Looks /\ DOMAIN Observed \subseteq Paths
           /\ \A p \in DOMAIN Observed : Observed[p] = files[p] /\ files[p] # None
<1>1. Observed \in [{q \in Paths : files[q] # None} -> Found]
  BY DEF Observed, Typed, Found
<1> QED BY <1>1, LookMade DEF Observed

LEMMA EmptyLook == <<>> \in Looks /\ DOMAIN <<>> = {}
<1>1. <<>> \in [{} -> Found]
  OBVIOUS
<1> QED BY <1>1, LookMade

LEMMA EventFacts ==
    ASSUME NEW p \in Paths, NEW f \in Files
    PROVE  Event(p, f) \in Events
BY DEF Event, Events, Files

-----------------------------------------------------------------------------
(* The watcher's local variables after each of the steps that write them.  *)
LEMMA WatchFacts ==
    ASSUME Typed
    PROVE  /\ watch' = Nobody => watch' \in Watches /\ watch'.at = "off"
           /\ watch' = [Nobody EXCEPT !.at = "waiting"] =>
                watch' \in Watches /\ watch'.at = "waiting"
           /\ PollBegins =>
                /\ watch' \in Watches /\ watch'.at = "polling" /\ watch'.late = 0
                /\ watch'.left = Observed
                /\ watch'.due = {p \in Paths : pending[p] # None /\ pending[p].age >= Debounce}
           /\ \A p : Taken(p) =>
                /\ watch' \in Watches /\ watch'.at = watch.at /\ watch'.late = watch.late
                /\ watch'.left = Without(watch.left, p) /\ watch'.due = watch.due
                /\ watch'.path = watch.path
           /\ \A p \in Paths : watch' = [watch EXCEPT !.at = "emitted", !.path = p] =>
                /\ watch' \in Watches /\ watch'.at = "emitted" /\ watch'.late = watch.late
                /\ watch'.left = watch.left /\ watch'.due = watch.due /\ watch'.path = p
           /\ PollRemembers =>
                /\ watch' \in Watches /\ watch'.at = "polling" /\ watch'.late = watch.late
                /\ watch'.left = Without(watch.left, watch.path) /\ watch'.due = watch.due
           /\ watch' = [watch EXCEPT !.late = Older(@)] =>
                /\ watch' \in Watches /\ watch'.at = watch.at /\ watch'.late = Older(watch.late)
                /\ watch'.left = watch.left /\ watch'.due = watch.due /\ watch'.path = watch.path
<1> USE DEF Watches
<1>1. watch \in Watches /\ watch.left \in Looks /\ Debounce \in Nat \ {0}
  BY DebounceAssumption DEF Typed
<1>2. /\ <<>> \in Looks /\ Observed \in Looks /\ DOMAIN Observed \subseteq Paths
      /\ \A p : Without(watch.left, p) \in Looks
  BY <1>1, EmptyLook, ObservedFacts, WithoutFacts
<1>3. watch' = Nobody => watch' \in Watches /\ watch'.at = "off"
  BY <1>1, <1>2 DEF Nobody
<1>4. watch' = [Nobody EXCEPT !.at = "waiting"] => watch' \in Watches /\ watch'.at = "waiting"
  BY <1>1, <1>2 DEF Nobody
<1>5. PollBegins =>
        /\ watch' \in Watches /\ watch'.at = "polling" /\ watch'.late = 0
        /\ watch'.left = Observed
        /\ watch'.due = {p \in Paths : pending[p] # None /\ pending[p].age >= Debounce}
  BY <1>1, <1>2 DEF PollBegins
<1>6. \A p : Taken(p) =>
        /\ watch' \in Watches /\ watch'.at = watch.at /\ watch'.late = watch.late
        /\ watch'.left = Without(watch.left, p) /\ watch'.due = watch.due
        /\ watch'.path = watch.path
  BY <1>1, <1>2 DEF Taken
<1>7. \A p \in Paths : watch' = [watch EXCEPT !.at = "emitted", !.path = p] =>
        /\ watch' \in Watches /\ watch'.at = "emitted" /\ watch'.late = watch.late
        /\ watch'.left = watch.left /\ watch'.due = watch.due /\ watch'.path = p
  BY <1>1, <1>2
<1>8. PollRemembers =>
        /\ watch' \in Watches /\ watch'.at = "polling" /\ watch'.late = watch.late
        /\ watch'.left = Without(watch.left, watch.path) /\ watch'.due = watch.due
  <2>1. PollRemembers =>
          watch' = [watch EXCEPT !.at = "polling", !.left = Without(watch.left, watch.path),
                                 !.path = None]
    BY DEF PollRemembers
  <2>2. ASSUME NEW l \in Looks,
               watch' = [watch EXCEPT !.at = "polling", !.left = l, !.path = None]
        PROVE  /\ watch' \in Watches /\ watch'.at = "polling" /\ watch'.late = watch.late
               /\ watch'.left = l /\ watch'.due = watch.due
    BY <1>1, <2>2
  <2> QED BY <1>2, <2>1, <2>2
<1>9. watch' = [watch EXCEPT !.late = Older(@)] =>
        /\ watch' \in Watches /\ watch'.at = watch.at /\ watch'.late = Older(watch.late)
        /\ watch'.left = watch.left /\ watch'.due = watch.due /\ watch'.path = watch.path
  BY <1>1, <1>2 DEF Older
<1> QED BY <1>3, <1>4, <1>5, <1>6, <1>7, <1>8, <1>9

(* The same for the core's catch_up().                                     *)
LEMMA CatchFacts ==
    ASSUME Typed
    PROVE  /\ catch' = NoCatchUp => catch' \in CatchUps /\ catch'.at = "off" /\ catch'.got = {}
           /\ CatchUpBegins =>
                /\ catch' \in CatchUps /\ catch.at \in {"off", "retry"} /\ catch'.at = "looking"
                /\ catch'.got \in {{}, catch.got}
                /\ catch.at = "off" => catch'.got = {}
           /\ \A p : CatchUpKnown(p) \/ CatchUpSkips(p) =>
                catch' \in CatchUps /\ catch'.at = catch.at /\ catch'.got = catch.got
           /\ \A p : CatchUpCollects(p) =>
                /\ catch' \in CatchUps /\ catch'.at = catch.at
                /\ catch'.got = catch.got \cup {Event(p, catch.left[p])}
           /\ CatchUpRaises =>
                catch' \in CatchUps /\ catch'.at = "retry" /\ catch'.got = {}
           /\ \A p : Looking(p) => p \in Paths /\ catch.left[p] \in Files
<1> USE DEF CatchUps
<1>1. catch \in CatchUps /\ catch.left \in Looks /\ lastSeen \in Time \cup {None}
  BY DEF Typed
<1>2. /\ <<>> \in Looks /\ Observed \in Looks
      /\ \A p : Without(catch.left, p) \in Looks
  BY <1>1, EmptyLook, ObservedFacts, WithoutFacts
<1>3. \A p : Looking(p) => p \in Paths /\ catch.left[p] \in Files
  BY <1>1, LookFacts DEF Looking, Found
<1>4. catch' = NoCatchUp => catch' \in CatchUps /\ catch'.at = "off" /\ catch'.got = {}
  BY <1>1, <1>2 DEF NoCatchUp
<1>5. CatchUpBegins =>
        /\ catch' \in CatchUps /\ catch.at \in {"off", "retry"} /\ catch'.at = "looking"
        /\ catch'.got \in {{}, catch.got}
        /\ catch.at = "off" => catch'.got = {}
  <2>1. CatchUpBegins =>
          \/ /\ catch.at = "off"
             /\ catch' = [at |-> "looking", left |-> Observed, got |-> {}, since |-> lastSeen]
          \/ /\ catch.at = "retry"
             /\ catch' = [catch EXCEPT !.at = "looking", !.left = Observed]
    BY DEF CatchUpBegins
  <2>2. ASSUME NEW l \in Looks,
               catch' = [at |-> "looking", left |-> l, got |-> {}, since |-> lastSeen]
        PROVE  catch' \in CatchUps /\ catch'.at = "looking" /\ catch'.got = {}
    BY <1>1, <2>2
  <2>3. ASSUME NEW l \in Looks, catch' = [catch EXCEPT !.at = "looking", !.left = l]
        PROVE  catch' \in CatchUps /\ catch'.at = "looking" /\ catch'.got = catch.got
    BY <1>1, <2>3
  <2> QED BY <1>2, <2>1, <2>2, <2>3
<1>6. \A p : CatchUpKnown(p) \/ CatchUpSkips(p) =>
        catch' \in CatchUps /\ catch'.at = catch.at /\ catch'.got = catch.got
  BY <1>1, <1>2 DEF CatchUpKnown, CatchUpSkips
<1>7. ASSUME NEW p, CatchUpCollects(p)
      PROVE  /\ catch' \in CatchUps /\ catch'.at = catch.at
             /\ catch'.got = catch.got \cup {Event(p, catch.left[p])}
  <2>1. /\ Looking(p)
        /\ catch' = [catch EXCEPT !.left = Without(catch.left, p),
                                  !.got = catch.got \cup {Event(p, catch.left[p])}]
    BY <1>7 DEF CatchUpCollects
  <2>2. Event(p, catch.left[p]) \in Events
    BY <1>3, <2>1, EventFacts
  <2> QED BY <1>1, <1>2, <2>1, <2>2
<1>8. CatchUpRaises => catch' \in CatchUps /\ catch'.at = "retry" /\ catch'.got = {}
  BY <1>1, <1>2 DEF CatchUpRaises
<1> QED BY <1>3, <1>4, <1>5, <1>6, <1>7, <1>8

(* A path that the poll takes is one of the paths, with the file it found. *)
LEMMA PollFacts ==
    ASSUME Typed
    PROVE  /\ \A p \in DOMAIN watch.left : p \in Paths /\ watch.left[p] \in Found
           /\ watch.at = "emitted" => watch.path \in DOMAIN watch.left
           /\ watch.late \in 0 .. Debounce
BY LookFacts DEF Typed, Watches

LEMMA OlderFacts ==
    ASSUME NEW age \in 0 .. Debounce
    PROVE  /\ Older(age) \in 0 .. Debounce /\ age <= Older(age) /\ Older(age) > 0
           /\ age >= Debounce => Older(age) >= Debounce
           /\ \A b \in 0 .. Debounce : age <= b => Older(age) <= Older(b)
BY DebounceAssumption DEF Older

LEMMA ChangeTypes ==
    ASSUME Typed, NEW p \in Paths, NEW f \in Files \cup {None}, Change(p, f)
    PROVE  Typed'
<1>1. /\ files' = [files EXCEPT ![p] = f] /\ calm' = [calm EXCEPT ![p] = 0]
      /\ UNCHANGED <<now, settings, seen, lastSeen, phase, memory, history>>
  BY DEF Change
<1>2. files' \in [Paths -> Files \cup {None}] /\ calm' \in [Paths -> 0 .. Debounce]
  BY <1>1, DebounceAssumption DEF Typed
<1> QED BY <1>1, <1>2 DEF Typed, memory, history

-----------------------------------------------------------------------------
(* The files, and what is remembered of them, after a step.                *)
LEMMA TypeStep ==
    ASSUME Typed, [Next]_vars
    PROVE  Typed'
<1> USE WatchFacts, CatchFacts, PollFacts, DebounceAssumption DEF disk, memory, history
<1>1. \A p \in Paths : [file |-> watch.left[p], age |-> watch.late] \in Pendings
                         \/ p \notin DOMAIN watch.left
  BY DEF Pendings
<1>2. CASE PollBegins \/ PollRaises \/ MaybeWriteLastSeen \/ UNCHANGED vars
  BY <1>2 DEF PollBegins, PollRaises, MaybeWriteLastSeen, vars, Typed, InLoop
<1>3. ASSUME NEW p \in Paths, PollKnown(p) \/ PollChanged(p) \/ PollQuiet(p)
      PROVE  Typed'
  <2>1. /\ Taken(p) /\ Polling(p) /\ watch.at = "polling"
        /\ UNCHANGED <<now, disk, settings, seen, lastSeen, phase, catch, faults, stops, history>>
    BY <1>3 DEF PollKnown, PollChanged, PollQuiet, Polling
  <2>2. pending' \in [Paths -> Pendings]
    <3>1. pending' = pending \/ Forget(p)
            \/ pending' = [pending EXCEPT ![p] = [file |-> watch.left[p], age |-> watch.late]]
      BY <1>3 DEF PollKnown, PollChanged, PollQuiet
    <3>2. [file |-> watch.left[p], age |-> watch.late] \in Pendings /\ None \in Pendings
      BY <1>1, <2>1 DEF Polling, Pendings
    <3> QED BY <3>1, <3>2 DEF Forget, Typed
  <2> QED BY <2>1, <2>2 DEF Typed
<1>4. ASSUME NEW p \in Paths, PollEmits(p)
      PROVE  Typed'
  <2>1. /\ watch' = [watch EXCEPT !.at = "emitted", !.path = p] /\ p \in DOMAIN watch.left
        /\ reported' = reported \cup {Event(p, watch.left[p])}
        /\ UNCHANGED <<now, disk, settings, seen, lastSeen, phase, pending, catch, lost, known>>
    BY <1>4 DEF PollEmits, Polling
  <2>2. Event(p, watch.left[p]) \in Events
    BY <2>1, EventFacts DEF Found
  <2> QED BY <2>1, <2>2 DEF Typed
<1>5. CASE PollRemembers
  <2>1. /\ watch.at = "emitted" /\ seen' = [seen EXCEPT ![watch.path] = watch.left[watch.path]]
        /\ pending' = [pending EXCEPT ![watch.path] = None]
        /\ UNCHANGED <<now, disk, settings, lastSeen, phase, catch, history>>
    BY <1>5 DEF PollRemembers, Forget
  <2>2. seen' \in [Paths -> Files \cup {None}] /\ pending' \in [Paths -> Pendings]
    BY <2>1 DEF Typed, Pendings, Found
  <2> QED BY <1>5, <2>1, <2>2 DEF Typed
<1>6. CASE PollEnds \/ WatcherDies
  <2>1. pending' \in [Paths -> Pendings]
    BY <1>6 DEF PollEnds, WatcherDies, Typed, Pendings
  <2> QED BY <1>6, <2>1 DEF PollEnds, WatcherDies, Typed
<1>7. CASE CatchUpBegins
  BY <1>7 DEF CatchUpBegins, Typed
<1>8. ASSUME NEW p \in Paths, CatchUpKnown(p) \/ CatchUpSkips(p) \/ CatchUpCollects(p)
      PROVE  Typed'
  <2>1. /\ Looking(p) /\ (seen' = seen \/ seen' = [seen EXCEPT ![p] = catch.left[p]])
        /\ UNCHANGED <<now, disk, settings, lastSeen, phase, watch, pending, reported, lost, known>>
    BY <1>8 DEF CatchUpKnown, CatchUpSkips, CatchUpCollects
  <2>2. seen' \in [Paths -> Files \cup {None}] /\ catch' \in CatchUps
    BY <1>8, <2>1 DEF Typed
  <2> QED BY <2>1, <2>2 DEF Typed
<1>9. CASE CatchUpReturns \/ CatchUpRaises
  <2>1. catch.got \subseteq Events
    BY DEF Typed, CatchUps
  <2>2. catch' \in CatchUps
    BY <1>9 DEF CatchUpReturns
  <2> QED BY <1>9, <2>1, <2>2 DEF CatchUpReturns, CatchUpRaises, Typed
<1>10. CASE Start
  BY <1>10 DEF Start, Typed
<1>11. CASE Stop \/ Crash
  <2>1. catch.got \subseteq Events /\ pending' \in [Paths -> Pendings]
    BY <1>11 DEF Typed, CatchUps, Stop, Crash, Gone, Pendings
  <2> QED BY <1>11, <2>1 DEF Stop, Crash, Gone, Typed
<1>12. CASE Tick
  <2>1. \A age \in 0 .. Debounce : Older(age) \in 0 .. Debounce
    BY OlderFacts
  <2>2. ASSUME NEW p \in Paths, pending[p] # None
        PROVE  [pending[p] EXCEPT !.age = Older(pending[p].age)] \in Pendings
    BY <2>1, <2>2 DEF Typed, Pendings
  <2>3. pending' \in [Paths -> Pendings]
    BY <1>12, <2>2 DEF Tick, Pendings
  <2>4. calm' \in [Paths -> 0 .. Debounce]
    BY <1>12, <2>1 DEF Tick, Typed
  <2>5. now' \in Time
    <3> HIDE WatchFacts, CatchFacts, PollFacts
    <3> QED BY <1>12 DEF Tick, Typed, Time
  <2> QED BY <1>12, <2>3, <2>4, <2>5 DEF Tick, Typed
<1>13. ASSUME NEW p \in Paths, NEW size \in Sizes, Write(p, size)
       PROVE  Typed'
  <2>1. [mtime |-> now, size |-> size] \in Files
    BY DEF Files, Typed
  <2> QED BY <1>13, <2>1, ChangeTypes DEF Write
<1>14. ASSUME NEW p \in Paths, Remove(p)
       PROVE  Typed'
  BY <1>14, ChangeTypes DEF Remove
<1>15. CASE Purge
  BY <1>15 DEF Purge, Typed
<1> QED BY <1>2, <1>3, <1>4, <1>5, <1>6, <1>7, <1>8, <1>9, <1>10, <1>11, <1>12, <1>13, <1>14, <1>15
        DEF Next, Watcher, Core, Faults, Outside

-----------------------------------------------------------------------------
(* What was reported, or collected, or passed over.                        *)
Collected  == reported \cup catch.got \cup lost
Covered(e) == e \in Collected \/ \E s \in skipped : s.event = e

(* No step takes anything out of these; a step that empties the collection *)
(* of a catch_up() hands it on.                                            *)
LEMMA CoverGrows ==
    ASSUME Typed, ReportInv, [Next]_vars
    PROVE  /\ Collected \subseteq Collected' /\ skipped \subseteq skipped'
           /\ reported \subseteq reported' /\ (catch'.at # "looking" => catch'.got = {})
<1> USE CatchFacts DEF Collected, ReportInv, disk, memory, history
<1>1. CASE CatchUpBegins
  BY <1>1 DEF CatchUpBegins
<1>2. ASSUME NEW p \in Paths, CatchUpKnown(p) \/ CatchUpSkips(p) \/ CatchUpCollects(p)
      PROVE  /\ Collected \subseteq Collected' /\ skipped \subseteq skipped'
             /\ reported \subseteq reported' /\ catch'.at = "looking"
  <2>1. catch.at = "looking" /\ UNCHANGED <<reported, lost>>
    BY <1>2 DEF CatchUpKnown, CatchUpSkips, CatchUpCollects, Looking
  <2>2. skipped \subseteq skipped'
    BY <1>2 DEF CatchUpKnown, CatchUpSkips, CatchUpCollects
  <2> QED BY <1>2, <2>1, <2>2
<1>3. CASE CatchUpReturns \/ CatchUpRaises
  BY <1>3 DEF CatchUpReturns, CatchUpRaises
<1>4. CASE Stop \/ Crash
  BY <1>4 DEF Stop, Crash, Gone
<1>5. CASE \/ PollBegins \/ PollRaises \/ PollRemembers \/ PollEnds \/ WatcherDies
           \/ MaybeWriteLastSeen \/ Start \/ Tick \/ Purge \/ UNCHANGED vars
  BY <1>5 DEF PollBegins, PollRaises, PollRemembers, PollEnds, WatcherDies, MaybeWriteLastSeen,
     Start, Tick, Purge, vars
<1>6. ASSUME NEW p \in Paths,
             PollKnown(p) \/ PollChanged(p) \/ PollQuiet(p) \/ PollEmits(p)
      PROVE  UNCHANGED <<catch, lost, skipped>> /\ reported \subseteq reported'
  BY <1>6 DEF PollKnown, PollChanged, PollQuiet, PollEmits
<1>7. ASSUME NEW p \in Paths, NEW f, Change(p, f)
      PROVE  UNCHANGED <<catch, lost, skipped, reported>>
  BY <1>7 DEF Change
<1> QED BY <1>1, <1>2, <1>3, <1>4, <1>5, <1>6, <1>7
        DEF Next, Watcher, Core, Faults, Outside, Write, Remove

(* Every step keeps what is remembered among them: it is remembered only   *)
(* after it was emitted, or with being collected or passed over.           *)
LEMMA ReportStep ==
    ASSUME Typed, ReportInv, [Next]_vars
    PROVE  ReportInv'
<1> DEFINE After(e) == e \in Collected' \/ \E s \in skipped' : s.event = e
<1>1. RememberedIsReported <=> \A p \in Paths : seen[p] # None => Covered(Event(p, seen[p]))
  BY DEF RememberedIsReported, Covered, Collected
<1>2. RememberedIsReported' <=> \A p \in Paths : seen'[p] # None => After(Event(p, seen'[p]))
  BY DEF RememberedIsReported, Collected, Event
<1>3. \A e : Covered(e) => After(e)
  BY CoverGrows DEF Covered
<1>4. /\ reported \subseteq reported' /\ reported' \subseteq Collected'
      /\ catch'.at # "looking" => catch'.got = {}
  BY CoverGrows DEF Collected
<1>5. watch.at = "emitted" => Event(watch.path, watch.left[watch.path]) \in reported
  BY DEF ReportInv
<1> HIDE DEF After
<1>6. ASSUME NEW p \in Paths, NEW f \in Files,
             seen' = [seen EXCEPT ![p] = f], After(Event(p, f))
      PROVE  RememberedIsReported'
  BY <1>1, <1>2, <1>3, <1>6 DEF ReportInv, Typed
<1>7. seen' = seen => RememberedIsReported'
  BY <1>1, <1>2, <1>3 DEF ReportInv
<1>8. CASE PollRemembers
  <2>1. /\ seen' = [seen EXCEPT ![watch.path] = watch.left[watch.path]] /\ watch.at = "emitted"
        /\ watch'.at = "polling"
    BY <1>8, WatchFacts DEF PollRemembers
  <2>2. watch.path \in Paths /\ watch.left[watch.path] \in Files
    BY <2>1, PollFacts DEF Found
  <2>3. After(Event(watch.path, watch.left[watch.path]))
    BY <1>4, <1>5, <2>1 DEF After
  <2> QED BY <1>4, <1>6, <2>1, <2>2, <2>3 DEF ReportInv
<1>9. ASSUME NEW p \in Paths, CatchUpSkips(p) \/ CatchUpCollects(p)
      PROVE  ReportInv'
  <2>1. /\ seen' = [seen EXCEPT ![p] = catch.left[p]] /\ Looking(p) /\ UNCHANGED <<watch, reported>>
    BY <1>9 DEF CatchUpSkips, CatchUpCollects, history
  <2>2. catch.left[p] \in Files
    BY <2>1, CatchFacts
  <2>3. After(Event(p, catch.left[p]))
    <3>1. CASE CatchUpSkips(p)
      <4> DEFINE s == [event |-> Event(p, catch.left[p]), known |-> known]
      <4>1. s \in skipped' /\ s.event = Event(p, catch.left[p])
        BY <3>1 DEF CatchUpSkips
      <4> QED BY <4>1 DEF After
    <3>2. CASE CatchUpCollects(p)
      BY <3>2, CatchFacts DEF After, Collected
    <3> QED BY <1>9, <3>1, <3>2
  <2> QED BY <1>4, <1>5, <1>6, <2>1, <2>2, <2>3 DEF ReportInv
<1>10. ASSUME NEW p \in Paths, PollEmits(p)
       PROVE  ReportInv'
  <2>1. /\ watch'.path = p /\ watch'.left = watch.left /\ seen' = seen
        /\ reported' = reported \cup {Event(p, watch.left[p])}
    BY <1>10, WatchFacts DEF PollEmits
  <2> QED BY <1>4, <1>7, <2>1 DEF ReportInv, Event
<1>11. CASE Purge
  <2>1. RememberedIsReported' /\ UNCHANGED <<watch, reported>>
    BY <1>11 DEF Purge, RememberedIsReported, memory, history
  <2> QED BY <1>4, <1>5, <2>1 DEF ReportInv
<1>12. CASE \/ /\ UNCHANGED <<seen, watch>>
            \/ UNCHANGED seen /\ watch'.at # "emitted"
            \/ UNCHANGED seen /\ watch' = [watch EXCEPT !.late = Older(@)]
  <2>1. watch'.at = "emitted" =>
           watch.at = "emitted" /\ watch'.path = watch.path /\ watch'.left = watch.left
    BY <1>12, WatchFacts
  <2> QED BY <1>4, <1>5, <1>7, <1>12, <2>1 DEF ReportInv, Event
<1>13. CASE \/ PollBegins \/ PollRaises \/ PollEnds \/ WatcherDies
            \/ CatchUpBegins \/ CatchUpReturns \/ CatchUpRaises
            \/ MaybeWriteLastSeen \/ Start \/ Stop \/ Crash \/ UNCHANGED vars
            \/ \E p \in Paths : CatchUpKnown(p)
  BY <1>12, <1>13, WatchFacts DEF PollBegins, PollRaises, PollEnds, WatcherDies, CatchUpBegins,
     CatchUpReturns, CatchUpRaises, MaybeWriteLastSeen, Start, Stop, Crash, Gone, CatchUpKnown,
     vars, memory
<1>14. CASE Tick
  BY <1>12, <1>14 DEF Tick
<1>15. ASSUME NEW p \in Paths, PollKnown(p) \/ PollChanged(p) \/ PollQuiet(p)
       PROVE  ReportInv'
  <2>1. Taken(p) /\ watch.at = "polling" /\ seen' = seen
    BY <1>15 DEF PollKnown, PollChanged, PollQuiet, Polling
  <2> QED BY <1>12, <2>1, WatchFacts
<1>16. ASSUME NEW p \in Paths, NEW f, Change(p, f)
       PROVE  ReportInv'
  BY <1>12, <1>16 DEF Change, memory
<1> QED BY <1>8, <1>9, <1>10, <1>11, <1>13, <1>14, <1>15, <1>16
        DEF Next, Watcher, Core, Faults, Outside, Write, Remove

-----------------------------------------------------------------------------
(* A tick makes what was found, and the quiet since, older together.       *)
LEMMA QuietTick ==
    ASSUME Typed, Tick, NEW p \in Paths, NEW f \in Found, NEW age \in 0 .. Debounce,
           QuietSince(p, f, age)
    PROVE  /\ f = files'[p] => calm'[p] >= Older(age)
           /\ f.mtime <= now'
           /\ Older(age) > 0 /\ now' < MaxTime => f.mtime < now'
<1>1. files' = files /\ calm'[p] = Older(calm[p]) /\ calm[p] \in 0 .. Debounce
  BY DEF Tick, Typed
<1>2. /\ now \in Nat /\ now <= MaxTime /\ MaxTime \in Nat /\ f.mtime \in Nat
      /\ now' = IF now < MaxTime THEN now + 1 ELSE now
  BY DebounceAssumption DEF Tick, Typed, Time, Found, Files
<1>3. f = files'[p] => calm'[p] >= Older(age)
  <2>1. calm[p] >= age => Older(calm[p]) >= Older(age)
    BY <1>1, OlderFacts
  <2> QED BY <1>1, <2>1 DEF QuietSince
<1> QED BY <1>2, <1>3 DEF QuietSince

(* A change at a time later than the look cannot bring back what it found: *)
(* a file is modified when it is written.                                  *)
LEMMA QuietChange ==
    ASSUME Typed, NEW p \in Paths, NEW q \in Paths, NEW g, Change(q, g),
           g = None \/ g.mtime = now,
           NEW f \in Found, NEW age \in 0 .. Debounce, QuietSince(p, f, age)
    PROVE  QuietSince(p, f, age)'
<1>1. /\ now' = now /\ now < MaxTime /\ now \in Nat /\ f.mtime \in Nat
      /\ files' = [files EXCEPT ![q] = g] /\ calm' = [calm EXCEPT ![q] = 0]
  BY DebounceAssumption DEF Change, Typed, Time, Found, Files
<1>2. CASE p = q /\ f = g
  <2>1. age = 0 /\ calm'[p] = 0
    BY <1>1, <1>2 DEF QuietSince, Found, Typed
  <2> QED BY <1>1, <2>1 DEF QuietSince
<1>3. CASE p = q /\ f # g
  BY <1>1, <1>3 DEF QuietSince, Typed
<1>4. CASE p # q
  BY <1>1, <1>4 DEF QuietSince, Typed
<1> QED BY <1>2, <1>3, <1>4

(* What was pending, or found, keeps being quiet through every other step. *)
LEMMA QuietKept ==
    ASSUME UNCHANGED <<now, files, calm>>, NEW p, NEW f, NEW age, QuietSince(p, f, age)
    PROVE  QuietSince(p, f, age)'
BY DEF QuietSince

LEMMA PendingFacts ==
    ASSUME Typed, NEW p \in Paths, pending[p] # None
    PROVE  pending[p].file \in Found /\ pending[p].age \in 0 .. Debounce
BY DEF Typed, Pendings

LEMMA QuietStep ==
    ASSUME Typed, QuietInv, [Next]_vars
    PROVE  QuietInv'
<1> SUFFICES ASSUME NEW p \in Paths PROVE Quiet(p)'
  BY DEF QuietInv
<1>0. Quiet(p)
  BY DEF QuietInv
<1> USE DEF disk, memory, history
<1>1. CASE /\ UNCHANGED <<now, files, calm>> /\ pending'[p] \in {pending[p], None}
           /\ UNCHANGED watch \/ watch'.at \notin {"polling", "emitted"}
           /\ pending'[p] = pending[p] \/ watch'.at \notin {"polling", "emitted"}
  BY <1>0, <1>1, QuietKept DEF Quiet
<1>2. CASE \/ PollRaises \/ PollEnds \/ WatcherDies
           \/ CatchUpBegins \/ CatchUpReturns \/ CatchUpRaises
           \/ MaybeWriteLastSeen \/ Start \/ Stop \/ Crash \/ Purge \/ UNCHANGED vars
           \/ \E q \in Paths : CatchUpKnown(q) \/ CatchUpSkips(q) \/ CatchUpCollects(q)
  <2>1. CASE PollRaises \/ MaybeWriteLastSeen \/ Purge \/ UNCHANGED vars
    BY <1>1, <2>1 DEF PollRaises, MaybeWriteLastSeen, Purge, vars
  <2>2. CASE CatchUpBegins \/ CatchUpReturns \/ CatchUpRaises
    BY <1>1, <2>2 DEF CatchUpBegins, CatchUpReturns, CatchUpRaises
  <2>3. CASE \E q \in Paths : CatchUpKnown(q) \/ CatchUpSkips(q) \/ CatchUpCollects(q)
    BY <1>1, <2>3 DEF CatchUpKnown, CatchUpSkips, CatchUpCollects
  <2>4. CASE PollEnds
    <3>1. watch'.at = "waiting"
      BY <2>4, WatchFacts DEF PollEnds
    <3>2. pending'[p] \in {pending[p], None} /\ UNCHANGED <<now, files, calm>>
      BY <2>4 DEF PollEnds
    <3> QED BY <1>1, <3>1, <3>2
  <2>5. CASE WatcherDies \/ Stop \/ Crash
    <3>1. watch'.at = "off"
      BY <2>5, WatchFacts DEF WatcherDies, Stop, Crash, Gone
    <3>2. pending'[p] \in {pending[p], None} /\ UNCHANGED <<now, files, calm>>
      BY <2>5 DEF WatcherDies, Stop, Crash, Gone
    <3> QED BY <1>1, <3>1, <3>2
  <2>6. CASE Start
    <3>1. watch'.at = "waiting" /\ UNCHANGED <<now, files, calm, pending>>
      BY <2>6, WatchFacts DEF Start
    <3> QED BY <1>1, <3>1
  <2> QED BY <1>2, <2>1, <2>2, <2>3, <2>4, <2>5, <2>6
<1>3. CASE PollBegins
  <2>1. /\ watch'.late = 0 /\ watch'.left = Observed /\ UNCHANGED <<now, files, calm, pending>>
        /\ watch'.due = {q \in Paths : pending[q] # None /\ pending[q].age >= Debounce}
    BY <1>3, WatchFacts DEF PollBegins
  <2>2. p \in DOMAIN Observed => Observed[p] = files[p] /\ files[p] # None
    BY ObservedFacts
  <2>3. calm'[p] >= 0
    BY <2>1, DebounceAssumption DEF Typed
  <2>4. p \in DOMAIN Observed => QuietSince(p, Observed[p], 0)
    BY <1>0, <2>1, <2>2, <2>3 DEF QuietSince, Quiet
  <2> QED BY <1>0, <2>1, <2>4 DEF Quiet, QuietSince
<1>4. ASSUME NEW q \in Paths, PollKnown(q) \/ PollChanged(q) \/ PollQuiet(q)
      PROVE  Quiet(p)'
  <2>1. /\ watch'.left = Without(watch.left, q) /\ watch'.at = watch.at
        /\ watch'.late = watch.late /\ watch'.due = watch.due
        /\ watch.at = "polling" /\ q \in DOMAIN watch.left
        /\ UNCHANGED <<now, files, calm>>
    BY <1>4, WatchFacts DEF PollKnown, PollChanged, PollQuiet, Polling
  <2>2. /\ DOMAIN watch'.left = DOMAIN watch.left \ {q}
        /\ \A r \in DOMAIN watch'.left : watch'.left[r] = watch.left[r]
    <3>1. watch.left \in Looks
      BY DEF Typed, Watches
    <3>2. /\ DOMAIN Without(watch.left, q) = DOMAIN watch.left \ {q}
          /\ \A r \in DOMAIN watch.left \ {q} : Without(watch.left, q)[r] = watch.left[r]
      BY <3>1, WithoutFacts
    <3> QED BY <2>1, <3>2
  <2>3. CASE p = q
    <3>1. p \notin DOMAIN watch'.left
      BY <2>2, <2>3
    <3>2. \/ pending'[p] \in {None, pending[p]}
          \/ pending'[p].file = watch.left[p] /\ pending'[p].age = watch.late
      BY <1>4, <2>3 DEF PollKnown, PollChanged, PollQuiet, Forget, Typed
    <3>3. QuietSince(p, watch.left[p], watch.late)
      BY <1>0, <2>1, <2>3 DEF Quiet
    <3> QED BY <1>0, <2>1, <3>1, <3>2, <3>3 DEF Quiet, QuietSince
  <2>4. CASE p # q
    <3>1. pending'[p] = pending[p]
      BY <1>4, <2>4 DEF PollKnown, PollChanged, PollQuiet, Forget, Typed
    <3> QED BY <1>0, <2>1, <2>2, <3>1 DEF Quiet, QuietSince
  <2> QED BY <2>3, <2>4
<1>5. ASSUME NEW q \in Paths, PollEmits(q)
      PROVE  Quiet(p)'
  <2>1. /\ watch'.left = watch.left /\ watch'.late = watch.late /\ watch'.due = watch.due
        /\ watch.at = "polling" /\ UNCHANGED <<now, files, calm, pending>>
    BY <1>5, WatchFacts DEF PollEmits, Polling
  <2> QED BY <1>0, <2>1 DEF Quiet, QuietSince
<1>6. CASE PollRemembers
  <2>1. /\ watch'.left = Without(watch.left, watch.path)
        /\ watch'.late = watch.late /\ watch'.due = watch.due
        /\ watch.at = "emitted" /\ UNCHANGED <<now, files, calm>>
        /\ pending' = [pending EXCEPT ![watch.path] = None]
    BY <1>6, WatchFacts DEF PollRemembers, Forget
  <2>2. /\ DOMAIN watch'.left = DOMAIN watch.left \ {watch.path}
        /\ \A r \in DOMAIN watch'.left : watch'.left[r] = watch.left[r]
    <3>1. watch.left \in Looks
      BY DEF Typed, Watches
    <3>2. /\ DOMAIN Without(watch.left, watch.path) = DOMAIN watch.left \ {watch.path}
          /\ \A r \in DOMAIN watch.left \ {watch.path} : Without(watch.left, watch.path)[r] = watch.left[r]
      BY <3>1, WithoutFacts
    <3> QED BY <2>1, <3>2
  <2>3. pending'[p] = IF p = watch.path THEN None ELSE pending[p]
    BY <2>1 DEF Typed
  <2> QED BY <1>0, <2>1, <2>2, <2>3 DEF Quiet, QuietSince
<1>7. CASE Tick
  <2>1. files' = files /\ now <= now' /\ now \in Nat /\ now' \in Nat
    BY <1>7, DebounceAssumption DEF Tick, Typed, Time
  <2>2. files[p] # None => files[p].mtime <= now'
    <3>1. files[p] # None => files[p].mtime \in Nat
      BY DEF Typed, Files, Time
    <3> QED BY <1>0, <2>1, <3>1 DEF Quiet
  <2>3. pending[p] # None =>
           /\ pending'[p].file = pending[p].file /\ pending'[p].age = Older(pending[p].age)
    BY <1>7, PendingFacts DEF Tick, Typed, Pendings
  <2>4. pending[p] = None => pending'[p] = None
    BY <1>7 DEF Tick
  <2>5. watch'.at \in {"polling", "emitted"} =>
           /\ watch.at \in {"polling", "emitted"} /\ watch'.late = Older(watch.late)
           /\ watch'.left = watch.left /\ watch'.due = watch.due
    BY <1>7, WatchFacts DEF Tick
  <2>6. ASSUME pending[p] # None
        PROVE  /\ pending'[p].file = files'[p] => calm'[p] >= pending'[p].age
               /\ pending'[p].file.mtime <= now'
               /\ pending'[p].age > 0 /\ now' < MaxTime => pending'[p].file.mtime < now'
    <3>1. QuietSince(p, pending[p].file, pending[p].age)
      BY <1>0, <2>6 DEF Quiet
    <3>2. pending[p].file \in Found /\ pending[p].age \in 0 .. Debounce
      BY <2>6, PendingFacts
    <3> QED BY <1>7, <2>3, <2>6, <3>1, <3>2, QuietTick
  <2>7. ASSUME watch'.at \in {"polling", "emitted"}, p \in DOMAIN watch'.left
        PROVE  /\ watch'.left[p] = files'[p] => calm'[p] >= watch'.late
               /\ watch'.left[p].mtime <= now'
               /\ watch'.late > 0 /\ now' < MaxTime => watch'.left[p].mtime < now'
               /\ p \in watch'.due /\ pending'[p] # None => pending'[p].age >= Debounce
    <3>1. /\ QuietSince(p, watch.left[p], watch.late)
          /\ p \in watch.due /\ pending[p] # None => pending[p].age >= Debounce
      BY <1>0, <2>5, <2>7 DEF Quiet
    <3>2. watch.left[p] \in Found /\ watch.late \in 0 .. Debounce
      BY <2>5, <2>7, PollFacts
    <3>3. p \in watch.due /\ pending'[p] # None => pending'[p].age >= Debounce
      <4>1. pending[p] # None /\ pending[p].age >= Debounce => Older(pending[p].age) >= Debounce
        BY PendingFacts, OlderFacts
      <4> QED BY <2>3, <2>4, <3>1, <4>1
    <3> QED BY <1>7, <2>5, <2>7, <3>1, <3>2, <3>3, QuietTick
  <2> QED BY <2>1, <2>2, <2>4, <2>6, <2>7 DEF Quiet, QuietSince
<1>8. ASSUME NEW q \in Paths, NEW g, Change(q, g), g = None \/ g.mtime = now
      PROVE  Quiet(p)'
  <2>1. /\ UNCHANGED <<now, watch, pending>> /\ files' = [files EXCEPT ![q] = g] /\ now \in Nat
    BY <1>8, DebounceAssumption DEF Change, Typed, Time
  <2>2. files'[p] # None => files'[p].mtime <= now'
    BY <1>0, <1>8, <2>1 DEF Quiet, Typed
  <2>3. \A f \in Found : \A age \in 0 .. Debounce : QuietSince(p, f, age) => QuietSince(p, f, age)'
    BY <1>8, QuietChange
  <2>4. pending[p] # None => pending[p].file \in Found /\ pending[p].age \in 0 .. Debounce
    BY PendingFacts
  <2>5. /\ p \in DOMAIN watch.left => watch.left[p] \in Found
        /\ watch.late \in 0 .. Debounce
    BY PollFacts
  <2> QED BY <1>0, <2>1, <2>2, <2>3, <2>4, <2>5 DEF Quiet, QuietSince
<1>9. ASSUME NEW q \in Paths, NEW size \in Sizes, Write(q, size)
      PROVE  Quiet(p)'
  BY <1>8, <1>9 DEF Write
<1>10. ASSUME NEW q \in Paths, Remove(q)
       PROVE  Quiet(p)'
  BY <1>8, <1>10 DEF Remove
<1> QED BY <1>2, <1>3, <1>4, <1>5, <1>6, <1>7, <1>9, <1>10 DEF Next, Watcher, Core, Faults, Outside

-----------------------------------------------------------------------------
LEMMA InitStep == Init => Typed /\ ReportInv /\ QuietInv
<1> SUFFICES ASSUME Init PROVE Typed /\ ReportInv /\ QuietInv
  OBVIOUS
<1> USE DebounceAssumption
<1>1. now = 0 /\ 0 \in Time /\ 0 \in 0 .. Debounce
  BY DEF Init, Time
<1>2. /\ files \in [Paths -> Files \cup {None}]
      /\ \A p \in Paths : files[p] # None => files[p].mtime = 0
  BY <1>1 DEF Init, Files
<1>3. watch \in Watches /\ watch.at = "off" /\ catch \in CatchUps /\ catch.got = {}
  <2>1. watch = Nobody /\ catch = NoCatchUp
    BY DEF Init
  <2>2. Nobody \in Watches /\ Nobody.at = "off" /\ NoCatchUp \in CatchUps /\ NoCatchUp.got = {}
    BY <1>1, EmptyLook DEF Nobody, NoCatchUp, Watches, CatchUps
  <2> QED BY <2>1, <2>2
<1>4. /\ calm \in [Paths -> 0 .. Debounce] /\ pending \in [Paths -> Pendings]
      /\ \A p \in Paths : pending[p] = None /\ seen[p] = None
  BY DEF Init, Pendings
<1>5. Typed
  BY <1>1, <1>2, <1>3, <1>4 DEF Init, Typed
<1> QED BY <1>1, <1>2, <1>3, <1>4, <1>5 DEF ReportInv, RememberedIsReported, QuietInv, Quiet

LEMMA FileInputAlways == Spec => [](Typed /\ ReportInv /\ QuietInv)
<1>1. Typed /\ ReportInv /\ QuietInv /\ [Next]_vars => (Typed /\ ReportInv /\ QuietInv)'
  BY TypeStep, ReportStep, QuietStep
<1> QED BY <1>1, InitStep, PTL DEF Spec

(* Types of the disk, the seen-state, the threads and the history.         *)
THEOREM TypeCorrect == Spec => []TypeOK
<1>1. Typed => TypeOK
  BY LookFacts DEF Typed, TypeOK, Watches, CatchUps, Pendings, Found
<1> QED BY <1>1, FileInputAlways, PTL

(* The seen-state never runs ahead of the reports: not between emit() and  *)
(* _remember(), not when the watcher and catch_up() take the same path,    *)
(* and not in a crash.                                                     *)
THEOREM NothingIsRememberedUnreported == Spec => []RememberedIsReported
BY FileInputAlways, PTL DEF ReportInv

(* No write burst fires in the middle: what the watcher emits, if it is    *)
(* still what is on disk, has not changed for the quiet period.            *)
THEOREM BurstsDoNotFire == Spec => NoEventMidBurst
<1> DEFINE Calm == \A p \in Paths :
                      watch.at = "polling" /\ watch'.at = "emitted" /\ watch'.path = p
                          => files[p] # watch.left[p] \/ calm[p] >= Debounce
<1>1. ASSUME Typed, QuietInv, [Next]_vars PROVE [Calm]_vars
  <2> SUFFICES ASSUME NEW p \in Paths, watch.at = "polling", watch'.at = "emitted",
                      watch'.path = p, files[p] = watch.left[p]
               PROVE  calm[p] >= Debounce
    BY Zenon
  <2> USE <1>1
  <2>1. PollEmits(p)
    <3>1. CASE \/ PollRaises \/ MaybeWriteLastSeen \/ Purge \/ UNCHANGED vars
               \/ CatchUpBegins \/ CatchUpReturns \/ CatchUpRaises
               \/ \E q \in Paths : CatchUpKnown(q) \/ CatchUpSkips(q) \/ CatchUpCollects(q)
      BY <3>1 DEF PollRaises, MaybeWriteLastSeen, Purge, CatchUpBegins, CatchUpReturns,
         CatchUpRaises, CatchUpKnown, CatchUpSkips, CatchUpCollects, memory, vars
    <3>2. CASE PollBegins \/ PollRemembers \/ PollEnds \/ WatcherDies \/ Stop \/ Crash \/ Start
      BY <3>2, WatchFacts DEF PollEnds, WatcherDies, Stop, Crash, Gone, Start
    <3>3. CASE \E q \in Paths : PollKnown(q) \/ PollChanged(q) \/ PollQuiet(q)
      BY <3>3, WatchFacts DEF PollKnown, PollChanged, PollQuiet
    <3>4. CASE Tick \/ \E q \in Paths : Remove(q) \/ \E size \in Sizes : Write(q, size)
      BY <3>4, WatchFacts DEF Tick, Remove, Write, Change, memory
    <3>5. CASE \E q \in Paths : PollEmits(q)
      BY <3>5, WatchFacts DEF PollEmits
    <3> QED BY <3>1, <3>2, <3>3, <3>4, <3>5 DEF Next, Watcher, Core, Faults, Outside
  <2>2. /\ p \in DOMAIN watch.left /\ p \in watch.due
        /\ pending[p] # None /\ pending[p].file = watch.left[p]
    BY <2>1 DEF PollEmits, Polling, StillChanging
  <2>3. QuietSince(p, pending[p].file, pending[p].age) /\ pending[p].age >= Debounce
    BY <2>2 DEF QuietInv, Quiet
  <2>4. pending[p].age \in 0 .. Debounce /\ calm[p] \in 0 .. Debounce
    BY <2>2, PendingFacts DEF Typed
  <2> QED BY <2>2, <2>3, <2>4, DebounceAssumption DEF QuietSince
<1> QED BY <1>1, FileInputAlways, PTL DEF Spec, NoEventMidBurst

=============================================================================
