--------------------------- MODULE ImapInputProofs ---------------------------
(***************************************************************************)
(* Theorems about ImapInput.tla, for every number of mails, every choice   *)
(* of the matching ones and every bound on what goes wrong.                *)
(***************************************************************************)
EXTENDS ImapInput, TLAPS, FiniteSetTheorems, SequenceTheorems, WellFoundedInduction

(* The places at which a thread has read, or may read, the cursor.         *)
Reading == {"new", "search", "advance", "idle", "done"}

(* TypeOK, and what keeps it: a thread reads the cursor only when there is *)
(* one, and the server numbers the mails as they arrive.                   *)
Typed ==
    /\ TypeOK
    /\ \A t \in Threads : session[t].pc \in Reading => kv.last_uid # None
    /\ \A m, n \in Present : m < n => uid[m] < uid[n]

LatchRecord == [state : {"set", "clear"}, set_at : Nat \cup {None}, cleared_at : Nat \cup {None}]

-----------------------------------------------------------------------------
(* A non-empty bounded set of numbers has a largest one.                   *)
LEMMA LargestExists ==
    ASSUME NEW N \in Nat, NEW S, S \subseteq 0 .. N, S # {}
    PROVE  \E t \in S : \A u \in S : u <= t
<1> DEFINE T == {n \in Nat : \E t \in S : n = N - t}
           R == OpToRel(<, Nat)
<1>1. \A t \in S : t \in Nat /\ N - t \in Nat
  OBVIOUS
<1>2. T # {} /\ T \subseteq Nat
  BY <1>1
<1>3. IsWellFoundedOn(R, Nat)
  BY NatLessThanWellFounded
<1>4. PICK x \in T : \A y \in T : ~(<<y, x>> \in R)
  <2> HIDE DEF T, R
  <2> QED BY <1>2, <1>3, WFMin
<1>5. \A y \in T : x <= y
  <2> SUFFICES ASSUME NEW y \in T PROVE x <= y
    OBVIOUS
  <2>1. x \in Nat /\ y \in Nat
    OBVIOUS
  <2>2. ~(y < x)
    BY <1>4, <2>1 DEF OpToRel
  <2> QED BY <2>1, <2>2
<1>6. PICK t \in S : x = N - t
  OBVIOUS
<1>7. \A u \in S : u <= t
  BY <1>1, <1>5, <1>6
<1> QED BY <1>7

LEMMA PresentMails ==
    ASSUME TypeOK
    PROVE  Present \subseteq Mails /\ Present \subseteq Nat /\ Mails \subseteq Nat
BY ImapAssumption DEF TypeOK, Present, Mails

LEMMA LastMail ==
    ASSUME NEW mails, mails \subseteq Mails, mails # {}
    PROVE  \E m \in mails : \A n \in mails : n <= m
<1>1. MaxMail \in Nat /\ mails \subseteq 0 .. MaxMail
  BY ImapAssumption DEF Mails
<1> QED BY <1>1, LargestExists

(* _highest_uid is the UID of one of the mails, and none is above it.      *)
LEMMA HighestFacts ==
    ASSUME Typed, NEW mails, mails \subseteq Present
    PROVE  /\ HighestUid(mails) \in Nat
           /\ mails = {} => HighestUid(mails) = 0
           /\ mails # {} => \E m \in mails : HighestUid(mails) = uid[m]
           /\ \A n \in mails : uid[n] <= HighestUid(mails)
<1>0. mails \subseteq Mails /\ arrived \in Nat /\ \A m \in Mails : m \in Nat /\ uid[m] \in Nat
  BY ImapAssumption DEF Typed, TypeOK, Present, Mails
<1>1. CASE mails = {}
  BY <1>1 DEF HighestUid
<1>2. CASE mails # {}
  <2>1. PICK m \in mails : \A n \in mails : n <= m
    BY <1>0, <1>2, LastMail
  <2>2. \A n \in mails : uid[n] <= uid[m]
    <3> SUFFICES ASSUME NEW n \in mails PROVE uid[n] <= uid[m]
      OBVIOUS
    <3>1. n = m \/ n < m
      BY <1>0, <2>1
    <3> QED BY <1>0, <3>1 DEF Typed
  <2>3. \E u \in {uid[k] : k \in mails} : \A k \in mails : uid[k] <= u
    BY <2>2
  <2> QED BY <1>0, <1>2, <2>3 DEF HighestUid
<1> QED BY <1>1, <1>2

LEMMA FiniteMails ==
    ASSUME NEW k \in Nat, NEW mails, mails \subseteq 1 .. k
    PROVE  IsFiniteSet(mails) /\ Cardinality(mails) \in Nat
<1>1. IsFiniteSet(1 .. k)
  BY FS_Interval
<1> QED BY <1>1, FS_Subset, FS_CardinalityType

(* A set of mails can be put in order: what the loop over the sorted UIDs  *)
(* of _process_new relies on.  The proof looks at the smallest k for which *)
(* some subset of 1 .. k cannot.                                           *)
Ordering(mails, s) ==
    /\ s \in [1 .. Cardinality(mails) -> mails]
    /\ \A j, k \in DOMAIN s : j < k => s[j] < s[k]
    /\ \A m \in mails : \E k \in DOMAIN s : s[k] = m

LEMMA OrderingExists ==
    ASSUME NEW mails, mails \subseteq Mails
    PROVE  \E s : Ordering(mails, s)
<1> DEFINE P(k) == \A M \in SUBSET (1 .. k) : \E s : Ordering(M, s)
           Bad  == {k \in Nat : ~P(k)}
           R    == OpToRel(<, Nat)
<1>1. P(0)
  <2> SUFFICES ASSUME NEW M \in SUBSET (1 .. 0) PROVE \E s : Ordering(M, s)
    OBVIOUS
  <2>1. M = {}
    OBVIOUS
  <2>2. Cardinality(M) = 0
    BY <2>1, FS_EmptySet
  <2>3. Ordering(M, [j \in 1 .. 0 |-> 0])
    BY <2>1, <2>2 DEF Ordering
  <2> QED BY <2>3
<1>2. ASSUME NEW k \in Nat, P(k)
      PROVE  P(k + 1)
  <2> SUFFICES ASSUME NEW M \in SUBSET (1 .. k + 1) PROVE \E s : Ordering(M, s)
    OBVIOUS
  <2>1. CASE k + 1 \notin M
    <3>1. M \in SUBSET (1 .. k)
      BY <2>1
    <3> QED BY <1>2, <3>1
  <2>2. CASE k + 1 \in M
    <3> DEFINE M0 == M \ {k + 1}
               n  == Cardinality(M0)
    <3>1. M0 \in SUBSET (1 .. k)
      OBVIOUS
    <3>2. IsFiniteSet(M0) /\ n \in Nat
      BY <3>1, FiniteMails
    <3>3. Cardinality(M) = n + 1
      <4>1. M = M0 \cup {k + 1} /\ k + 1 \notin M0
        BY <2>2
      <4> QED BY <3>2, <4>1, FS_AddElement
    <3>4. PICK s0 : Ordering(M0, s0)
      BY <1>2, <3>1
    <3> DEFINE s == [j \in 1 .. n + 1 |-> IF j = n + 1 THEN k + 1 ELSE s0[j]]
    <3>5. /\ s0 \in [1 .. n -> M0]
          /\ \A i, j \in 1 .. n : i < j => s0[i] < s0[j]
          /\ \A m \in M0 : \E j \in 1 .. n : s0[j] = m
      BY <3>4 DEF Ordering
    <3> HIDE DEF n
    <3>6. s \in [1 .. n + 1 -> M]
      BY <2>2, <3>2, <3>5
    <3>7. \A i, j \in 1 .. n + 1 : i < j => s[i] < s[j]
      <4> SUFFICES ASSUME NEW i \in 1 .. n + 1, NEW j \in 1 .. n + 1, i < j PROVE s[i] < s[j]
        OBVIOUS
      <4>1. i \in 1 .. n /\ s[i] = s0[i] /\ s0[i] \in M0
        BY <3>2, <3>5
      <4>2. CASE j = n + 1
        <5>1. s[j] = k + 1 /\ s[i] \in 1 .. k
          BY <3>1, <4>1, <4>2
        <5> QED BY <5>1
      <4>3. CASE j \in 1 .. n
        BY <3>2, <3>5, <4>1, <4>3
      <4> QED BY <3>2, <4>2, <4>3
    <3>8. \A m \in M : \E j \in 1 .. n + 1 : s[j] = m
      <4> SUFFICES ASSUME NEW m \in M PROVE \E j \in 1 .. n + 1 : s[j] = m
        OBVIOUS
      <4>1. CASE m = k + 1
        BY <3>2, <4>1
      <4>2. CASE m # k + 1
        BY <3>2, <3>5, <4>2
      <4> QED BY <4>1, <4>2
    <3>9. Ordering(M, s)
      <4>1. Cardinality(M) = n + 1 /\ DOMAIN s = 1 .. n + 1
        BY <3>3 DEF n
      <4> QED BY <3>6, <3>7, <3>8, <4>1 DEF Ordering
    <3> QED BY <3>9
  <2> QED BY <2>1, <2>2
<1>3. Bad = {}
  <2> SUFFICES ASSUME Bad # {} PROVE FALSE
    OBVIOUS
  <2>1. IsWellFoundedOn(R, Nat) /\ Bad \subseteq Nat
    BY NatLessThanWellFounded
  <2>2. PICK k \in Bad : \A j \in Bad : ~(<<j, k>> \in R)
    <3> HIDE DEF Bad, R
    <3> QED BY <2>1, WFMin
  <2>3. k \in Nat /\ ~P(k)
    OBVIOUS
  <2>4. k # 0
    BY <1>1, <2>3
  <2> DEFINE p == k - 1
  <2>5. p \in Nat /\ p + 1 = k /\ p < k
    BY <2>3, <2>4
  <2>6. ~(p \in Bad)
    BY <2>2, <2>3, <2>5 DEF OpToRel
  <2> HIDE DEF p, P
  <2>7. P(p)
    BY <2>5, <2>6
  <2> QED BY <1>2, <2>3, <2>5, <2>7
<1>4. MaxMail \in Nat /\ mails \in SUBSET (1 .. MaxMail)
  BY ImapAssumption DEF Mails
<1> QED BY <1>3, <1>4

LEMMA InOrderFacts ==
    ASSUME NEW mails, mails \subseteq Mails
    PROVE  /\ InOrder(mails) \in Seq(Mails)
           /\ \A m \in mails : \E k \in DOMAIN InOrder(mails) : InOrder(mails)[k] = m
<1>1. MaxMail \in Nat /\ IsFiniteSet(mails) /\ Cardinality(mails) \in Nat
  BY ImapAssumption, FiniteMails DEF Mails
<1> DEFINE s == InOrder(mails)
<1>2. /\ s \in [1 .. Cardinality(mails) -> mails]
      /\ \A j, k \in DOMAIN s : j < k => s[j] < s[k]
  BY OrderingExists DEF InOrder, Ordering
<1> HIDE DEF s
<1>3. s \in Seq(Mails)
  BY <1>1, <1>2
<1>4. s \in Injection(1 .. Cardinality(mails), mails)
  <2> SUFFICES ASSUME NEW a \in 1 .. Cardinality(mails), NEW b \in 1 .. Cardinality(mails),
                      s[a] = s[b]
               PROVE  a = b
    BY <1>2 DEF Injection, IsInjective
  <2>1. s[a] \in Nat /\ s[b] \in Nat
    <3>1. mails \subseteq Nat
      BY <1>1 DEF Mails
    <3> QED BY <1>2, <3>1
  <2> QED BY <1>1, <1>2, <2>1
<1>5. Cardinality(1 .. Cardinality(mails)) = Cardinality(mails)
  BY <1>1, FS_Interval
<1>6. s \in Surjection(1 .. Cardinality(mails), mails)
  BY <1>1, <1>4, <1>5, FS_Injection
<1> QED BY <1>2, <1>3, <1>6 DEF Surjection, s

(* catch_up_limit leaves at least the newest mail.                         *)
LEMMA LimitedFacts ==
    ASSUME NEW mails, mails \subseteq Mails
    PROVE  /\ Limited(mails) \subseteq mails
           /\ mails # {} => Limited(mails) # {}
<1>1. Limited(mails) \subseteq mails
  BY DEF Limited
<1>2. ASSUME mails # {} PROVE Limited(mails) # {}
  <2>1. PICK m \in mails : \A n \in mails : n <= m
    BY <1>2, LastMail
  <2>2. mails \subseteq Nat
    BY ImapAssumption DEF Mails
  <2>3. \A n \in mails : ~(n > m)
    BY <2>1, <2>2
  <2>4. Cardinality({n \in mails : n > m}) < CatchUpLimit
    <3>1. {n \in mails : n > m} = {}
      BY <2>3
    <3> QED BY <3>1, FS_EmptySet, ImapAssumption
  <2> QED BY <2>4 DEF Limited
<1> QED BY <1>1, <1>2

-----------------------------------------------------------------------------
(* resolve_rule and _apply_trigger keep the latch record well formed.      *)
LEMMA ReconciledType ==
    ASSUME TypeOK, NEW mails, mails \subseteq Mails, Reconciled(mails)
    PROVE  phase' = "running" /\ latch' \in LatchRecord /\ resolvedAt' \in Nat \cup {None}
<1> DEFINE event   == IF mails = {} THEN None
                      ELSE Date(CHOOSE m \in mails : \A n \in mails : n <= m)
           now     == Date(arrived) + 1
           cleared == {rep \in Reports : rep.belief = "CLEARED"}
<1>1. event \in Nat \cup {None}
  <2>1. ASSUME mails # {}
        PROVE  (CHOOSE m \in mails : \A n \in mails : n <= m) \in mails
    BY <2>1, LastMail
  <2>2. mails \subseteq Nat
    BY ImapAssumption DEF Mails
  <2>3. \A m \in Nat : Date(m) \in Nat
    BY DEF Date
  <2>4. CASE mails = {}
    BY <2>4
  <2>5. CASE mails # {}
    <3> DEFINE last == CHOOSE m \in mails : \A n \in mails : n <= m
    <3>1. last \in Nat
      BY <2>1, <2>2, <2>5
    <3>2. event = Date(last)
      BY <2>5
    <3> HIDE DEF last, event
    <3> QED BY <2>3, <3>1, <3>2
  <2> QED BY <2>4, <2>5
<1>2. now \in Nat
  BY ImapAssumption DEF TypeOK, Date
<1>3. ClearTime(cleared) \in Nat \cup {None}
  <2> DEFINE known == {rep.cleared_at : rep \in cleared} \ {None}
  <2>1. known = {} \/ (known = {resolvedAt} /\ resolvedAt \in Nat)
    BY DEF Reports, TypeOK
  <2> HIDE DEF known, cleared
  <2>2. CASE known = {}
    BY <2>2 DEF ClearTime, known
  <2>3. CASE known = {resolvedAt} /\ resolvedAt \in Nat
    <3>1. \E t \in known : \A u \in known : u <= t
      BY <2>3
    <3>2. (CHOOSE t \in known : \A u \in known : u <= t) \in known
      BY <3>1
    <3> QED BY <2>3, <3>2 DEF ClearTime, known
  <2> QED BY <2>1, <2>2, <2>3
<1>4. latch \in LatchRecord /\ latch.set_at \in Nat \cup {None}
      /\ latch.cleared_at \in Nat \cup {None} /\ latch.state \in {"set", "clear"}
  BY DEF TypeOK, LatchRecord
<1> HIDE DEF event, now
<1>5. ResolveRule(now, latch, event, Reports) \in LatchRecord
  <2>1. ResolveWithClear(now, latch, event, cleared) \in LatchRecord
    <3> HIDE DEF cleared
    <3> QED BY <1>1, <1>2, <1>3, <1>4 DEF ResolveWithClear, Outcome, LatchRecord
  <2>2. Latest(latch.set_at, event) \in Nat \cup {None}
    BY <1>1, <1>4 DEF Latest
  <2> QED BY <1>1, <1>4, <2>1, <2>2 DEF ResolveRule, Outcome, LatchRecord
<1>6. /\ phase' = "running"
      /\ latch' = ResolveRule(now, latch, event, Reports)
      /\ resolvedAt' = IF latch'.state = "set" THEN None ELSE resolvedAt
  BY DEF Reconciled, now, event
<1> QED BY <1>5, <1>6 DEF TypeOK

LEMMA TriggerType ==
    ASSUME TypeOK, NEW m \in Mails, Trigger(m)
    PROVE  latch' \in LatchRecord /\ resolvedAt' \in Nat \cup {None}
<1>1. Date(m) \in Nat
  BY ImapAssumption DEF Mails, Date
<1> QED BY <1>1 DEF Trigger, TypeOK, LatchRecord

-----------------------------------------------------------------------------
Pcs == {"off", "check", "baseline", "setValidity", "setLast", "new", "search", "advance", "idle",
        "done"}
Cursors == [uidvalidity : Nat \cup {None}, last_uid : Nat \cup {None}]

LEMMA SessionFacts ==
    ASSUME TypeOK, NEW t \in Threads
    PROVE  /\ session[t].pc \in Pcs /\ session[t].validity \in Nat /\ session[t].mark \in Nat
           /\ session[t].got \subseteq Mails
BY DEF TypeOK, Session, Pcs

(* One connection moves.                                                   *)
Becomes(t, pc, v, mark, got) ==
    /\ session' \in [Threads -> Session]
    /\ session'[t].pc = pc /\ session'[t].validity = v
    /\ session'[t].mark = mark /\ session'[t].got = got
    /\ \A u \in Threads : u # t => session'[u] = session[u]

LEMMA MovesSession ==
    ASSUME TypeOK, NEW t \in Threads, NEW pc \in Pcs, NEW v \in Nat, NEW mark \in Nat,
           NEW got \in SUBSET Mails, NEW s \in Session,
           s.pc = pc /\ s.validity = v /\ s.mark = mark /\ s.got = got,
           session' = [session EXCEPT ![t] = s]
    PROVE  Becomes(t, pc, v, mark, got)
<1>2. session \in [Threads -> Session]
  BY DEF TypeOK
<1>3. session' \in [Threads -> Session] /\ session'[t] = s
      /\ \A u \in Threads : u # t => session'[u] = session[u]
  BY <1>2
<1> QED BY <1>3 DEF Becomes

LEMMA GoesFacts ==
    ASSUME TypeOK, NEW t \in Threads, NEW pc \in Pcs, Goes(t, pc)
    PROVE  Becomes(t, pc, session[t].validity, session[t].mark, session[t].got)
<1>1. session \in [Threads -> Session] /\ session[t] \in Session
  BY DEF TypeOK
<1>2. [session[t] EXCEPT !.pc = pc] \in Session
  BY <1>1 DEF Session, Pcs
<1>3. session' = [session EXCEPT ![t] = [session[t] EXCEPT !.pc = pc]]
  BY DEF Goes
<1>4. session' \in [Threads -> Session] /\ session'[t] = [session[t] EXCEPT !.pc = pc]
      /\ \A u \in Threads : u # t => session'[u] = session[u]
  BY <1>1, <1>2, <1>3
<1>5. [session[t] EXCEPT !.pc = pc].pc = pc
      /\ [session[t] EXCEPT !.pc = pc].validity = session[t].validity
      /\ [session[t] EXCEPT !.pc = pc].mark = session[t].mark
      /\ [session[t] EXCEPT !.pc = pc].got = session[t].got
  BY <1>1 DEF Session
<1> QED BY <1>4, <1>5 DEF Becomes

(* What a step must keep to keep the types, apart from the server's.       *)
LEMMA TypedKept ==
    ASSUME Typed, UNCHANGED <<arrived, validity, uid, born>>,
           session' \in [Threads -> Session], kv' \in Cursors,
           kv.last_uid # None => kv'.last_uid # None,
           \A t \in Threads : session'[t].pc \in Reading =>
               session[t].pc \in Reading \/ kv'.last_uid # None,
           phase' \in {"down", "starting", "running"}, queue' \in Seq(Mails),
           handled' \subseteq Mails, excused' \subseteq Mails, lost' \subseteq Mails,
           latch' \in LatchRecord, resolvedAt' \in Nat \cup {None}
    PROVE  Typed'
<1>1. TypeOK'
  BY DEF Typed, TypeOK, LatchRecord, Cursors
<1>2. Present' = Present
  BY DEF Present
<1> QED BY <1>1, <1>2 DEF Typed

(* The same for a step of one connection.                                  *)
LEMMA TypedMove ==
    ASSUME Typed, NEW t \in Threads, NEW pc \in Pcs, NEW v, NEW mark, NEW got,
           Becomes(t, pc, v, mark, got),
           pc \in Reading => session[t].pc \in Reading \/ kv'.last_uid # None,
           kv' \in Cursors, kv.last_uid # None => kv'.last_uid # None,
           UNCHANGED <<arrived, validity, uid, born>>,
           phase' \in {"down", "starting", "running"}, queue' \in Seq(Mails),
           handled' \subseteq Mails, excused' \subseteq Mails, lost' \subseteq Mails,
           latch' \in LatchRecord, resolvedAt' \in Nat \cup {None}
    PROVE  Typed'
<1>1. session' \in [Threads -> Session]
      /\ \A u \in Threads : session'[u].pc \in Reading =>
               session[u].pc \in Reading \/ kv'.last_uid # None
  BY DEF Becomes
<1> QED BY <1>1, TypedKept

-----------------------------------------------------------------------------
(* Where each step takes the connection of its thread.                     *)
Same(t, pc) == Becomes(t, pc, session[t].validity, session[t].mark, session[t].got)

Fresh(t, pc, v) == Becomes(t, pc, v, 0, {})

LEMMA FreshFacts ==
    ASSUME TypeOK, NEW t \in Threads, NEW pc \in Pcs, NEW v \in Nat,
           session' = [session EXCEPT ![t] = [Closed EXCEPT !.pc = pc, !.validity = v]]
    PROVE  Fresh(t, pc, v)
<1>1. [Closed EXCEPT !.pc = pc, !.validity = v] \in Session
      /\ [Closed EXCEPT !.pc = pc, !.validity = v].pc = pc
      /\ [Closed EXCEPT !.pc = pc, !.validity = v].validity = v
      /\ [Closed EXCEPT !.pc = pc, !.validity = v].mark = 0
      /\ [Closed EXCEPT !.pc = pc, !.validity = v].got = {}
  BY DEF Closed, Session, Pcs
<1>2. 0 \in Nat /\ {} \in SUBSET Mails
  OBVIOUS
<1> QED BY <1>1, <1>2, MovesSession DEF Fresh

LEMMA ClosedFacts ==
    ASSUME TypeOK, NEW t \in Threads, NEW pc \in Pcs,
           session' = [session EXCEPT ![t] = [Closed EXCEPT !.pc = pc]]
    PROVE  Fresh(t, pc, 0)
<1>1. [Closed EXCEPT !.pc = pc] \in Session
      /\ [Closed EXCEPT !.pc = pc].pc = pc /\ [Closed EXCEPT !.pc = pc].validity = 0
      /\ [Closed EXCEPT !.pc = pc].mark = 0 /\ [Closed EXCEPT !.pc = pc].got = {}
  BY DEF Closed, Session, Pcs
<1>2. 0 \in Nat /\ {} \in SUBSET Mails
  OBVIOUS
<1> QED BY <1>1, <1>2, MovesSession DEF Fresh

LEMMA ClosesFacts ==
    ASSUME TypeOK, NEW t \in Threads, session' = [session EXCEPT ![t] = Closed]
    PROVE  Fresh(t, "off", 0)
<1>1. Closed \in Session /\ Closed.pc = "off" /\ Closed.validity = 0 /\ Closed.mark = 0
      /\ Closed.got = {}
  BY DEF Closed, Session
<1>2. 0 \in Nat /\ {} \in SUBSET Mails /\ "off" \in Pcs
  BY DEF Pcs
<1> QED BY <1>1, <1>2, MovesSession DEF Fresh

LEMMA SelectMoves ==
    ASSUME TypeOK, NEW t \in Threads, Select(t)
    PROVE  Fresh(t, "check", validity)
BY FreshFacts DEF Select, TypeOK, Pcs

LEMMA BaselineMoves ==
    ASSUME Typed, NEW t \in Threads, Baseline(t)
    PROVE  Becomes(t, "setValidity", session[t].validity, HighestUid(Present), session[t].got)
<1>0. TypeOK /\ HighestUid(Present) \in Nat
  BY HighestFacts DEF Typed
<1>1. session[t] \in Session
  BY <1>0 DEF TypeOK
<1>2. [session[t] EXCEPT !.pc = "setValidity", !.mark = HighestUid(Present)] \in Session
      /\ [session[t] EXCEPT !.pc = "setValidity", !.mark = HighestUid(Present)].pc = "setValidity"
      /\ [session[t] EXCEPT !.pc = "setValidity", !.mark = HighestUid(Present)].validity = session[t].validity
      /\ [session[t] EXCEPT !.pc = "setValidity", !.mark = HighestUid(Present)].mark = HighestUid(Present)
      /\ [session[t] EXCEPT !.pc = "setValidity", !.mark = HighestUid(Present)].got = session[t].got
  BY <1>0, <1>1 DEF Session
<1>3. session' = [session EXCEPT ![t] =
                     [session[t] EXCEPT !.pc = "setValidity", !.mark = HighestUid(Present)]]
  BY <1>0 DEF Baseline, TypeOK
<1>4. session[t].validity \in Nat /\ session[t].got \in SUBSET Mails /\ "setValidity" \in Pcs
  BY <1>0, SessionFacts DEF Pcs
<1> QED BY <1>0, <1>2, <1>3, <1>4, MovesSession

LEMMA ReadCursorMoves ==
    ASSUME Typed, NEW t \in Threads, ReadCursor(t)
    PROVE  /\ Becomes(t, "search", session[t].validity, kv.last_uid, session[t].got)
           /\ kv.last_uid \in Nat
<1>0. TypeOK
  BY DEF Typed
<1>1. session[t] \in Session
  BY <1>0 DEF TypeOK
<1>2. kv.last_uid \in Nat
  BY DEF Typed, TypeOK, ReadCursor, Runs, Reading
<1>3. [session[t] EXCEPT !.pc = "search", !.mark = kv.last_uid] \in Session
      /\ [session[t] EXCEPT !.pc = "search", !.mark = kv.last_uid].pc = "search"
      /\ [session[t] EXCEPT !.pc = "search", !.mark = kv.last_uid].validity = session[t].validity
      /\ [session[t] EXCEPT !.pc = "search", !.mark = kv.last_uid].mark = kv.last_uid
      /\ [session[t] EXCEPT !.pc = "search", !.mark = kv.last_uid].got = session[t].got
  BY <1>1, <1>2 DEF Session
<1>4. session' = [session EXCEPT ![t] = [session[t] EXCEPT !.pc = "search", !.mark = kv.last_uid]]
  BY <1>0 DEF ReadCursor, TypeOK
<1>5. session[t].validity \in Nat /\ session[t].got \in SUBSET Mails /\ "search" \in Pcs
  BY <1>0, SessionFacts DEF Pcs
<1> QED BY <1>0, <1>2, <1>3, <1>4, <1>5, MovesSession

(* Both ways to evaluate new mails: got are the matching ones of those     *)
(* that are taken, and the mark is the highest of these.                   *)
Evaluates(t, taken) ==
    /\ taken \subseteq NewMails(t) /\ taken # {}
    /\ Becomes(t, "advance", session[t].validity, HighestUid(taken), taken \cap Matching)

LEMMA EvaluatesFacts ==
    ASSUME Typed, NEW t \in Threads, NEW taken, taken \subseteq NewMails(t), taken # {},
           session' = [session EXCEPT ![t].pc = "advance", ![t].got = taken \cap Matching,
                                      ![t].mark = HighestUid(taken)]
    PROVE  Evaluates(t, taken)
<1>0. TypeOK /\ taken \subseteq Present
  BY DEF Typed, NewMails
<1>1. session[t] \in Session
  BY <1>0 DEF TypeOK
<1>2. HighestUid(taken) \in Nat
  BY <1>0, HighestFacts
<1>3. session[t].validity \in Nat /\ taken \cap Matching \in SUBSET Mails /\ "advance" \in Pcs
  BY <1>0, SessionFacts, ImapAssumption DEF Pcs, Mails
<1>4. PICK s : s = [session[t] EXCEPT !.pc = "advance", !.got = taken \cap Matching,
                                      !.mark = HighestUid(taken)]
  OBVIOUS
<1>5. s \in Session /\ s.pc = "advance" /\ s.validity = session[t].validity
      /\ s.mark = HighestUid(taken) /\ s.got = taken \cap Matching
  BY <1>1, <1>2, <1>3, <1>4 DEF Session
<1>6. session' = [session EXCEPT ![t] = s]
  BY <1>0, <1>4 DEF TypeOK
<1> QED BY <1>0, <1>2, <1>3, <1>5, <1>6, MovesSession DEF Evaluates

LEMMA EmitMoves ==
    ASSUME Typed, EmitNew
    PROVE  Evaluates("watch", NewMails("watch"))
BY EvaluatesFacts DEF EmitNew, Threads

LEMMA CollectMoves ==
    ASSUME Typed, CollectNew
    PROVE  Evaluates("catchup", Limited(NewMails("catchup")))
<1>1. NewMails("catchup") \subseteq Mails
  BY ImapAssumption DEF NewMails, Present, Mails, Typed, TypeOK
<1> QED BY <1>1, LimitedFacts, EvaluatesFacts DEF CollectNew, Threads

-----------------------------------------------------------------------------
(* A step of one connection that leaves the core and the server alone.     *)
LEMMA TypedThread ==
    ASSUME Typed, NEW t \in Threads, NEW pc \in Pcs, NEW v, NEW mark, NEW got,
           Becomes(t, pc, v, mark, got),
           pc \in Reading => session[t].pc \in Reading \/ kv'.last_uid # None,
           kv' \in Cursors, kv.last_uid # None => kv'.last_uid # None,
           excused' \subseteq Mails,
           UNCHANGED <<server, phase, latching>>
    PROVE  Typed'
<1>1. /\ phase' \in {"down", "starting", "running"} /\ queue' \in Seq(Mails)
      /\ handled' \subseteq Mails /\ lost' \subseteq Mails
      /\ latch' \in LatchRecord /\ resolvedAt' \in Nat \cup {None}
      /\ UNCHANGED <<arrived, validity, uid, born>>
  BY DEF Typed, TypeOK, LatchRecord, latching, server
<1> QED BY <1>1, TypedMove

LEMMA CursorFacts ==
    ASSUME TypeOK
    PROVE  kv \in Cursors /\ kv.uidvalidity \in Nat \cup {None} /\ kv.last_uid \in Nat \cup {None}
BY DEF TypeOK, Cursors

LEMMA SetsLast ==
    ASSUME TypeOK, NEW u \in Nat, kv' = [kv EXCEPT !.last_uid = u]
    PROVE  kv' \in Cursors /\ kv'.last_uid = u /\ kv'.uidvalidity = kv.uidvalidity /\ u # None
BY DEF TypeOK, Cursors, None

LEMMA SetsValidity ==
    ASSUME TypeOK, NEW v \in Nat, kv' = [kv EXCEPT !.uidvalidity = v]
    PROVE  kv' \in Cursors /\ kv'.last_uid = kv.last_uid /\ kv'.uidvalidity = v /\ v # None
BY DEF TypeOK, Cursors, None

LEMMA TypedSteps ==
    ASSUME Typed, NEW t \in Threads, Steps(t)
    PROVE  Typed'
<1>0. TypeOK /\ excused \subseteq Mails /\ Present \subseteq Mails
      /\ session[t].mark \in Nat /\ session[t].validity \in Nat
  <2>1. TypeOK
    BY DEF Typed
  <2> QED BY <2>1, SessionFacts, PresentMails DEF TypeOK
<1>1. CASE Select(t)
  <2>1. Becomes(t, "check", validity, 0, {}) /\ "check" \in Pcs /\ "check" \notin Reading
    BY <1>0, <1>1, SelectMoves DEF Fresh, Pcs, Reading
  <2>2. UNCHANGED <<server, kv, phase, latching, excused>>
    BY <1>1 DEF Select
  <2> QED BY <1>0, <2>1, <2>2, CursorFacts, TypedThread
<1>2. CASE CheckValidity(t)
  <2>1. PICK pc \in {"new", "baseline"} : Goes(t, pc) /\ (pc = "new" => kv.last_uid # None)
    BY <1>2 DEF CheckValidity
  <2>2. Same(t, pc) /\ pc \in Pcs /\ (pc \in Reading => kv.last_uid # None)
    BY <1>0, <2>1, GoesFacts DEF Same, Pcs, Reading
  <2>3. UNCHANGED <<server, kv, phase, latching, excused>>
    BY <1>2 DEF CheckValidity
  <2> QED BY <1>0, <2>2, <2>3, CursorFacts, TypedThread DEF Same
<1>3. CASE Baseline(t)
  <2>1. Becomes(t, "setValidity", session[t].validity, HighestUid(Present), session[t].got)
    BY <1>3, BaselineMoves
  <2>2. UNCHANGED <<server, kv, phase, latching>> /\ excused' \subseteq Mails
        /\ "setValidity" \in Pcs /\ "setValidity" \notin Reading
    BY <1>0, <1>3 DEF Baseline, Pcs, Reading
  <2> QED BY <1>0, <2>1, <2>2, CursorFacts, TypedThread
<1>4. CASE SetValidity(t)
  <2>1. Same(t, "setLast") /\ "setLast" \in Pcs /\ "setLast" \notin Reading
    BY <1>0, <1>4, GoesFacts DEF SetValidity, Same, Pcs, Reading
  <2>2. kv' \in Cursors /\ kv'.last_uid = kv.last_uid
    BY <1>0, <1>4, SetsValidity DEF SetValidity
  <2>3. UNCHANGED <<server, phase, latching, excused>>
    BY <1>4 DEF SetValidity
  <2> QED BY <1>0, <2>1, <2>2, <2>3, TypedThread DEF Same
<1>5. CASE SetLast(t)
  <2>1. Same(t, "new") /\ "new" \in Pcs
    BY <1>0, <1>5, GoesFacts DEF SetLast, Same, Pcs
  <2>2. kv' \in Cursors /\ kv'.last_uid # None
    BY <1>0, <1>5, SetsLast DEF SetLast
  <2>3. UNCHANGED <<server, phase, latching, excused>>
    BY <1>5 DEF SetLast
  <2> QED BY <1>0, <2>1, <2>2, <2>3, TypedThread DEF Same
<1>6. CASE ReadCursor(t)
  <2>1. Becomes(t, "search", session[t].validity, kv.last_uid, session[t].got) /\ "search" \in Pcs
        /\ kv.last_uid # None
    BY <1>6, ReadCursorMoves DEF Pcs, None
  <2>2. UNCHANGED <<server, kv, phase, latching, excused>>
    BY <1>6 DEF ReadCursor
  <2> QED BY <1>0, <2>1, <2>2, CursorFacts, TypedThread
<1>7. CASE NothingNew(t)
  <2>1. PICK pc \in {"idle", "done"} : Goes(t, pc)
    BY <1>7 DEF NothingNew
  <2>2. Same(t, pc) /\ pc \in Pcs /\ session[t].pc \in Reading
    BY <1>0, <1>7, <2>1, GoesFacts DEF Same, Pcs, Reading, NothingNew, Runs
  <2>3. UNCHANGED <<server, kv, phase, latching, excused>>
    BY <1>7 DEF NothingNew
  <2> QED BY <1>0, <2>2, <2>3, CursorFacts, TypedThread DEF Same
<1>8. CASE Advance(t)
  <2>1. PICK pc \in {"idle", "done"} : Goes(t, pc)
    BY <1>8 DEF Advance
  <2>2. Same(t, pc) /\ pc \in Pcs
    BY <1>0, <2>1, GoesFacts DEF Same, Pcs
  <2>3. kv' \in Cursors /\ kv'.last_uid # None
    BY <1>0, <1>8, SetsLast DEF Advance
  <2>4. UNCHANGED <<server, phase, latching, excused>>
    BY <1>8 DEF Advance
  <2> QED BY <1>0, <2>2, <2>3, <2>4, TypedThread DEF Same
<1> QED BY <1>1, <1>2, <1>3, <1>4, <1>5, <1>6, <1>7, <1>8 DEF Steps

LEMMA TypedWatcher ==
    ASSUME Typed, EmitNew \/ Wakes \/ Refreshes \/ WatchFails
    PROVE  Typed'
<1>0. TypeOK /\ excused \subseteq Mails /\ "watch" \in Threads /\ kv \in Cursors
  BY CursorFacts DEF Typed, TypeOK, Threads
<1>1. CASE EmitNew
  <2>1. Becomes("watch", "advance", session["watch"].validity, HighestUid(NewMails("watch")),
                NewMails("watch") \cap Matching)
    BY <1>1, EmitMoves DEF Evaluates
  <2>2. "advance" \in Pcs /\ session["watch"].pc \in Reading
    BY <1>1 DEF EmitNew, Runs, Pcs, Reading
  <2>3. queue' \in Seq(Mails)
    <3>1. NewMails("watch") \cap Matching \subseteq Mails
      BY <1>0, PresentMails DEF NewMails
    <3>2. queue \in Seq(Mails) /\ queue' = queue \o InOrder(NewMails("watch") \cap Matching)
      BY <1>0, <1>1 DEF TypeOK, EmitNew
    <3> QED BY <3>1, <3>2, InOrderFacts, ConcatProperties
  <2>4. UNCHANGED <<server, kv, phase, latch, resolvedAt, handled, lost, excused>>
    BY <1>1 DEF EmitNew
  <2>5. /\ phase' \in {"down", "starting", "running"} /\ handled' \subseteq Mails
        /\ lost' \subseteq Mails /\ latch' \in LatchRecord /\ resolvedAt' \in Nat \cup {None}
        /\ UNCHANGED <<arrived, validity, uid, born>>
    BY <1>0, <2>4 DEF TypeOK, LatchRecord, server
  <2> QED BY <1>0, <2>1, <2>2, <2>3, <2>4, <2>5, TypedMove
<1>2. CASE Wakes
  <2>1. Same("watch", "new") /\ "new" \in Pcs /\ session["watch"].pc \in Reading
    BY <1>0, <1>2, GoesFacts DEF Wakes, Same, Pcs, Reading, Runs
  <2>2. UNCHANGED <<server, kv, phase, latching, excused>>
    BY <1>2 DEF Wakes
  <2> QED BY <1>0, <2>1, <2>2, TypedThread DEF Same
<1>3. CASE Refreshes
  <2>1. Same("watch", "off") /\ "off" \in Pcs /\ "off" \notin Reading
    BY <1>0, <1>3, GoesFacts DEF Refreshes, Same, Pcs, Reading
  <2>2. UNCHANGED <<server, kv, phase, latching, excused>>
    BY <1>3 DEF Refreshes
  <2> QED BY <1>0, <2>1, <2>2, TypedThread DEF Same
<1>4. CASE WatchFails
  <2>1. Fresh("watch", "off", 0) /\ "off" \in Pcs /\ "off" \notin Reading
    BY <1>0, <1>4, ClosesFacts DEF WatchFails, Pcs, Reading
  <2>2. UNCHANGED <<server, kv, phase, latching, excused>>
    BY <1>4 DEF WatchFails
  <2> QED BY <1>0, <2>1, <2>2, TypedThread DEF Fresh
<1> QED BY <1>1, <1>2, <1>3, <1>4

LEMMA TypedCore ==
    ASSUME Typed,
           CollectNew \/ CatchUpFails \/ CatchUpReturns \/ CatchUpRetryReturns \/ HandleInputEvent
    PROVE  Typed'
<1>0. /\ TypeOK /\ excused \subseteq Mails /\ lost \subseteq Mails /\ handled \subseteq Mails
      /\ "catchup" \in Threads /\ kv \in Cursors /\ queue \in Seq(Mails)
      /\ latch \in LatchRecord /\ resolvedAt \in Nat \cup {None}
      /\ phase \in {"down", "starting", "running"}
  BY CursorFacts DEF Typed, TypeOK, Threads, LatchRecord
<1>1. session["catchup"].got \subseteq Mails
  BY <1>0, SessionFacts
<1>2. CASE CollectNew
  <2> DEFINE taken == Limited(NewMails("catchup"))
  <2>1. Becomes("catchup", "advance", session["catchup"].validity, HighestUid(taken),
                taken \cap Matching)
    BY <1>2, CollectMoves DEF Evaluates
  <2>2. "advance" \in Pcs /\ session["catchup"].pc \in Reading
    BY <1>2 DEF CollectNew, Runs, Pcs, Reading
  <2>3. UNCHANGED <<server, kv, phase, latching>> /\ excused' \subseteq Mails
    BY <1>0, <1>2, PresentMails DEF CollectNew, NewMails
  <2> HIDE DEF taken
  <2> QED BY <1>0, <2>1, <2>2, <2>3, TypedThread
<1>3. CASE CatchUpFails
  <2>1. Fresh("catchup", "off", 0) /\ "off" \in Pcs /\ "off" \notin Reading
    BY <1>0, <1>3, ClosesFacts DEF CatchUpFails, Pcs, Reading
  <2>2. /\ phase' \in {"down", "starting", "running"} /\ latch' \in LatchRecord
        /\ resolvedAt' \in Nat \cup {None}
    <3>1. CASE phase = "starting"
      BY <1>0, <1>3, <3>1, ReconciledType DEF CatchUpFails
    <3>2. CASE phase # "starting"
      BY <1>0, <1>3, <3>2 DEF CatchUpFails
    <3> QED BY <3>1, <3>2
  <2>3. UNCHANGED <<arrived, validity, uid, born, kv, queue, handled, lost, excused>>
    BY <1>3 DEF CatchUpFails, server
  <2> QED BY <1>0, <2>1, <2>2, <2>3, TypedMove DEF Fresh
<1>4. CASE CatchUpReturns \/ CatchUpRetryReturns
  <2>1. /\ session["catchup"].pc \in Reading
        /\ session' = [session EXCEPT !["catchup"] = [Closed EXCEPT !.pc = "idle"]]
        /\ handled' = handled \cup session["catchup"].got
        /\ UNCHANGED <<arrived, validity, uid, born, kv, queue, lost, excused>>
    BY <1>4 DEF CatchUpReturns, CatchUpRetryReturns, server, Reading
  <2>2. Fresh("catchup", "idle", 0) /\ "idle" \in Pcs
    BY <1>0, <2>1, ClosedFacts DEF Pcs
  <2>3. /\ phase' \in {"down", "starting", "running"} /\ latch' \in LatchRecord
        /\ resolvedAt' \in Nat \cup {None}
    <3>1. CASE CatchUpReturns
      BY <1>0, <1>1, <3>1, ReconciledType DEF CatchUpReturns
    <3>2. CASE CatchUpRetryReturns
      <4>1. ASSUME session["catchup"].got # {}
            PROVE  (CHOOSE m \in session["catchup"].got : \A n \in session["catchup"].got : n <= m)
                      \in Mails
        BY <1>1, <4>1, LastMail
      <4> QED BY <1>0, <3>2, <4>1, TriggerType DEF CatchUpRetryReturns
    <3> QED BY <1>4, <3>1, <3>2
  <2> QED BY <1>0, <1>1, <2>1, <2>2, <2>3, TypedMove DEF Fresh
<1>5. CASE HandleInputEvent
  <2>1. Head(queue) \in Mails /\ Tail(queue) \in Seq(Mails)
    BY <1>0, <1>5, HeadTailProperties DEF HandleInputEvent
  <2>2. latch' \in LatchRecord /\ resolvedAt' \in Nat \cup {None}
    BY <1>0, <1>5, <2>1, TriggerType DEF HandleInputEvent
  <2>3. /\ handled' \subseteq Mails /\ queue' \in Seq(Mails)
        /\ UNCHANGED <<arrived, validity, uid, born, kv, phase, session, lost, excused>>
    BY <1>0, <1>5, <2>1 DEF HandleInputEvent, server
  <2>4. session' \in [Threads -> Session]
    BY <1>0, <2>3 DEF TypeOK
  <2> QED BY <1>0, <2>2, <2>3, <2>4, TypedKept
<1> QED BY <1>2, <1>3, <1>4, <1>5

(* A mail arrives above all that are there.                                *)
LEMMA ArrivesFacts ==
    ASSUME Typed, Arrives
    PROVE  /\ arrived' \in 0 .. MaxMail
           /\ uid' \in [Mails -> Nat] /\ born' \in [Mails -> Nat]
           /\ Present' = Present \cup {arrived + 1} /\ arrived + 1 \notin Present
           /\ \A m \in Present : uid'[m] = uid[m] /\ born'[m] = born[m] /\ m < arrived + 1
           /\ \A m \in Present : uid[m] < uid'[arrived + 1]
           /\ uid'[arrived + 1] > 0 /\ born'[arrived + 1] = validity
<1> DEFINE top == HighestUid(Present)
<1>0. TypeOK /\ top \in Nat /\ \A m \in Present : uid[m] <= top
  BY HighestFacts DEF Typed
<1> HIDE DEF top
<1>1. /\ arrived \in Nat /\ arrived < MaxMail /\ MaxMail \in Nat /\ arrived' = arrived + 1
      /\ uid' = [uid EXCEPT ![arrived + 1] = top + 1]
      /\ born' = [born EXCEPT ![arrived + 1] = validity]
      /\ uid \in [Mails -> Nat] /\ born \in [Mails -> Nat] /\ validity \in Nat
  BY <1>0, ImapAssumption DEF Arrives, TypeOK, top
<1>2. /\ arrived + 1 \in Mails /\ arrived + 1 \notin Present
      /\ \A m \in Present : m \in Mails /\ m < arrived + 1 /\ m \in Nat
  BY <1>1 DEF Present, Mails
<1>3. Present' = Present \cup {arrived + 1}
  BY <1>1 DEF Present
<1>4. arrived' \in 0 .. MaxMail /\ uid' \in [Mails -> Nat] /\ born' \in [Mails -> Nat]
  BY <1>0, <1>1, <1>2
<1>5. /\ uid'[arrived + 1] = top + 1 /\ born'[arrived + 1] = validity
      /\ \A m \in Present : uid'[m] = uid[m] /\ born'[m] = born[m]
  BY <1>1, <1>2
<1>6. \A m \in Present : uid[m] \in Nat
  BY <1>1, <1>2
<1> QED BY <1>0, <1>2, <1>3, <1>4, <1>5, <1>6

LEMMA TypedOutside ==
    ASSUME Typed, Start \/ Outside \/ UNCHANGED vars
    PROVE  Typed'
<1>0. /\ TypeOK /\ excused \subseteq Mails /\ lost \subseteq Mails /\ handled \subseteq Mails
      /\ kv \in Cursors /\ queue \in Seq(Mails) /\ session \in [Threads -> Session]
      /\ latch \in LatchRecord /\ resolvedAt \in Nat \cup {None}
      /\ phase \in {"down", "starting", "running"}
  BY CursorFacts DEF Typed, TypeOK, LatchRecord
<1>1. CASE UNCHANGED vars
  <2>1. UNCHANGED <<arrived, validity, uid, born, kv, phase, session, queue, latch, resolvedAt,
                    handled, lost, excused>>
    BY <1>1 DEF vars, server, latching
  <2> QED BY <1>0, <2>1, TypedKept
<1>2. CASE Start
  <2>1. /\ UNCHANGED <<arrived, validity, uid, born, kv, session, queue, latch, resolvedAt,
                       handled, lost, excused>>
        /\ phase' = "starting"
    BY <1>2 DEF Start, server, latching
  <2> QED BY <1>0, <2>1, TypedKept
<1>3. CASE Resolve
  <2>1. /\ UNCHANGED <<arrived, validity, uid, born, kv, phase, session, queue, latch,
                       handled, lost, excused>>
        /\ resolvedAt' \in Nat
    BY <1>0, <1>3, ImapAssumption DEF Resolve, server, TypeOK, Date
  <2> QED BY <1>0, <2>1, TypedKept
<1>4. CASE Stop
  <2>1. /\ UNCHANGED <<arrived, validity, uid, born, kv, latch, resolvedAt, handled, excused>>
        /\ phase' = "down" /\ session' = [t \in Threads |-> Closed] /\ queue' = <<>>
        /\ lost' = lost \cup {m \in Taken \ handled : uid[m] <= kv.last_uid}
    BY <1>4 DEF Stop, server
  <2>2. Closed \in Session /\ Closed.pc \notin Reading
    BY DEF Closed, Session, Reading
  <2>3. Taken \subseteq Mails
    <3>1. \A k \in DOMAIN queue : queue[k] \in Mails
      BY <1>0, ElementOfSeq, LenProperties
    <3>2. session["catchup"].got \subseteq Mails
      BY <1>0, SessionFacts DEF Threads
    <3> QED BY <1>0, <3>1, <3>2 DEF Taken
  <2>4. /\ session' \in [Threads -> Session] /\ queue' \in Seq(Mails) /\ lost' \subseteq Mails
        /\ \A t \in Threads : session'[t].pc \notin Reading
    BY <1>0, <2>1, <2>2, <2>3
  <2> QED BY <1>0, <2>1, <2>4, TypedKept
<1>5. CASE Arrives
  <2>1. TypeOK'
    BY <1>0, <1>5, ArrivesFacts DEF Arrives, TypeOK, latching
  <2>2. \A m, n \in Present' : m < n => uid'[m] < uid'[n]
    <3> SUFFICES ASSUME NEW m \in Present', NEW n \in Present', m < n PROVE uid'[m] < uid'[n]
      OBVIOUS
    <3>1. m \in Nat /\ n \in Nat /\ arrived + 1 \in Nat
      BY <2>1, PresentMails, <1>5 DEF Present, Arrives, TypeOK
    <3>2. m # arrived + 1
      <4> SUFFICES ASSUME m = arrived + 1 PROVE FALSE
        OBVIOUS
      <4>1. n < m \/ n = m
        BY <1>5, ArrivesFacts
      <4> QED BY <3>1, <4>1
    <3>3. m \in Present /\ uid'[m] = uid[m]
      BY <1>5, <3>2, ArrivesFacts
    <3>4. CASE n = arrived + 1
      BY <1>5, <3>3, <3>4, ArrivesFacts
    <3>5. CASE n # arrived + 1
      <4>1. n \in Present /\ uid'[n] = uid[n]
        BY <1>5, <3>5, ArrivesFacts
      <4> QED BY <3>3, <4>1 DEF Typed
    <3> QED BY <3>4, <3>5
  <2> QED BY <1>5, <2>1, <2>2 DEF Arrives, Typed
<1>6. ASSUME NEW shift \in Shifts, Rebuild(shift) PROVE Typed'
  <2>1. /\ validity' = validity + 1 /\ excused' = excused \cup Present
        /\ uid' = [m \in Mails |-> IF m \in Present THEN m + shift ELSE 0]
        /\ UNCHANGED <<arrived, born, kv, phase, session, queue, latch, resolvedAt, handled, lost>>
    BY <1>6 DEF Rebuild, latching
  <2>2. shift \in Nat /\ Present \subseteq Mails /\ Mails \subseteq Nat /\ Present' = Present
    BY <1>0, <2>1, PresentMails, ImapAssumption DEF Present
  <2>3. uid' \in [Mails -> Nat] /\ validity' \in Nat
    BY <1>0, <2>1, <2>2 DEF TypeOK
  <2>4. TypeOK'
    BY <1>0, <2>1, <2>2, <2>3 DEF TypeOK
  <2>5. \A m, n \in Present : m < n => uid'[m] < uid'[n]
    BY <2>1, <2>2
  <2> QED BY <2>1, <2>2, <2>4, <2>5 DEF Typed
<1> QED BY <1>1, <1>2, <1>3, <1>4, <1>5, <1>6 DEF Outside

LEMMA TypedStep ==
    ASSUME Typed, [Next]_vars
    PROVE  Typed'
<1>1. "watch" \in Threads /\ "catchup" \in Threads
  BY DEF Threads
<1> QED BY <1>1, TypedSteps, TypedWatcher, TypedCore, TypedOutside DEF Next, Watcher, Core

LEMMA TypedInit ==
    ASSUME Init
    PROVE  Typed
<1>1. Closed \in Session /\ Closed.pc \notin Reading
  BY DEF Closed, Session, Reading
<1>2. uid \in [Mails -> Nat] /\ born \in [Mails -> Nat] /\ arrived \in 0 .. MaxMail
  BY ImapAssumption DEF Init, Mails
<1>3. TypeOK
  BY <1>1, <1>2 DEF Init, TypeOK
<1>4. \A m, n \in Present : m < n => uid[m] < uid[n]
  BY <1>3, PresentMails DEF Init, Present
<1> QED BY <1>1, <1>3, <1>4 DEF Typed, Init

(* The cursor, the connections and the latch of the IMAP reader have their *)
(* types: in particular _new_uids never reads a cursor that is not there.  *)
THEOREM TypeCorrect == Spec => []TypeOK
<1>1. Typed => TypeOK
  BY DEF Typed
<1> QED BY <1>1, TypedInit, TypedStep, PTL DEF Spec

-----------------------------------------------------------------------------
(* The cursor.  A UID is a good cursor when the mails from before the      *)
(* present UIDVALIDITY are at or below it, every matching mail at or below *)
(* it is accounted for, and the mailbox has come that far.                 *)
Claimed == Taken \cup excused \cup lost

Good(u) ==
    /\ u \in Nat
    /\ \A m \in Present : born[m] # validity => uid[m] <= u
    /\ \A m \in Present \cap Matching : uid[m] <= u => m \in Claimed
    /\ u = 0 \/ \E m \in Present : u <= uid[m]

Marked == {"setValidity", "setLast", "search", "advance"}
Bound  == {"check", "baseline", "setValidity", "setLast", "new", "search", "advance"}

(* Before a rebuild every connection is to the one mailbox there is.       *)
(* After one only the watcher goes on; a connection of it that is not to   *)
(* the mailbox as it is now has not written the new UIDVALIDITY, and one   *)
(* that is, and has come to the second write or further, has.              *)
RebuildInv ==
    /\ rebuilds \in Nat /\ validity = 1 + rebuilds
    /\ kv.uidvalidity <= validity
    /\ \A t \in Threads : session[t].validity <= validity
    /\ session["catchup"].pc = "idle" => session["catchup"].validity = 0
    /\ rebuilds = 0 => \A t \in Threads : session[t].pc \in Bound => session[t].validity = validity
    /\ rebuilds > 0 =>
          /\ phase = "running" /\ session["catchup"].pc = "idle"
          /\ session["watch"].pc # "off" /\ session["watch"].validity # validity =>
                kv.uidvalidity # validity
          /\ session["watch"].validity = validity
             /\ session["watch"].pc \in {"setLast", "new", "search", "advance", "idle"} =>
                kv.uidvalidity = validity

(* What the threads hold in their hands.  Only between collecting and      *)
(* returning does catch_up() hold any mail.                                *)
GotInv ==
    /\ \A t \in Threads : session[t].got \subseteq Present
    /\ session["catchup"].pc \notin {"advance", "done"} => session["catchup"].got = {}

(* Every UID that is stored, read or about to be written is a good cursor, *)
(* unless it belongs to a mailbox that is gone.                            *)
MarkInv ==
    /\ rebuilds = 0 /\ kv.last_uid # None => Good(kv.last_uid)
    /\ kv.uidvalidity = validity /\ kv.last_uid # None /\ session["watch"].pc # "setLast" =>
          Good(kv.last_uid)
    /\ \A t \in Threads : session[t].validity = validity /\ session[t].pc \in Marked =>
          Good(session[t].mark)

CursorInv == Typed /\ RebuildInv /\ GotInv /\ MarkInv /\ NoFalseEvents

(* A good cursor stays one as long as nothing is taken back.               *)
LEMMA GoodKept ==
    ASSUME UNCHANGED <<arrived, validity, uid, born>>, Claimed \subseteq Claimed'
    PROVE  \A u : Good(u) => Good(u)'
<1>1. Present' = Present
  BY DEF Present
<1> HIDE DEF Claimed
<1> QED BY <1>1 DEF Good

LEMMA ClaimedKept ==
    ASSUME UNCHANGED <<queue, handled, lost>>, excused \subseteq excused',
           session["catchup"].got \subseteq session'["catchup"].got
    PROVE  Claimed \subseteq Claimed'
BY DEF Claimed, Taken

Renewed == {"setLast", "new", "search", "advance", "idle"}

(* A connection moves, to a mark that is good if it is of this mailbox.    *)
LEMMA CursorMove ==
    ASSUME CursorInv, Typed', NEW t \in Threads, NEW pc \in Pcs, NEW v \in Nat, NEW mark, NEW got,
           Becomes(t, pc, v, mark, got),
           UNCHANGED <<arrived, validity, uid, born, rebuilds, kv>>, Claimed \subseteq Claimed',
           session[t].pc # "setLast",
           v <= validity,
           v = validity /\ pc \in Marked => Good(mark)',
           rebuilds = 0 /\ pc \in Bound => v = validity,
           rebuilds > 0 =>
               /\ t = "watch" /\ phase' = "running"
               /\ pc # "off" /\ v # validity => kv.uidvalidity # validity
               /\ v = validity /\ pc \in Renewed => kv.uidvalidity = validity,
           got \subseteq Present, \A m \in got : born[m] = v,
           t = "catchup" /\ pc \notin {"advance", "done"} => got = {},
           t = "catchup" /\ pc = "idle" => v = 0
    PROVE  CursorInv'
<1>0. Present' = Present /\ "watch" \in Threads /\ "catchup" \in Threads
  BY DEF Present, Threads
<1>1. RebuildInv'
  BY <1>0 DEF CursorInv, RebuildInv, Becomes, Renewed
<1>2. GotInv'
  BY <1>0 DEF CursorInv, GotInv, Becomes
<1>3. NoFalseEvents'
  BY DEF CursorInv, NoFalseEvents, Becomes
<1>4. MarkInv'
  <2>1. \A u : Good(u) => Good(u)'
    BY GoodKept
  <2>2. ASSUME NEW u \in Threads, session'[u].validity = validity, session'[u].pc \in Marked
        PROVE  Good(session[u].mark)'
    <3>1. CASE u = t
      <4>1. session'[u].mark = mark /\ Good(mark)'
        BY <2>2, <3>1 DEF Becomes
      <4> QED BY <4>1
    <3>2. CASE u # t
      <4>1. session'[u] = session[u]
        BY <3>2 DEF Becomes
      <4> QED BY <2>1, <2>2, <4>1 DEF CursorInv, MarkInv
    <3> QED BY <3>1, <3>2
  <2>3. session'["watch"].pc # "setLast" => session["watch"].pc # "setLast"
    BY <1>0 DEF Becomes
  <2>4. /\ rebuilds = 0 /\ kv.last_uid # None => Good(kv.last_uid)'
        /\ kv.uidvalidity = validity /\ kv.last_uid # None /\ session'["watch"].pc # "setLast" =>
              Good(kv.last_uid)'
    BY <2>1, <2>3 DEF CursorInv, MarkInv
  <2> QED BY <2>2, <2>4 DEF MarkInv
<1> QED BY <1>1, <1>2, <1>3, <1>4 DEF CursorInv

(* After a rebuild only the watcher is about.                              *)
LEMMA OnlyWatcher ==
    ASSUME CursorInv, rebuilds # 0, NEW t \in Threads, session[t].pc # "idle"
    PROVE  t = "watch" /\ rebuilds > 0 /\ phase = "running"
<1>1. rebuilds > 0
  BY DEF CursorInv, RebuildInv
<1> QED BY <1>1 DEF CursorInv, RebuildInv, Threads

(* A connection goes on as it is.                                          *)
LEMMA SameMove ==
    ASSUME CursorInv, Typed', NEW t \in Threads, NEW pc \in Pcs, Same(t, pc),
           UNCHANGED <<server, kv, phase, latching, excused>>,
           session[t].pc # "setLast", pc \notin Marked, t = "catchup" => pc # "idle",
           rebuilds = 0 /\ pc \in Bound => session[t].validity = validity,
           rebuilds > 0 =>
               /\ t = "watch"
               /\ pc # "off" => session[t].pc # "off"
               /\ session[t].validity = validity /\ pc \in Renewed => kv.uidvalidity = validity,
           t = "catchup" /\ pc \notin {"advance", "done"} => session[t].got = {}
    PROVE  CursorInv'
<1>0. /\ UNCHANGED <<arrived, validity, uid, born, rebuilds, kv, phase, queue, handled, lost, excused>>
      /\ TypeOK
  BY DEF server, latching, CursorInv, Typed
<1>1. PICK v, k, g : v = session[t].validity /\ k = session[t].mark /\ g = session[t].got
  OBVIOUS
<1>2. Becomes(t, pc, v, k, g) /\ v \in Nat
  BY <1>0, <1>1, SessionFacts DEF Same
<1>3. Claimed \subseteq Claimed'
  <2>1. session["catchup"].got \subseteq session'["catchup"].got
    BY <1>1, <1>2 DEF Becomes, Threads
  <2> QED BY <1>0, <2>1, ClaimedKept
<1>4. v <= validity /\ (rebuilds > 0 => phase' = "running")
  BY <1>0, <1>1 DEF CursorInv, RebuildInv
<1>5. rebuilds > 0 /\ pc # "off" /\ v # validity => kv.uidvalidity # validity
  BY <1>1 DEF CursorInv, RebuildInv
<1>6. g \subseteq Present /\ \A m \in g : born[m] = v
  BY <1>1 DEF CursorInv, GotInv, NoFalseEvents
<1> QED BY <1>0, <1>1, <1>2, <1>3, <1>4, <1>5, <1>6, CursorMove

(* Select, a new baseline, reading the cursor.                             *)
LEMMA CursorSelect ==
    ASSUME CursorInv, Typed', NEW t \in Threads, Select(t)
    PROVE  CursorInv'
<1>0. /\ UNCHANGED <<arrived, validity, uid, born, rebuilds, kv, phase, queue, handled, lost, excused>>
      /\ TypeOK /\ session[t].pc = "off" /\ validity \in Nat
  BY DEF Select, Runs, server, latching, CursorInv, Typed, TypeOK
<1>1. Becomes(t, "check", validity, 0, {}) /\ "check" \in Pcs /\ "check" \notin Marked
      /\ "check" \notin Renewed
  BY <1>0, SelectMoves DEF Fresh, Pcs, Marked, Renewed
<1>2. Claimed \subseteq Claimed'
  <2>1. session["catchup"].got \subseteq session'["catchup"].got
    BY <1>0, <1>1 DEF Becomes, Threads, CursorInv, GotInv
  <2> QED BY <1>0, <2>1, ClaimedKept
<1>3. rebuilds > 0 => t = "watch" /\ phase' = "running"
  BY <1>0, OnlyWatcher DEF CursorInv, RebuildInv
<1>4. PICK v : v = validity
  OBVIOUS
<1>5. v \in Nat /\ v <= validity /\ Becomes(t, "check", v, 0, {})
  BY <1>0, <1>1, <1>4
<1> QED BY <1>0, <1>1, <1>2, <1>3, <1>4, <1>5, CursorMove

LEMMA CursorBaseline ==
    ASSUME CursorInv, Typed', NEW t \in Threads, Baseline(t)
    PROVE  CursorInv'
<1>0. /\ UNCHANGED <<arrived, validity, uid, born, rebuilds, kv, phase, queue, handled, lost>>
      /\ Typed /\ TypeOK /\ session[t].pc = "baseline" /\ session[t].validity = validity
      /\ excused' = excused \cup Present
  BY DEF Baseline, Runs, Connected, server, latching, CursorInv, Typed
<1>1. PICK v, k, g : v = session[t].validity /\ k = HighestUid(Present) /\ g = session[t].got
  OBVIOUS
<1>2. Becomes(t, "setValidity", v, k, g) /\ v \in Nat /\ "setValidity" \in Pcs
  BY <1>0, <1>1, BaselineMoves, SessionFacts DEF Pcs
<1>3. Claimed \subseteq Claimed'
  <2>1. session["catchup"].got \subseteq session'["catchup"].got
    BY <1>1, <1>2 DEF Becomes, Threads
  <2> QED BY <1>0, <2>1, ClaimedKept
<1>4. Good(k)'
  <2>1. /\ k \in Nat /\ \A m \in Present : uid[m] <= k
        /\ k = 0 \/ \E m \in Present : k <= uid[m]
    <3>1. \A m \in Present : uid[m] \in Nat
      BY <1>0, PresentMails DEF TypeOK
    <3> QED BY <1>0, <1>1, <3>1, HighestFacts
  <2>2. Present' = Present /\ Present \subseteq Claimed'
    BY <1>0 DEF Present, Claimed
  <2> QED BY <1>0, <2>1, <2>2 DEF Good
<1>5. rebuilds > 0 => t = "watch" /\ phase' = "running"
  BY <1>0, OnlyWatcher DEF CursorInv, RebuildInv
<1>6. v <= validity /\ g \subseteq Present /\ (\A m \in g : born[m] = v)
      /\ (t = "catchup" => g = {}) /\ "setValidity" \notin Renewed
  BY <1>0, <1>1 DEF CursorInv, RebuildInv, GotInv, NoFalseEvents, Renewed
<1> QED BY <1>0, <1>1, <1>2, <1>3, <1>4, <1>5, <1>6, CursorMove

LEMMA CursorRead ==
    ASSUME CursorInv, Typed', NEW t \in Threads, ReadCursor(t)
    PROVE  CursorInv'
<1>0. /\ UNCHANGED <<arrived, validity, uid, born, rebuilds, kv, phase, queue, handled, lost, excused>>
      /\ Typed /\ TypeOK /\ session[t].pc = "new" /\ kv.last_uid # None
  BY DEF ReadCursor, Runs, server, latching, CursorInv, Typed, Reading
<1>1. PICK v, k, g : v = session[t].validity /\ k = kv.last_uid /\ g = session[t].got
  OBVIOUS
<1>2. Becomes(t, "search", v, k, g) /\ v \in Nat /\ "search" \in Pcs
  BY <1>0, <1>1, ReadCursorMoves, SessionFacts DEF Pcs
<1>3. Claimed \subseteq Claimed'
  <2>1. session["catchup"].got \subseteq session'["catchup"].got
    BY <1>1, <1>2 DEF Becomes, Threads
  <2> QED BY <1>0, <2>1, ClaimedKept
<1>4. rebuilds > 0 =>
          /\ t = "watch" /\ phase' = "running"
          /\ v = validity => kv.uidvalidity = validity
          /\ v # validity => kv.uidvalidity # validity
  BY <1>0, <1>1, OnlyWatcher DEF CursorInv, RebuildInv
<1>5. v = validity => Good(k)'
  <2>1. ASSUME v = validity PROVE Good(k)
    <3>1. rebuilds = 0 \/ (rebuilds > 0 /\ kv.uidvalidity = validity /\ t = "watch")
      BY <1>4, <2>1 DEF CursorInv, RebuildInv
    <3> QED BY <1>0, <1>1, <3>1 DEF CursorInv, MarkInv
  <2> QED BY <1>0, <1>3, <2>1, GoodKept
<1>6. /\ v <= validity /\ g \subseteq Present /\ (\A m \in g : born[m] = v)
      /\ (t = "catchup" => g = {}) /\ (rebuilds = 0 => v = validity)
  BY <1>0, <1>1 DEF CursorInv, RebuildInv, GotInv, NoFalseEvents, Bound
<1> QED BY <1>0, <1>1, <1>2, <1>3, <1>4, <1>5, <1>6, CursorMove

LEMMA CursorSame ==
    ASSUME CursorInv, Typed', NEW t \in Threads,
           \/ CheckValidity(t) \/ NothingNew(t)
           \/ t = "watch" /\ (Wakes \/ Refreshes)
    PROVE  CursorInv'
<1>0. TypeOK /\ UNCHANGED <<server, kv, phase, latching, excused>>
  BY DEF CheckValidity, NothingNew, Wakes, Refreshes, CursorInv, Typed
<1>1. CASE CheckValidity(t)
  <2>1. PICK pc \in {"new", "baseline"} :
           Goes(t, pc) /\ (pc = "new" => kv.uidvalidity = session[t].validity)
    BY <1>1 DEF CheckValidity
  <2>2. session[t].pc = "check"
    BY <1>1 DEF CheckValidity, Runs
  <2>3. Same(t, pc) /\ pc \in Pcs /\ pc \notin Marked
    BY <1>0, <2>1, GoesFacts DEF Same, Pcs, Marked
  <2>4. rebuilds = 0 => session[t].validity = validity
    BY <2>2 DEF CursorInv, RebuildInv, Bound
  <2>5. rebuilds > 0 =>
           /\ t = "watch" /\ session[t].pc # "off"
           /\ session[t].validity = validity /\ pc \in Renewed => kv.uidvalidity = validity
    BY <2>1, <2>2, OnlyWatcher DEF Renewed
  <2>6. t = "catchup" => session[t].got = {}
    BY <2>2 DEF CursorInv, GotInv
  <2> QED BY <1>0, <2>2, <2>3, <2>4, <2>5, <2>6, SameMove
<1>2. CASE NothingNew(t)
  <2>1. PICK pc \in {"idle", "done"} : Goes(t, pc) /\ (t = "catchup" => pc = "done")
    BY <1>2 DEF NothingNew
  <2>2. session[t].pc = "search"
    BY <1>2 DEF NothingNew, Runs
  <2>3. Same(t, pc) /\ pc \in Pcs /\ pc \notin Marked /\ pc \notin Bound
    BY <1>0, <2>1, GoesFacts DEF Same, Pcs, Marked, Bound
  <2>4. rebuilds > 0 =>
           /\ t = "watch" /\ session[t].pc # "off"
           /\ session[t].validity = validity => kv.uidvalidity = validity
    BY <2>2, OnlyWatcher DEF CursorInv, RebuildInv
  <2> QED BY <1>0, <2>1, <2>2, <2>3, <2>4, SameMove
<1>3. CASE t = "watch" /\ Wakes
  <2>1. session[t].pc = "idle" /\ session[t].validity = validity /\ Goes(t, "new")
    BY <1>3 DEF Wakes, Runs, Connected
  <2>2. Same(t, "new") /\ "new" \in Pcs /\ "new" \notin Marked
    BY <1>0, <2>1, GoesFacts DEF Same, Pcs, Marked
  <2>3. rebuilds > 0 => kv.uidvalidity = validity
    BY <1>3, <2>1 DEF CursorInv, RebuildInv
  <2> QED BY <1>0, <1>3, <2>1, <2>2, <2>3, SameMove
<1>4. CASE t = "watch" /\ Refreshes
  <2>1. session[t].pc = "idle" /\ Goes(t, "off")
    BY <1>4 DEF Refreshes, Runs
  <2>2. Same(t, "off") /\ "off" \in Pcs /\ "off" \notin Marked /\ "off" \notin Bound
        /\ "off" \notin Renewed
    BY <1>0, <2>1, GoesFacts DEF Same, Pcs, Marked, Bound, Renewed
  <2> QED BY <1>0, <1>4, <2>1, <2>2, SameMove
<1> QED BY <1>1, <1>2, <1>3, <1>4

(* A write of the new UIDVALIDITY, of the new baseline, of the advanced    *)
(* cursor.                                                                 *)
LEMMA CursorSetValidity ==
    ASSUME CursorInv, Typed', NEW t \in Threads, SetValidity(t)
    PROVE  CursorInv'
<1>0. /\ UNCHANGED <<arrived, validity, uid, born, rebuilds, phase, queue, handled, lost, excused>>
      /\ TypeOK /\ session[t].pc = "setValidity" /\ session[t].validity \in Nat
      /\ Present' = Present /\ "watch" \in Threads /\ "catchup" \in Threads
  BY SessionFacts DEF SetValidity, Runs, server, latching, CursorInv, Typed, Present, Threads
<1>1. kv'.last_uid = kv.last_uid /\ kv'.uidvalidity = session[t].validity
  BY <1>0, SetsValidity DEF SetValidity
<1>2. Same(t, "setLast")
  BY <1>0, GoesFacts DEF SetValidity, Same, Pcs
<1>3. /\ session'[t].pc = "setLast" /\ session'[t].validity = session[t].validity
      /\ session'[t].mark = session[t].mark /\ session'[t].got = session[t].got
      /\ \A u \in Threads : u # t => session'[u] = session[u]
  BY <1>2 DEF Same, Becomes
<1>4. \A u : Good(u) => Good(u)'
  <2>1. session["catchup"].got \subseteq session'["catchup"].got
    BY <1>0, <1>3
  <2>2. Claimed \subseteq Claimed'
    BY <1>0, <2>1, ClaimedKept
  <2> QED BY <1>0, <2>2, GoodKept
<1>5. rebuilds # 0 => t = "watch" /\ rebuilds > 0
  BY <1>0, OnlyWatcher
<1>6. RebuildInv'
  BY <1>0, <1>1, <1>3, <1>5 DEF CursorInv, RebuildInv, Bound
<1>7. GotInv' /\ NoFalseEvents'
  BY <1>0, <1>3 DEF CursorInv, GotInv, NoFalseEvents
<1>8. MarkInv'
  <2>1. rebuilds = 0 /\ kv.last_uid # None => Good(kv.last_uid)'
    BY <1>1, <1>4 DEF CursorInv, MarkInv
  <2>2. t = "watch" \/ rebuilds = 0
    BY <1>5
  <2>3. ASSUME NEW u \in Threads, session'[u].validity = validity, session'[u].pc \in Marked
        PROVE  Good(session[u].mark)'
    <3>1. session[u].validity = validity /\ session[u].pc \in Marked
          /\ session'[u].mark = session[u].mark
      BY <1>0, <1>3, <2>3 DEF Marked
    <3> QED BY <1>4, <3>1 DEF CursorInv, MarkInv
  <2> QED BY <1>0, <1>1, <1>3, <2>1, <2>2, <2>3 DEF MarkInv
<1> QED BY <1>6, <1>7, <1>8 DEF CursorInv

LEMMA CursorWrite ==
    ASSUME CursorInv, Typed', NEW t \in Threads, SetLast(t) \/ Advance(t)
    PROVE  CursorInv'
<1>0. /\ UNCHANGED <<arrived, validity, uid, born, rebuilds, phase, queue, handled, lost, excused>>
      /\ TypeOK /\ session[t].pc \in {"setLast", "advance"} /\ session[t].mark \in Nat
      /\ Present' = Present /\ "watch" \in Threads /\ "catchup" \in Threads
  BY SessionFacts DEF SetLast, Advance, Runs, server, latching, CursorInv, Typed, Present, Threads
<1>1. kv'.last_uid = session[t].mark /\ kv'.uidvalidity = kv.uidvalidity
  BY <1>0, SetsLast DEF SetLast, Advance
<1>2. PICK pc \in {"new", "idle", "done"} :
         /\ Goes(t, pc) /\ (pc = "new" => session[t].pc = "setLast")
         /\ t = "catchup" => pc # "idle"
  BY DEF SetLast, Advance, Runs
<1>3. Same(t, pc)
  BY <1>0, <1>2, GoesFacts DEF Same, Pcs
<1>4. /\ session'[t].pc = pc /\ session'[t].validity = session[t].validity
      /\ session'[t].mark = session[t].mark /\ session'[t].got = session[t].got
      /\ \A u \in Threads : u # t => session'[u] = session[u]
  BY <1>3 DEF Same, Becomes
<1>5. \A u : Good(u) => Good(u)'
  <2>1. session["catchup"].got \subseteq session'["catchup"].got
    BY <1>0, <1>4
  <2>2. Claimed \subseteq Claimed'
    BY <1>0, <2>1, ClaimedKept
  <2> QED BY <1>0, <2>2, GoodKept
<1>6. rebuilds # 0 => t = "watch" /\ rebuilds > 0
  BY <1>0, OnlyWatcher
<1>7. RebuildInv'
  BY <1>0, <1>1, <1>2, <1>4, <1>6 DEF CursorInv, RebuildInv, Bound
<1>8. GotInv' /\ NoFalseEvents'
  BY <1>0, <1>2, <1>4 DEF CursorInv, GotInv, NoFalseEvents
<1>9. MarkInv'
  <2>1. rebuilds = 0 \/ kv.uidvalidity = validity => session[t].validity = validity
    BY <1>0, <1>6 DEF CursorInv, RebuildInv, Bound
  <2>2. session[t].validity = validity => Good(session[t].mark)
    BY <1>0 DEF CursorInv, MarkInv, Marked
  <2>3. ASSUME NEW u \in Threads, session'[u].validity = validity, session'[u].pc \in Marked
        PROVE  Good(session[u].mark)'
    <3>1. session'[u] = session[u]
      BY <1>2, <1>4, <2>3 DEF Marked
    <3> QED BY <1>5, <2>3, <3>1 DEF CursorInv, MarkInv
  <2>4. rebuilds = 0 \/ kv.uidvalidity = validity => Good(kv.last_uid)'
    <3>1. PICK k : k = session[t].mark
      OBVIOUS
    <3>2. rebuilds = 0 \/ kv.uidvalidity = validity => Good(k)'
      BY <1>5, <2>1, <2>2, <3>1
    <3> QED BY <1>1, <3>1, <3>2
  <2> QED BY <1>0, <1>1, <2>3, <2>4 DEF MarkInv
<1> QED BY <1>7, <1>8, <1>9 DEF CursorInv

(* New mails are evaluated: each arrived in this mailbox, and with those   *)
(* that are taken or excused the cursor may move to the highest.           *)
LEMMA CursorEvaluates ==
    ASSUME CursorInv, Typed', NEW t \in Threads, NEW taken, Evaluates(t, taken),
           session[t].pc = "search", session[t].validity = validity,
           UNCHANGED <<server, kv, phase>>, Claimed \subseteq Claimed',
           NewMails(t) \cap Matching \subseteq Claimed'
    PROVE  CursorInv'
<1>0. /\ UNCHANGED <<arrived, validity, uid, born, rebuilds, kv, phase>>
      /\ Typed /\ TypeOK /\ taken \subseteq NewMails(t) /\ taken # {} /\ Present' = Present
      /\ taken \subseteq Present
  BY DEF server, CursorInv, Typed, Evaluates, Present, NewMails
<1>1. PICK v, k, g, low : /\ v = session[t].validity /\ k = HighestUid(taken)
                          /\ g = taken \cap Matching /\ low = session[t].mark
  OBVIOUS
<1>2. Becomes(t, "advance", v, k, g) /\ v \in Nat /\ "advance" \in Pcs
  BY <1>0, <1>1, SessionFacts DEF Pcs, Evaluates
<1>3. Good(low) /\ low \in Nat
  BY <1>0, <1>1, SessionFacts DEF CursorInv, MarkInv, Marked
<1>4. \A m \in Present : uid[m] \in Nat
  BY <1>0, PresentMails DEF TypeOK
<1>5. \A m \in NewMails(t) : m \in Present /\ uid[m] > low /\ born[m] = validity
  <2>1. \A m \in NewMails(t) : m \in Present /\ uid[m] > low
    BY <1>1 DEF NewMails
  <2> QED BY <1>3, <1>4, <2>1 DEF Good
<1>6. k \in Nat /\ low <= k /\ \E m \in Present : k <= uid[m]
  <2>1. PICK m \in taken : k = uid[m]
    BY <1>0, <1>1, HighestFacts
  <2> QED BY <1>0, <1>3, <1>4, <1>5, <2>1
<1>7. Good(k)'
  <2>1. \A m \in Present : born[m] # validity => uid[m] <= k
    BY <1>3, <1>4, <1>6 DEF Good
  <2>2. \A m \in Present \cap Matching : m \in Claimed'  \/ ~(uid[m] <= k)
    <3> SUFFICES ASSUME NEW m \in Present \cap Matching PROVE m \in Claimed' \/ ~(uid[m] <= k)
      OBVIOUS
    <3>1. CASE uid[m] <= low
      BY <1>3, <3>1 DEF Good
    <3>2. CASE ~(uid[m] <= low)
      <4>1. m \in NewMails(t)
        BY <1>1, <1>3, <1>4, <3>2 DEF NewMails
      <4> QED BY <4>1
    <3> QED BY <3>1, <3>2
  <2> QED BY <1>0, <1>6, <2>1, <2>2 DEF Good
<1>8. rebuilds > 0 =>
          /\ t = "watch" /\ phase' = "running"
          /\ kv.uidvalidity = validity
  BY <1>0, OnlyWatcher DEF CursorInv, RebuildInv
<1>9. /\ v = validity /\ v <= validity /\ g \subseteq Present /\ (\A m \in g : born[m] = v)
  BY <1>0, <1>1, <1>5 DEF TypeOK
<1> QED BY <1>0, <1>1, <1>2, <1>7, <1>8, <1>9, CursorMove

LEMMA CursorEmit ==
    ASSUME CursorInv, Typed', EmitNew
    PROVE  CursorInv'
<1> DEFINE got == NewMails("watch") \cap Matching
<1>0. /\ Typed /\ TypeOK /\ "watch" \in Threads /\ "catchup" \in Threads
      /\ session["watch"].pc = "search" /\ session["watch"].validity = validity
      /\ UNCHANGED <<server, kv, phase, handled, lost, excused>>
      /\ queue' = queue \o InOrder(got) /\ queue \in Seq(Mails)
  BY DEF EmitNew, Runs, Connected, CursorInv, Typed, TypeOK, Threads
<1>1. Evaluates("watch", NewMails("watch"))
  BY <1>0, EmitMoves
<1>2. session'["catchup"] = session["catchup"]
  BY <1>0, <1>1 DEF Evaluates, Becomes
<1>3. /\ InOrder(got) \in Seq(Mails)
      /\ \A m \in got : \E k \in DOMAIN InOrder(got) : InOrder(got)[k] = m
  <2>1. got \subseteq Mails
    BY <1>0, PresentMails DEF NewMails
  <2> HIDE DEF got
  <2> QED BY <2>1, InOrderFacts
<1> HIDE DEF got
<1>4. \A k \in DOMAIN queue : k \in DOMAIN queue' /\ queue'[k] = queue[k]
  BY <1>0, <1>3
<1>5. \A m \in got : \E k \in DOMAIN queue' : queue'[k] = m
  <2> SUFFICES ASSUME NEW m \in got PROVE \E k \in DOMAIN queue' : queue'[k] = m
    OBVIOUS
  <2>1. PICK k \in DOMAIN InOrder(got) : InOrder(got)[k] = m
    BY <1>3
  <2>2. /\ Len(queue) + k \in DOMAIN queue'
        /\ queue'[Len(queue) + k] = m
    BY <1>0, <1>3, <2>1
  <2> QED BY <2>2
<1>6. {queue[k] : k \in DOMAIN queue} \subseteq {queue'[k] : k \in DOMAIN queue'}
  BY <1>4
<1>7. Claimed \subseteq Claimed' /\ got \subseteq Claimed'
  <2>1. PICK Q, Q2 : Q = {queue[k] : k \in DOMAIN queue} /\ Q2 = {queue'[k] : k \in DOMAIN queue'}
    OBVIOUS
  <2>2. Q \subseteq Q2 /\ got \subseteq Q2
    BY <1>5, <1>6, <2>1
  <2>3. Claimed = handled \cup Q \cup session["catchup"].got \cup excused \cup lost
    BY <2>1 DEF Claimed, Taken
  <2>4. Claimed' = handled' \cup Q2 \cup session'["catchup"].got \cup excused' \cup lost'
    BY <2>1 DEF Claimed, Taken
  <2> QED BY <1>0, <1>2, <2>2, <2>3, <2>4
<1> QED BY <1>0, <1>1, <1>7, CursorEvaluates DEF got

LEMMA CursorCollect ==
    ASSUME CursorInv, Typed', CollectNew
    PROVE  CursorInv'
<1> DEFINE new   == NewMails("catchup")
           taken == Limited(new)
<1>0. /\ Typed /\ TypeOK /\ "catchup" \in Threads
      /\ session["catchup"].pc = "search" /\ session["catchup"].validity = validity
      /\ UNCHANGED <<server, kv, phase, queue, handled, lost>>
      /\ excused' = excused \cup (new \ taken)
  BY DEF CollectNew, Runs, Connected, CursorInv, Typed, Threads, latching
<1>1. Evaluates("catchup", taken)
  BY <1>0, CollectMoves
<1> HIDE DEF taken, new
<1>2. session'["catchup"].got = taken \cap Matching /\ session["catchup"].got = {}
  BY <1>0, <1>1 DEF Evaluates, Becomes, CursorInv, GotInv
<1>3. Claimed \subseteq Claimed' /\ new \cap Matching \subseteq Claimed'
  BY <1>0, <1>2 DEF Claimed, Taken
<1> QED BY <1>0, <1>1, <1>3, CursorEvaluates DEF new

(* A connection is given up, or has done its work.                         *)
LEMMA CursorFresh ==
    ASSUME CursorInv, Typed', NEW t \in Threads, NEW pc \in {"off", "idle"}, Fresh(t, pc, 0),
           UNCHANGED <<server, kv>>, Claimed \subseteq Claimed',
           session[t].pc # "setLast",
           rebuilds > 0 => t = "watch" /\ pc = "off" /\ phase' = phase
    PROVE  CursorInv'
<1>0. /\ UNCHANGED <<arrived, validity, uid, born, rebuilds, kv>> /\ TypeOK /\ validity \in Nat
      /\ pc \in Pcs /\ pc \notin Marked /\ pc \notin Bound
      /\ validity # 0
  BY DEF server, CursorInv, RebuildInv, Typed, TypeOK, Pcs, Marked, Bound
<1>1. Becomes(t, pc, 0, 0, {})
  BY DEF Fresh
<1>2. rebuilds > 0 => t = "watch" /\ phase' = "running" /\ pc = "off"
  BY DEF CursorInv, RebuildInv
<1> QED BY <1>0, <1>1, <1>2, CursorMove

LEMMA CursorGivesUp ==
    ASSUME CursorInv, Typed', WatchFails \/ CatchUpFails \/ CatchUpReturns \/ CatchUpRetryReturns
    PROVE  CursorInv'
<1>0. TypeOK /\ "watch" \in Threads /\ "catchup" \in Threads
  BY DEF CursorInv, Typed, Threads
<1>1. CASE WatchFails
  <2>1. /\ session["watch"].pc \in {"baseline", "search", "idle"}
        /\ UNCHANGED <<server, kv, phase, queue, handled, lost, excused>>
        /\ session' = [session EXCEPT !["watch"] = Closed]
    BY <1>1 DEF WatchFails, latching
  <2>2. Fresh("watch", "off", 0)
    BY <1>0, <2>1, ClosesFacts
  <2>3. session'["catchup"] = session["catchup"]
    BY <1>0, <2>2 DEF Fresh, Becomes
  <2>4. Claimed \subseteq Claimed'
    BY <2>1, <2>3, ClaimedKept
  <2> QED BY <1>0, <2>1, <2>2, <2>4, CursorFresh
<1>2. CASE CatchUpFails
  <2>1. /\ session["catchup"].pc \in {"off", "baseline", "search"}
        /\ UNCHANGED <<server, kv, queue, handled, lost, excused>>
        /\ session' = [session EXCEPT !["catchup"] = Closed]
    BY <1>2 DEF CatchUpFails
  <2>2. Fresh("catchup", "off", 0)
    BY <1>0, <2>1, ClosesFacts
  <2>3. session["catchup"].got = {}
    BY <2>1 DEF CursorInv, GotInv
  <2>4. Claimed \subseteq Claimed'
    BY <2>1, <2>3, ClaimedKept
  <2>5. ~(rebuilds > 0)
    BY <2>1 DEF CursorInv, RebuildInv
  <2> QED BY <1>0, <2>1, <2>2, <2>4, <2>5, CursorFresh
<1>3. CASE CatchUpReturns \/ CatchUpRetryReturns
  <2>1. /\ session["catchup"].pc = "done"
        /\ UNCHANGED <<server, kv, queue, lost, excused>>
        /\ handled' = handled \cup session["catchup"].got
        /\ session' = [session EXCEPT !["catchup"] = [Closed EXCEPT !.pc = "idle"]]
    BY <1>3 DEF CatchUpReturns, CatchUpRetryReturns
  <2>2. Fresh("catchup", "idle", 0)
    BY <1>0, <2>1, ClosedFacts DEF Pcs
  <2>3. Claimed \subseteq Claimed'
    BY <2>1 DEF Claimed, Taken
  <2>4. ~(rebuilds > 0)
    BY <2>1 DEF CursorInv, RebuildInv
  <2> QED BY <1>0, <2>1, <2>2, <2>3, <2>4, CursorFresh
<1> QED BY <1>1, <1>2, <1>3

(* Steps that leave the connections and the cursor alone.                  *)
LEMMA CursorStays ==
    ASSUME CursorInv, Typed', UNCHANGED <<server, kv, session>>, Claimed \subseteq Claimed',
           rebuilds > 0 => phase' = phase
    PROVE  CursorInv'
<1>0. UNCHANGED <<arrived, validity, uid, born, rebuilds>> /\ Present' = Present
  BY DEF server, Present
<1>1. \A u : Good(u) => Good(u)'
  BY <1>0, GoodKept
<1>2. RebuildInv'
  BY <1>0 DEF CursorInv, RebuildInv
<1>3. GotInv' /\ NoFalseEvents'
  BY <1>0 DEF CursorInv, GotInv, NoFalseEvents
<1>4. MarkInv'
  BY <1>0, <1>1 DEF CursorInv, MarkInv
<1> QED BY <1>2, <1>3, <1>4 DEF CursorInv

LEMMA CursorElsewhere ==
    ASSUME CursorInv, Typed', HandleInputEvent \/ Start \/ Resolve \/ UNCHANGED vars
    PROVE  CursorInv'
<1>0. TypeOK
  BY DEF CursorInv, Typed
<1>1. CASE HandleInputEvent
  <2>1. /\ queue # <<>> /\ queue \in Seq(Mails)
        /\ handled' = handled \cup {Head(queue)} /\ queue' = Tail(queue)
        /\ UNCHANGED <<server, kv, phase, session, lost, excused>>
    BY <1>0, <1>1 DEF HandleInputEvent, TypeOK
  <2>2. \A k \in DOMAIN queue : \/ queue[k] = Head(queue)
                                \/ \E j \in DOMAIN queue' : queue'[j] = queue[k]
    <3> SUFFICES ASSUME NEW k \in DOMAIN queue, k # 1
                 PROVE  \E j \in DOMAIN queue' : queue'[j] = queue[k]
      BY <2>1
    <3>1. k - 1 \in DOMAIN queue' /\ queue'[k - 1] = queue[k]
      BY <2>1
    <3> QED BY <3>1
  <2>3. Claimed \subseteq Claimed'
    <3>1. Taken \subseteq Taken'
      BY <2>1, <2>2 DEF Taken
    <3> QED BY <2>1, <3>1 DEF Claimed
  <2> QED BY <2>1, <2>3, CursorStays
<1>2. CASE Start
  <2>1. /\ UNCHANGED <<server, kv, session, queue, handled, lost, excused>> /\ phase = "down"
    BY <1>2 DEF Start, latching
  <2>2. ~(rebuilds > 0)
    BY <2>1 DEF CursorInv, RebuildInv
  <2> QED BY <2>1, <2>2, ClaimedKept, CursorStays
<1>3. CASE Resolve
  <2>1. UNCHANGED <<server, kv, session, queue, handled, lost, excused, phase>>
    BY <1>3 DEF Resolve
  <2> QED BY <2>1, ClaimedKept, CursorStays
<1>4. CASE UNCHANGED vars
  <2>1. UNCHANGED <<server, kv, session, queue, handled, lost, excused, phase>>
    BY <1>4 DEF vars, latching
  <2> QED BY <2>1, ClaimedKept, CursorStays
<1> QED BY <1>1, <1>2, <1>3, <1>4

(* A stop before any rebuild: what the cursor had passed is lost.          *)
LEMMA CursorStop ==
    ASSUME CursorInv, Typed', RebuildAlone, Stop
    PROVE  CursorInv'
<1>0. /\ UNCHANGED <<arrived, validity, uid, born, rebuilds, kv, handled, excused>>
      /\ rebuilds = 0 /\ session' = [t \in Threads |-> Closed] /\ queue' = <<>>
      /\ lost' = lost \cup {m \in Taken \ handled : uid[m] <= kv.last_uid}
      /\ Present' = Present /\ "watch" \in Threads /\ "catchup" \in Threads
      /\ handled \subseteq Taken
  BY DEF Stop, server, Present, Threads, Taken
<1>1. \A t \in Threads : session'[t].pc = "off" /\ session'[t].validity = 0 /\ session'[t].got = {}
  BY <1>0 DEF Closed
<1>2. Claimed' = handled \cup excused \cup lost'
  BY <1>0, <1>1 DEF Claimed, Taken
<1>3. ASSUME kv.last_uid # None PROVE Good(kv.last_uid)'
  <2>1. PICK u : u = kv.last_uid
    OBVIOUS
  <2>2. Good(u)
    BY <1>0, <1>3, <2>1 DEF CursorInv, MarkInv
  <2>3. \A m \in Present \cap Matching : uid[m] <= u => m \in Claimed'
    <3> SUFFICES ASSUME NEW m \in Present \cap Matching, uid[m] <= u PROVE m \in Claimed'
      OBVIOUS
    <3>1. m \in Taken \cup excused \cup lost
      BY <2>2 DEF Good, Claimed
    <3> QED BY <1>0, <1>2, <2>1, <3>1
  <2>4. Good(u)'
    BY <1>0, <2>2, <2>3 DEF Good
  <2> QED BY <1>0, <2>1, <2>4
<1>4. RebuildInv'
  BY <1>0, <1>1 DEF CursorInv, RebuildInv, Bound
<1>5. GotInv' /\ NoFalseEvents'
  BY <1>0, <1>1 DEF GotInv, NoFalseEvents
<1>6. MarkInv'
  BY <1>0, <1>1, <1>3 DEF MarkInv, Marked
<1> QED BY <1>4, <1>5, <1>6 DEF CursorInv

(* A new mail is above every good cursor.                                  *)
LEMMA CursorArrives ==
    ASSUME CursorInv, Typed', Arrives
    PROVE  CursorInv'
<1>0. /\ Typed /\ TypeOK /\ arrived + 1 \notin Present /\ Present' = Present \cup {arrived + 1}
      /\ UNCHANGED <<validity, rebuilds, kv, phase, session, queue, handled, lost, excused>>
      /\ uid'[arrived + 1] \in Nat
  <2>1. Typed /\ TypeOK
    BY DEF CursorInv, Typed
  <2>2. arrived + 1 \in Present'
    BY <2>1, ArrivesFacts
  <2>3. arrived' \in 0 .. MaxMail /\ uid' \in [Mails -> Nat] /\ Present' = 1 .. arrived'
    BY <2>1, ArrivesFacts DEF Present
  <2>4. Present' \subseteq Mails
    BY <2>3, ImapAssumption DEF Mails
  <2> QED BY <2>1, <2>2, <2>3, <2>4, ArrivesFacts DEF Arrives, latching
<1>1. Claimed' = Claimed
  BY <1>0 DEF Claimed, Taken
<1>2. \A u : Good(u) => Good(u)'
  <2> SUFFICES ASSUME NEW u, Good(u) PROVE Good(u)'
    OBVIOUS
  <2>1. u \in Nat /\ \A m \in Present : uid[m] \in Nat
    BY <1>0, PresentMails DEF Good, TypeOK
  <2>2. u < uid'[arrived + 1]
    <3>1. CASE u = 0
      BY <1>0, <3>1, ArrivesFacts
    <3>2. CASE \E m \in Present : u <= uid[m]
      <4>1. PICK m \in Present : u <= uid[m]
        BY <3>2
      <4>2. uid[m] < uid'[arrived + 1]
        BY <1>0, ArrivesFacts
      <4> QED BY <1>0, <2>1, <4>1, <4>2
    <3> QED BY <3>1, <3>2 DEF Good
  <2>3. \A m \in Present' : born'[m] # validity' => uid'[m] <= u
    <3> SUFFICES ASSUME NEW m \in Present', born'[m] # validity PROVE uid'[m] <= u
      BY <1>0
    <3>1. m \in Present /\ uid'[m] = uid[m] /\ born'[m] = born[m]
      BY <1>0, ArrivesFacts
    <3> QED BY <3>1 DEF Good
  <2>4. \A m \in Present' \cap Matching : uid'[m] <= u => m \in Claimed'
    <3> SUFFICES ASSUME NEW m \in Present' \cap Matching, uid'[m] <= u PROVE m \in Claimed'
      OBVIOUS
    <3>1. m # arrived + 1
      BY <1>0, <2>1, <2>2
    <3>2. m \in Present /\ uid'[m] = uid[m]
      BY <1>0, <3>1, ArrivesFacts
    <3> QED BY <1>1, <3>2 DEF Good
  <2>5. u = 0 \/ \E m \in Present' : u <= uid'[m]
    BY <1>0, <2>1, <2>2
  <2> QED BY <2>1, <2>3, <2>4, <2>5 DEF Good
<1>3. RebuildInv'
  BY <1>0 DEF CursorInv, RebuildInv
<1>4. GotInv'
  BY <1>0 DEF CursorInv, GotInv
<1>5. NoFalseEvents'
  BY <1>0, ArrivesFacts DEF CursorInv, GotInv, NoFalseEvents
<1>6. MarkInv'
  BY <1>0, <1>2 DEF CursorInv, MarkInv
<1> QED BY <1>3, <1>4, <1>5, <1>6 DEF CursorInv

(* After a rebuild nothing that is stored or held is of this mailbox.      *)
LEMMA CursorRebuild ==
    ASSUME CursorInv, Typed', RebuildAlone, NEW shift \in Shifts, Rebuild(shift)
    PROVE  CursorInv'
<1>0. /\ rebuilds' = rebuilds + 1 /\ validity' = validity + 1
      /\ UNCHANGED <<arrived, born, kv, phase, session>> /\ Present' = Present
      /\ phase = "running" /\ session["catchup"].pc = "idle"
      /\ TypeOK /\ "watch" \in Threads /\ "catchup" \in Threads
  BY DEF Rebuild, Present, CursorInv, Typed, Threads
<1>1. /\ rebuilds \in Nat /\ validity \in Nat /\ kv.uidvalidity \in Int
      /\ \A t \in Threads : session[t].validity \in Nat
  BY <1>0, SessionFacts, CursorFacts DEF CursorInv, RebuildInv, TypeOK, None
<1>2. /\ kv.uidvalidity <= validity /\ kv.uidvalidity # validity'
      /\ \A t \in Threads : session[t].validity <= validity /\ session[t].validity # validity'
  BY <1>0, <1>1 DEF CursorInv, RebuildInv
<1>3. RebuildInv'
  BY <1>0, <1>1, <1>2 DEF CursorInv, RebuildInv
<1>4. GotInv' /\ NoFalseEvents'
  BY <1>0 DEF CursorInv, GotInv, NoFalseEvents
<1>5. MarkInv'
  BY <1>0, <1>1, <1>2 DEF MarkInv
<1> QED BY <1>3, <1>4, <1>5 DEF CursorInv

-----------------------------------------------------------------------------
LEMMA CursorStep ==
    ASSUME CursorInv, RebuildAlone, [Next]_vars
    PROVE  CursorInv'
<1>0. Typed' /\ "watch" \in Threads /\ "catchup" \in Threads
  BY TypedStep DEF CursorInv, Threads
<1>1. ASSUME NEW t \in Threads, Steps(t) PROVE CursorInv'
  BY <1>0, <1>1, CursorSelect, CursorBaseline, CursorRead, CursorSame, CursorSetValidity, CursorWrite
     DEF Steps
<1>2. CASE Watcher
  BY <1>0, <1>1, <1>2, CursorEmit, CursorSame, CursorGivesUp DEF Watcher
<1>3. CASE Core
  BY <1>0, <1>1, <1>3, CursorCollect, CursorGivesUp, CursorElsewhere DEF Core
<1>4. CASE Outside
  BY <1>0, <1>4, CursorStop, CursorArrives, CursorRebuild, CursorElsewhere DEF Outside
<1> QED BY <1>0, <1>2, <1>3, <1>4, CursorElsewhere DEF Next

LEMMA CursorInit ==
    ASSUME Init
    PROVE  CursorInv
<1>0. Typed /\ "watch" \in Threads /\ "catchup" \in Threads
  BY TypedInit DEF Threads
<1>1. \A t \in Threads : session[t].pc = "off" /\ session[t].validity = 0 /\ session[t].got = {}
  BY DEF Init, Closed
<1>2. kv.uidvalidity = -1 /\ kv.last_uid = None /\ validity = 1 /\ rebuilds = 0
  BY DEF Init, None
<1>3. RebuildInv
  BY <1>0, <1>1, <1>2 DEF RebuildInv, Bound
<1>4. GotInv /\ NoFalseEvents /\ MarkInv
  BY <1>0, <1>1, <1>2 DEF GotInv, NoFalseEvents, MarkInv
<1> QED BY <1>0, <1>3, <1>4 DEF CursorInv

LEMMA GoodCursor ==
    ASSUME CursorInv
    PROVE  CursorPassesNothing
<1> SUFFICES ASSUME Settled, NEW m \in Present \cap Matching, uid[m] <= kv.last_uid
             PROVE  m \in Taken \cup excused \cup lost
  BY DEF CursorPassesNothing
<1>1. TypeOK /\ uid[m] \in Nat
  BY PresentMails DEF CursorInv, Typed, TypeOK
<1>2. kv.last_uid # None
  BY <1>1 DEF None
<1>3. Good(kv.last_uid)
  BY <1>2 DEF CursorInv, MarkInv, Settled, Threads
<1> QED BY <1>3 DEF Good, Claimed

(* However the watcher and catch_up() interleave, however connections      *)
(* break and processes stop, and however often the server renumbers the    *)
(* mailbox under the watcher, the cursor never passes a matching mail that *)
(* nobody took.                                                            *)
THEOREM CursorMissesNothing == RebuildAlone => (Spec => []CursorPassesNothing)
<1> SUFFICES ASSUME RebuildAlone PROVE Spec => []CursorPassesNothing
  OBVIOUS
<1>1. Init => CursorInv
  BY CursorInit
<1>2. CursorInv /\ [Next]_vars => CursorInv'
  BY CursorStep
<1>3. CursorInv => CursorPassesNothing
  BY GoodCursor
<1> QED BY <1>1, <1>2, <1>3, PTL DEF Spec

(* No mail from before the first start, and none that a rebuilt mailbox    *)
(* shows under a new number, is ever evaluated as an event.                *)
THEOREM OldMailsAreNoEvents == RebuildAlone => (Spec => []NoFalseEvents)
<1> SUFFICES ASSUME RebuildAlone PROVE Spec => []NoFalseEvents
  OBVIOUS
<1>1. Init => CursorInv
  BY CursorInit
<1>2. CursorInv /\ [Next]_vars => CursorInv'
  BY CursorStep
<1>3. CursorInv => NoFalseEvents
  BY DEF CursorInv
<1> QED BY <1>1, <1>2, <1>3, PTL DEF Spec

=============================================================================
