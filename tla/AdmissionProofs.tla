--------------------------- MODULE AdmissionProofs ---------------------------
(***************************************************************************)
(* How old the rows behind an admission decision can be, for every         *)
(* lifetime, timeout, cache size and number of requests.                   *)
(*                                                                         *)
(* DecisionIsRecent is not inductive: it holds because what is cached and  *)
(* what a handler has read is recent already.  A cached row was current    *)
(* at most Timeout before it was stored (CachedRows); what a handler       *)
(* relies on was current at most a lifetime and Timeout before it started  *)
(* (Handlers); and so a cached decision follows from rows that were        *)
(* current at most a lifetime and twice Timeout before it was stored       *)
(* (CachedDecisions).                                                      *)
(***************************************************************************)
EXTENDS Admission, FiniteSetTheorems, TLAPS

CachedRows ==
    \A k \in Rows : rows[k] # Empty => HeldSince(k, rows[k].value, rows[k].stored_at - Timeout)

Running == {r \in Requests : task[r].pc \in {"look up", "fill"}}

\* Reach(t): how far back the rows a handler that started at t relies on go.
Reach(t) == t - (TTL - 1) - Timeout

HandlerOK(t) ==
    /\ t.event \in Events /\ t.row \in Rows
    /\ now - t.start <= Timeout
    /\ t.pc = "fill" => HeldSince(t.row, t.value, t.start)
    /\ t.row \in Urls => t.row = t.url
    /\ t.row \notin Urls =>
         /\ after_compatibility(t.event, t.url) = Announcement
         /\ t.url # None => HeldSince(t.url, "present", Reach(t.start))
    /\ t.row = State => HeldSince(Announcement, None, Reach(t.start))

Handlers == \A r \in Running : HandlerOK(task[r])

DecisionOK(e, d) ==
    /\ FollowsSince(e, d.value, Reach(d.stored_at) - Timeout)
    /\ d.value = "storage error" => failed >= d.stored_at

CachedDecisions == \A e \in Events : decisions[e] # Empty => DecisionOK(e, decisions[e])

IInv == TypeOK /\ CachedRows /\ Handlers /\ CachedDecisions /\ DecisionIsRecent /\ ErrorIsRecent

LEMMA NamesDiffer ==
    /\ Announcement \notin Urls /\ State \notin Urls /\ None \notin Urls
    /\ Announcement # State /\ Announcement # None /\ State # None
    /\ Announcement \notin Decisions /\ State \notin Decisions
    /\ Announcement \in Rows /\ State \in Rows /\ Urls \subseteq Rows
  BY AdmissionAssumption, Zenon DEF Announcement, State, None, Decisions, Rows

LEMMA DecisionsAreNoRows == \A x \in Decisions : x \notin Rows
  BY AdmissionAssumption, NamesDiffer, Zenon DEF Rows

LEMMA Numbers ==
    /\ TTL \in Nat /\ TTL >= 1 /\ Timeout \in Nat
  BY AdmissionAssumption

-----------------------------------------------------------------------------
(***************************************************************************)
(* Reading a row and deciding.                                             *)
(***************************************************************************)
LEMMA DecisionsFor ==
    ASSUME NEW e, NEW u
    PROVE  /\ decision_for(e, u) \in Decisions
           /\ after_compatibility(e, u) \in Decisions \cup {Announcement}
  BY Zenon DEF decision_for, evaluate_admission, after_compatibility, Decisions, Announcement

LEMMA EvaluateUrl ==
    ASSUME NEW e, NEW u, NEW k \in Urls, NEW v
    PROVE  /\ evaluate(e, u, k, v) \in Decisions \cup {Announcement}
           /\ evaluate(e, u, k, v) = Announcement => v = "present" /\ after_compatibility(e, u) = Announcement
           /\ v = "present" => evaluate(e, u, k, v) = after_compatibility(e, u)
  BY NamesDiffer, DecisionsFor, Zenon DEF evaluate, Decisions, Announcement

LEMMA EvaluateAnnouncement ==
    ASSUME NEW e, NEW u, NEW v
    PROVE  evaluate(e, u, Announcement, v) = IF v # None THEN "requires related" ELSE State
  BY NamesDiffer, Zenon DEF evaluate

LEMMA EvaluateState ==
    ASSUME NEW e, NEW u, NEW v
    PROVE  evaluate(e, u, State, v) = IF v # None THEN "requires related" ELSE "repository not found"
  BY NamesDiffer, Zenon DEF evaluate

LEMMA JustFailed ==
    ASSUME NEW m \in Nat
    PROVE  m >= 0 /\ m >= m /\ m > m - TTL
  BY Numbers

LEMMA HistoryTypes ==
    ASSUME TypeOK
    PROVE  /\ now \in Nat
           /\ failed \in Int /\ failed <= now
           /\ held \in [Rows -> [Values -> Int]]
           /\ \A k \in Rows, v \in Values : held[k][v] <= now
<1>1. now \in Nat /\ failed \in -1 .. now /\ held \in [Rows -> [Values -> -1 .. now]]
  BY Zenon DEF TypeOK
<1> QED
  BY <1>1

LEMMA FailedWithin ==
    ASSUME NEW f \in Int, NEW m \in Nat, NEW n \in Nat, f >= n, m - n < TTL
    PROVE  f >= 0 /\ f > m - TTL
  BY Numbers

LEMMA ReachBack ==
    ASSUME NEW m \in Nat, NEW n \in Int, n <= m, m - n <= Timeout, NEW s \in Int, s <= Reach(m) - Timeout
    PROVE  Reach(n) \in Int /\ s <= Reach(n) /\ s <= m
  BY Numbers DEF Reach

LEMMA EvaluateNoError ==
    ASSUME NEW e, NEW u, NEW k \in Rows, NEW v
    PROVE  evaluate(e, u, k, v) # "storage error"
<1>1. decision_for(e, u) # "storage error" /\ after_compatibility(e, u) # "storage error"
  BY Zenon DEF decision_for, evaluate_admission, after_compatibility, Announcement
<1>2. CASE k \in Urls
  BY <1>1, <1>2, NamesDiffer, Zenon DEF evaluate
<1>3. CASE k = Announcement
  BY <1>3, EvaluateAnnouncement, Zenon DEF State
<1>4. CASE k = State
  BY <1>4, EvaluateState, Zenon
<1> QED
  BY <1>2, <1>3, <1>4, Zenon DEF Rows

\* A row that has its value since later has it since earlier.
LEMMA HeldEarlier ==
    ASSUME TypeOK, NEW k \in Rows, NEW v \in Values, NEW s \in Int, NEW t \in Int,
           t <= s, HeldSince(k, v, s)
    PROVE  HeldSince(k, v, t)
<1>1. held[k][v] \in Int
  BY HistoryTypes, Zenon
<1> QED
  BY <1>1 DEF HeldSince

LEMMA FollowsEarlier ==
    ASSUME TypeOK, NEW e, NEW d, NEW s \in Int, NEW t \in Int,
           t <= s, FollowsSince(e, d, s)
    PROVE  FollowsSince(e, d, t)
<1>1. PICK u \in RelayUrls :
        \/ \E row \in [Rows -> Values] : (\A k \in Rows : HeldSince(k, row[k], s)) /\ d = Decided(e, u, row)
        \/ failed >= 0 /\ failed >= s /\ \E k \in Rows : d = evaluate_error(e, u, k)
  BY Zenon DEF FollowsSince
<1>2. CASE \E row \in [Rows -> Values] : (\A k \in Rows : HeldSince(k, row[k], s)) /\ d = Decided(e, u, row)
  <2>1. PICK row \in [Rows -> Values] : (\A k \in Rows : HeldSince(k, row[k], s)) /\ d = Decided(e, u, row)
    BY <1>2, Zenon
  <2>2. \A k \in Rows : HeldSince(k, row[k], t)
    BY <2>1, HeldEarlier, Zenon
  <2> QED
    BY <2>1, <2>2, Zenon DEF FollowsSince
<1>3. CASE failed >= 0 /\ failed >= s /\ \E k \in Rows : d = evaluate_error(e, u, k)
  <2>1. failed \in Int
    BY HistoryTypes, Zenon
  <2>2. failed >= t
    BY <1>3, <2>1
  <2> QED
    BY <1>3, <2>2, Zenon DEF FollowsSince
<1> QED
  BY <1>1, <1>2, <1>3, Zenon

\* Values of the rows a request looks at decide for it, whatever the others are.
LEMMA DecidedByUrl ==
    ASSUME TypeOK, NEW e, NEW u \in Urls, NEW v \in Values, NEW t,
           HeldSince(u, v, t), evaluate(e, u, u, v) \in Decisions
    PROVE  FollowsSince(e, evaluate(e, u, u, v), t)
<1> DEFINE row == [db EXCEPT ![u] = v]
<1>1. row \in [Rows -> Values] /\ row[u] = v /\ \A k \in Rows \ {u} : row[k] = db[k]
  BY NamesDiffer, Zenon DEF TypeOK
<1>2. \A k \in Rows : HeldSince(k, row[k], t)
  BY <1>1, Zenon DEF HeldSince
<1>3. Decided(e, u, row) = evaluate(e, u, u, v)
  BY <1>1, NamesDiffer, Zenon DEF Decided
<1> QED
  BY <1>1, <1>2, <1>3, Zenon DEF FollowsSince, RelayUrls

LEMMA DecidedByRepository ==
    ASSUME TypeOK, NEW e, NEW u \in RelayUrls, NEW a \in Values, NEW s \in Values, NEW t,
           after_compatibility(e, u) = Announcement,
           u # None => HeldSince(u, "present", t),
           HeldSince(Announcement, a, t), HeldSince(State, s, t)
    PROVE  /\ a # None => FollowsSince(e, "requires related", t)
           /\ a = None /\ s # None => FollowsSince(e, "requires related", t)
           /\ a = None /\ s = None => FollowsSince(e, "repository not found", t)
<1> DEFINE row == [k \in Rows |-> IF k = Announcement THEN a ELSE IF k = State THEN s
                                  ELSE IF k = u THEN "present" ELSE db[k]]
<1>1. /\ row \in [Rows -> Values]
      /\ row[Announcement] = a /\ row[State] = s
      /\ u # None => u \in Urls /\ row[u] = "present"
  BY NamesDiffer, Zenon DEF TypeOK, Values, RelayUrls
<1>2. \A k \in Rows : HeldSince(k, row[k], t)
  <2> SUFFICES ASSUME NEW k \in Rows
               PROVE  HeldSince(k, row[k], t)
    OBVIOUS
  <2>1. CASE k = Announcement \/ k = State
    BY <1>1, <2>1, Zenon
  <2>2. CASE k # Announcement /\ k # State /\ k = u
    <3>1. u # None
      BY <2>2, NamesDiffer, Zenon DEF Rows
    <3> QED
      BY <1>1, <2>2, <3>1, Zenon
  <2>3. CASE k # Announcement /\ k # State /\ k # u
    BY <2>3, Zenon DEF HeldSince
  <2> QED
    BY <2>1, <2>2, <2>3, Zenon
<1>3. u # None => evaluate(e, u, u, row[u]) = Announcement
  BY <1>1, EvaluateUrl, Zenon
<1> HIDE DEF row
<1>4. Decided(e, u, row) = IF evaluate(e, u, Announcement, a) # State THEN evaluate(e, u, Announcement, a)
                           ELSE evaluate(e, u, State, s)
  BY <1>1, <1>3, Zenon DEF Decided
<1>5. /\ evaluate(e, u, Announcement, a) = IF a # None THEN "requires related" ELSE State
      /\ evaluate(e, u, State, s) = IF s # None THEN "requires related" ELSE "repository not found"
      /\ "requires related" # State
  BY EvaluateAnnouncement, EvaluateState, Zenon DEF State
<1>6. Decided(e, u, row) = IF a # None THEN "requires related"
                           ELSE IF s # None THEN "requires related" ELSE "repository not found"
  BY <1>4, <1>5, Zenon
<1>7. FollowsSince(e, Decided(e, u, row), t)
  BY <1>1, <1>2, Zenon DEF FollowsSince
<1> QED
  BY <1>6, <1>7, Zenon

-----------------------------------------------------------------------------
(***************************************************************************)
(* What was read stays read: no step makes a value a row had unheld.       *)
(***************************************************************************)
LEMMA Frame ==
    ASSUME TypeOK, [Next]_vars
    PROVE  /\ mode' = mode
           /\ now' = now \/ (now' = now + 1 /\ Tick)
           /\ failed' = failed \/ failed' = now
           /\ UNCHANGED <<db, held>> \/ \E k \in Rows, v \in Values : Write(k, v)
<1>1. CASE \E e \in Events : AnswerCached(e)
  BY <1>1, Zenon DEF AnswerCached
<1>2. CASE \E r \in Requests, e \in Events, u \in RelayUrls : Begin(r, e, u)
  BY <1>2, Zenon DEF Begin
<1>3. CASE \E r \in Requests : ReadCached(r) \/ ReadStored(r) \/ ReadFailed(r) \/ Fill(r) \/ GiveUp(r)
  BY <1>3, Zenon DEF ReadCached, ReadStored, ReadFailed, Fill, GiveUp
<1>4. CASE \E k \in Rows, v \in Values : Write(k, v)
  BY <1>4, Zenon DEF Write
<1>5. CASE Restart
  BY <1>5, Zenon DEF Restart
<1>6. CASE Tick
  BY <1>6, Zenon DEF Tick
<1>7. CASE UNCHANGED vars
  BY <1>7, Zenon DEF vars
<1> QED
  BY <1>1, <1>2, <1>3, <1>4, <1>5, <1>6, <1>7, Zenon DEF Next

LEMMA HeldStays ==
    ASSUME TypeOK, [Next]_vars, NEW k \in Rows, NEW v \in Values, NEW t \in Int, t <= now,
           HeldSince(k, v, t)
    PROVE  HeldSince(k, v, t)'
<1>1. CASE UNCHANGED <<db, held>>
  BY <1>1, Zenon DEF HeldSince
<1>2. CASE \E j \in Rows, w \in Values : Write(j, w)
  <2>1. PICK j \in Rows, w \in Values : Write(j, w)
    BY <1>2, Zenon
  <2>2. /\ db \in [Rows -> Values] /\ held \in [Rows -> [Values -> Int]] /\ now \in Nat
    BY HistoryTypes, Zenon DEF TypeOK
  <2>3. /\ db' = [db EXCEPT ![j] = w]
        /\ held' = [held EXCEPT ![j][db[j]] = now]
    BY <2>1, Zenon DEF Write
  <2>4. CASE db[k] = v /\ k = j
    <3>1. held'[k][v] = now
      BY <2>2, <2>3, <2>4, Zenon
    <3> QED
      BY <3>1, <2>2 DEF HeldSince
  <2>5. CASE db[k] = v /\ k # j
    BY <2>2, <2>3, <2>5, Zenon DEF HeldSince
  <2>6. CASE held[k][v] >= 0 /\ held[k][v] >= t
    <3>1. held'[k][v] = held[k][v] \/ held'[k][v] = now
      BY <2>2, <2>3, Zenon
    <3> QED
      BY <3>1, <2>2, <2>6 DEF HeldSince
  <2> QED
    BY <2>4, <2>5, <2>6, Zenon DEF HeldSince
<1> QED
  BY <1>1, <1>2, Frame, Zenon

LEMMA FollowsStays ==
    ASSUME TypeOK, [Next]_vars, NEW e, NEW d, NEW t \in Int, t <= now, FollowsSince(e, d, t)
    PROVE  FollowsSince(e, d, t)'
<1>1. mode' = mode /\ (failed' = failed \/ failed' = now)
  BY Frame, Zenon
<1>3. PICK u \in RelayUrls :
        \/ \E row \in [Rows -> Values] : (\A k \in Rows : HeldSince(k, row[k], t)) /\ d = Decided(e, u, row)
        \/ failed >= 0 /\ failed >= t /\ \E k \in Rows : d = evaluate_error(e, u, k)
  BY Zenon DEF FollowsSince
<1>4. CASE \E row \in [Rows -> Values] : (\A k \in Rows : HeldSince(k, row[k], t)) /\ d = Decided(e, u, row)
  <2>1. PICK row \in [Rows -> Values] : (\A k \in Rows : HeldSince(k, row[k], t)) /\ d = Decided(e, u, row)
    BY <1>4, Zenon
  <2>2. \A k \in Rows : HeldSince(k, row[k], t)'
    BY <2>1, HeldStays, Zenon
  <2>3. /\ evaluate(e, u, u, row[u])' = evaluate(e, u, u, row[u])
        /\ evaluate(e, u, Announcement, row[Announcement])' = evaluate(e, u, Announcement, row[Announcement])
        /\ evaluate(e, u, State, row[State])' = evaluate(e, u, State, row[State])
    BY <1>1, Zenon DEF evaluate
  <2>4. d = Decided(e, u, row)'
    BY <2>1, <2>3, Zenon DEF Decided
  <2> QED
    BY <2>2, <2>4, Zenon DEF FollowsSince
<1>5. CASE failed >= 0 /\ failed >= t /\ \E k \in Rows : d = evaluate_error(e, u, k)
  <2>1. PICK k \in Rows : d = evaluate_error(e, u, k)
    BY <1>5, Zenon
  <2>2. d = evaluate_error(e, u, k)'
    BY <2>1, <1>1, Zenon DEF evaluate_error
  <2>3. failed' >= 0 /\ failed' >= t
    BY <1>1, <1>5, HistoryTypes
  <2> QED
    BY <2>2, <2>3, Zenon DEF FollowsSince
<1> QED
  BY <1>3, <1>4, <1>5, Zenon

LEMMA HandlerStays ==
    ASSUME TypeOK, [Next]_vars, NEW t \in Tasks, HandlerOK(t), now' - t.start <= Timeout
    PROVE  HandlerOK(t)'
<1>0. t.start \in 0 .. now /\ t.value \in Values /\ t.url \in RelayUrls
  BY Zenon DEF Tasks
<1>1. /\ t.start \in Int /\ t.start <= now /\ t.value \in Values
      /\ t.url # None => t.url \in Rows
  BY <1>0, HistoryTypes, NamesDiffer DEF RelayUrls
<1>2. Reach(t.start) \in Int /\ Reach(t.start) <= now
  BY <1>1, Numbers, HistoryTypes DEF Reach
<1>3. t.row \in Rows
  BY Zenon DEF HandlerOK
<1>4. t.pc = "fill" => HeldSince(t.row, t.value, t.start)'
  BY <1>1, <1>3, HeldStays, Zenon DEF HandlerOK
<1>5. "present" \in Values /\ None \in Values
  BY Zenon DEF Values
<1>6. t.row \notin Urls /\ t.url # None => HeldSince(t.url, "present", Reach(t.start))'
  BY <1>1, <1>2, <1>5, HeldStays, Zenon DEF HandlerOK, Reach
<1>7. t.row = State => HeldSince(Announcement, None, Reach(t.start))'
  BY <1>1, <1>2, <1>5, HeldStays, NamesDiffer, Zenon DEF HandlerOK, Reach
<1> QED
  BY <1>4, <1>6, <1>7, Zenon DEF HandlerOK

LEMMA DecisionStays ==
    ASSUME TypeOK, [Next]_vars, NEW e, NEW d, d.stored_at \in 0 .. now, DecisionOK(e, d)
    PROVE  DecisionOK(e, d)'
<1>1. now \in Nat /\ failed \in Int /\ failed <= now /\ (failed' = failed \/ failed' = now)
  BY Frame, HistoryTypes, Zenon
<1>2. Reach(d.stored_at) - Timeout \in Int /\ Reach(d.stored_at) - Timeout <= now
  BY <1>1, Numbers DEF Reach
<1>3. FollowsSince(e, d.value, Reach(d.stored_at) - Timeout)'
  BY <1>2, FollowsStays, Zenon DEF DecisionOK, Reach
<1>4. d.value = "storage error" => failed' >= d.stored_at
  <2>1. d.value = "storage error" => failed >= d.stored_at
    BY Zenon DEF DecisionOK
  <2>2. d.stored_at \in Int /\ d.stored_at <= now
    BY <1>1
  <2> QED
    BY <1>1, <2>1, <2>2, Zenon
<1> QED
  BY <1>3, <1>4, Zenon DEF DecisionOK

\* The task of a handler that goes on to row x.
LookUp(t, x) == [t EXCEPT !.pc = "look up", !.row = x, !.value = None]

\* What a handler concludes from a row it may rely on.
LEMMA Verdict ==
    ASSUME IInv, NEW t \in Tasks, HandlerOK(t), NEW v \in Values, NEW x,
           HeldSince(t.row, v, Reach(t.start)), x = evaluate(t.event, t.url, t.row, v)
    PROVE  /\ x \in Decisions => FollowsSince(t.event, x, Reach(t.start))
           /\ x \in Rows => HandlerOK(LookUp(t, x))
<1> DEFINE n == LookUp(t, x)
<1>0. /\ n.pc = "look up" /\ n.row = x /\ n.event = t.event /\ n.url = t.url /\ n.start = t.start
  BY Zenon DEF Tasks, LookUp
<1>a. TypeOK /\ t.url \in RelayUrls
  BY Zenon DEF IInv, Tasks
<1>b. "present" \in Values /\ None \in Values /\ "present" # None
  BY Zenon DEF Values, None
<1>1. CASE t.row \in Urls
  <2>1. t.row = t.url /\ t.url \in Urls /\ t.url # None
    BY <1>1, NamesDiffer, Zenon DEF HandlerOK
  <2>2. x \in Decisions \cup {Announcement}
    BY <2>1, EvaluateUrl, Zenon
  <2>3. CASE x \in Decisions
    <3>1. FollowsSince(t.event, x, Reach(t.start))
      BY <1>a, <2>1, <2>3, DecidedByUrl, Zenon
    <3> QED
      BY <2>3, <3>1, DecisionsAreNoRows, Zenon
  <2>4. CASE x = Announcement
    <3>1. v = "present" /\ after_compatibility(t.event, t.url) = Announcement
      BY <2>1, <2>4, EvaluateUrl, Zenon
    <3> QED
      BY <1>0, <2>1, <2>4, <3>1, NamesDiffer, Zenon DEF HandlerOK
  <2> QED
    BY <2>2, <2>3, <2>4, Zenon
<1>2. CASE t.row = Announcement
  <2>1. /\ after_compatibility(t.event, t.url) = Announcement
        /\ t.url # None => HeldSince(t.url, "present", Reach(t.start))
    BY <1>2, NamesDiffer, Zenon DEF HandlerOK
  <2>2. x = IF v # None THEN "requires related" ELSE State
    BY <1>2, EvaluateAnnouncement, Zenon
  <2>3. CASE v # None
    <3>1. db[State] \in Values /\ HeldSince(State, db[State], Reach(t.start))
      BY <1>a, NamesDiffer, Zenon DEF TypeOK, HeldSince
    <3>2. FollowsSince(t.event, "requires related", Reach(t.start))
      BY ZenonT(30), <1>a, <1>2, <2>1, <2>3, <3>1, DecidedByRepository
    <3> QED
      BY <2>2, <2>3, <3>2, DecisionsAreNoRows, Zenon DEF Decisions
  <2>4. CASE v = None
    <3>1. x = State
      BY <2>2, <2>4, Zenon
    <3> QED
      BY <1>0, <1>2, <2>1, <2>4, <3>1, NamesDiffer, Zenon DEF HandlerOK
  <2> QED
    BY <2>3, <2>4, Zenon
<1>3. CASE t.row = State
  <2>1. /\ after_compatibility(t.event, t.url) = Announcement
        /\ t.url # None => HeldSince(t.url, "present", Reach(t.start))
        /\ HeldSince(Announcement, None, Reach(t.start))
    BY <1>3, NamesDiffer, Zenon DEF HandlerOK
  <2>2. x = IF v # None THEN "requires related" ELSE "repository not found"
    BY <1>3, EvaluateState, Zenon
  <2>3. FollowsSince(t.event, x, Reach(t.start))
    BY <1>a, <1>b, <1>3, <2>1, <2>2, DecidedByRepository, Zenon
  <2> QED
    BY <2>2, <2>3, DecisionsAreNoRows, Zenon DEF Decisions
<1> QED
  BY <1>1, <1>2, <1>3, Zenon DEF HandlerOK, Rows

-----------------------------------------------------------------------------
(***************************************************************************)
(* The steps.                                                              *)
(***************************************************************************)
LEMMA InitIInv == Init => IInv
<1> SUFFICES ASSUME Init
             PROVE  IInv
  OBVIOUS
<1>1. Idle \in Tasks /\ Idle.pc = "idle"
  BY DEF Init, Idle, Tasks, RelayUrls, Values, None
<1>2. TypeOK
  BY <1>1 DEF Init, TypeOK, Entries, NoAnswer
<1>3. CachedRows /\ Handlers /\ CachedDecisions
  BY <1>1, Zenon DEF Init, CachedRows, Handlers, Running, CachedDecisions
<1>4. DecisionIsRecent /\ ErrorIsRecent
  BY Zenon DEF Init, DecisionIsRecent, ErrorIsRecent, NoAnswer, None
<1> QED
  BY <1>2, <1>3, <1>4, Zenon DEF IInv

LEMMA DoneTask ==
    ASSUME TypeOK
    PROVE  Done \in Tasks /\ Done.pc = "done" /\ Idle \in Tasks /\ Idle.pc = "idle"
<1>1. 0 \in 0 .. now
  BY HistoryTypes
<1> QED
  BY <1>1, Zenon DEF Done, Idle, Tasks, RelayUrls, Values, None

\* An insertion only adds its entry, and may drop one.
LEMMA InsertedEntries ==
    ASSUME NEW K, NEW map, map = [j \in K |-> map[j]], NEW keys, NEW key \in K, NEW value,
           NEW new \in Inserted(map, keys, key, value)
    PROVE  /\ new = [j \in K |-> new[j]]
           /\ \A j \in K : \/ new[j] = Empty
                           \/ j # key /\ new[j] = map[j]
                           \/ j = key /\ new[j] = [value |-> value, stored_at |-> now]
<1> DEFINE filled == [map EXCEPT ![key] = [value |-> value, stored_at |-> now]]
<1>1. /\ filled = [j \in K |-> filled[j]]
      /\ filled[key] = [value |-> value, stored_at |-> now]
      /\ \A j \in K \ {key} : filled[j] = map[j]
  OBVIOUS
<1>2. new = filled \/ \E k : new = [filled EXCEPT ![k] = Empty]
  BY Zenon DEF Inserted
<1> HIDE DEF filled
<1> QED
  BY <1>1, <1>2, Zenon

\* A row that the handler may look up next.
MayGoOn(t, x) == HandlerOK(LookUp(t, x))'

\* A decision that the step may give: it is as recent as a stored one has to be.
MayAnswer(e, x) ==
    /\ \A s \in Int : s <= Reach(now) - Timeout => FollowsSince(e, x, s)'
    /\ x = "storage error" => failed' = now

\* What a step that concludes keeps, if it concludes what it may.
LEMMA ConcludeStep ==
    ASSUME IInv, [Next]_vars, now' = now,
           NEW r \in Requests, NEW t \in Tasks, NEW x, Conclude(r, t, x),
           t.event \in Events,
           x \in Rows => MayGoOn(t, x),
           x \in Decisions => MayAnswer(t.event, x)
    PROVE  /\ task' \in [Requests -> Tasks] /\ decisions' \in [Events -> Entries(Decisions)]
           /\ answer' \in {NoAnswer} \cup [event : Events, decision : Decisions]
           /\ Handlers' /\ CachedDecisions' /\ DecisionIsRecent' /\ ErrorIsRecent'
<1> DEFINE n == LookUp(t, x)
<1>a. TypeOK /\ task \in [Requests -> Tasks] /\ decisions \in [Events -> Entries(Decisions)]
  BY Zenon DEF IInv, TypeOK
<1>b. Done \in Tasks /\ Done.pc = "done"
  BY DoneTask, <1>a, Zenon
<1>c. now \in Nat /\ failed \in Int /\ (failed' = failed \/ failed' = now) /\ failed <= now
  BY <1>a, Frame, HistoryTypes, Zenon
<1>d. x \in Rows => n \in Tasks
  BY Zenon DEF Tasks, Values, LookUp
<1>1. /\ task' \in [Requests -> Tasks]
      /\ task' = [task EXCEPT ![r] = task'[r]]
      /\ task'[r] = Done \/ (task'[r] = n /\ x \in Rows)
  BY <1>a, <1>b, <1>d, Zenon DEF Conclude, LookUp
<1>2. Handlers'
  <2> SUFFICES ASSUME NEW q \in Requests, task'[q].pc \in {"look up", "fill"}
               PROVE  HandlerOK(task[q])'
    BY Zenon DEF Handlers, Running
  <2>1. CASE q = r
    BY <1>1, <1>b, <2>1, Zenon DEF MayGoOn
  <2>2. CASE q # r
    <3>1. PICK h : h = task[q]
      OBVIOUS
    <3>2. task'[q] = h /\ h \in Tasks
      BY <1>a, <1>1, <2>2, <3>1, Zenon
    <3>3. HandlerOK(h) /\ now' - h.start <= Timeout
      BY <3>1, <3>2, Zenon DEF IInv, Handlers, Running, HandlerOK
    <3> QED
      BY <1>a, <3>2, <3>3, HandlerStays, Zenon
  <2> QED
    BY <2>1, <2>2, Zenon
<1>3. CASE x \in Rows /\ answer' = NoAnswer /\ decisions' = decisions
  <2>1. CachedDecisions'
    <3> SUFFICES ASSUME NEW e \in Events, decisions[e] # Empty
                 PROVE  DecisionOK(e, decisions[e])'
      BY <1>3, Zenon DEF CachedDecisions
    <3>1. PICK d : d = decisions[e]
      OBVIOUS
    <3>2. d.stored_at \in 0 .. now /\ DecisionOK(e, d)
      BY <1>a, <3>1, Zenon DEF Entries, IInv, CachedDecisions
    <3> QED
      BY <1>a, <1>3, <3>1, <3>2, DecisionStays, Zenon
  <2> QED
    BY <1>a, <1>1, <1>2, <1>3, <2>1, Zenon DEF DecisionIsRecent, ErrorIsRecent, NoAnswer, None
<1>4. CASE /\ x \in Decisions
           /\ decisions' \in Inserted(decisions, Events, t.event, x)
           /\ answer' = [event |-> t.event, decision |-> x]
  <2> DEFINE new == [value |-> x, stored_at |-> now]
  <2>1. /\ decisions' = [e \in Events |-> decisions'[e]]
        /\ \A e \in Events : \/ decisions'[e] = Empty
                             \/ e # t.event /\ decisions'[e] = decisions[e]
                             \/ e = t.event /\ decisions'[e] = new
    <3>1. decisions = [e \in Events |-> decisions[e]]
      BY <1>a, Zenon
    <3>a. PICK key \in Events : key = t.event
      OBVIOUS
    <3>b. PICK next : next = decisions'
      OBVIOUS
    <3>2. key = t.event /\ next = decisions'
      BY <3>a, <3>b, Zenon
    <3>3. next \in Inserted(decisions, Events, key, x)
      BY <1>4, <3>2, Zenon
    <3>4. /\ next = [e \in Events |-> next[e]]
          /\ \A e \in Events : \/ next[e] = Empty
                               \/ e # key /\ next[e] = decisions[e]
                               \/ e = key /\ next[e] = [value |-> x, stored_at |-> now]
      BY SMTT(20), <3>1, <3>3, InsertedEntries
    <3> QED
      BY <3>2, <3>4, Zenon
  <2>2. new \in Entries(Decisions) /\ new.value = x /\ new.stored_at = now
    BY <1>c, <1>4 DEF Entries
  <2> HIDE DEF new
  <2>3. decisions' \in [Events -> Entries(Decisions)]
    BY <1>a, <2>1, <2>2, Zenon DEF Entries
  <2>4. CachedDecisions'
    <3> SUFFICES ASSUME NEW e \in Events, decisions'[e] # Empty
                 PROVE  DecisionOK(e, decisions[e])'
      BY Zenon DEF CachedDecisions
    <3>1. PICK d : d = decisions'[e]
      OBVIOUS
    <3>2. CASE e = t.event
      <4>1. d.value = x /\ d.stored_at = now
        BY <2>1, <2>2, <3>1, <3>2, Zenon
      <4>2. Reach(now) - Timeout \in Int
        BY <1>c, Numbers DEF Reach
      <4>3. FollowsSince(e, d.value, Reach(d.stored_at) - Timeout)'
        <5>1. PICK s \in Int : s = Reach(now) - Timeout
          BY <4>2, Zenon
        <5>2. s <= Reach(now) - Timeout /\ Reach(d.stored_at) - Timeout = s
          BY <4>1, <5>1
        <5>3. FollowsSince(t.event, x, s)'
          BY <1>4, <5>2, Zenon DEF MayAnswer
        <5> QED
          BY <3>2, <4>1, <5>2, <5>3, Zenon DEF Reach
      <4>4. d.value = "storage error" => failed' >= d.stored_at
        <5> SUFFICES ASSUME d.value = "storage error"
                     PROVE  failed' >= d.stored_at
          OBVIOUS
        <5>1. failed' = now /\ d.stored_at = now
          BY <1>4, <4>1, Zenon DEF MayAnswer
        <5> QED
          BY <5>1, <1>c, JustFailed, Zenon
      <4> QED
        BY <3>1, <4>3, <4>4, Zenon DEF DecisionOK
    <3>3. CASE e # t.event
      <4>1. d = decisions[e]
        BY <2>1, <3>1, <3>3, Zenon
      <4>2. d.stored_at \in 0 .. now /\ DecisionOK(e, d)
        BY <1>a, <3>1, <4>1, Zenon DEF Entries, IInv, CachedDecisions
      <4> QED
        BY <1>a, <3>1, <4>2, DecisionStays, Zenon
    <3> QED
      BY <3>2, <3>3, Zenon
  <2>5. DecisionIsRecent'
    <3>1. /\ now - 2 * (TTL - 1) - 2 * Timeout \in Int
          /\ now - 2 * (TTL - 1) - 2 * Timeout <= Reach(now) - Timeout
      BY <1>c, Numbers DEF Reach
    <3>2. PICK s \in Int : s = now - 2 * (TTL - 1) - 2 * Timeout
      BY <3>1, Zenon
    <3>3. FollowsSince(t.event, x, s)'
      BY <1>4, <3>1, <3>2, Zenon DEF MayAnswer
    <3> QED
      BY <1>4, <3>2, <3>3, Zenon DEF DecisionIsRecent
  <2>6. ErrorIsRecent'
    <3> SUFFICES ASSUME answer'.decision = "storage error"
                 PROVE  failed' >= 0 /\ failed' > now' - TTL
      BY Zenon DEF ErrorIsRecent
    <3>1. x = "storage error"
      BY <1>4, Zenon
    <3>2. failed' = now /\ now' = now
      BY <1>4, <3>1, Zenon DEF MayAnswer
    <3> QED
      BY <3>2, <1>c, JustFailed, Zenon
  <2> QED
    BY <1>1, <1>2, <1>4, <2>3, <2>4, <2>5, <2>6, Zenon
<1> QED
  BY <1>3, <1>4, Zenon DEF Conclude

\* Types only grow with the clock.
LEMMA ClockGrows ==
    ASSUME TypeOK, [Next]_vars
    PROVE  /\ Tasks \subseteq Tasks' /\ \A S : Entries(S) \subseteq Entries(S)'
           /\ mode' \in Modes /\ now' \in Nat /\ db' \in [Rows -> Values]
           /\ held' \in [Rows -> [Values -> -1 .. now']] /\ failed' \in -1 .. now'
<1>1. /\ now \in Nat /\ now' \in Nat /\ now <= now'
      /\ failed \in -1 .. now /\ (failed' = failed \/ failed' = now)
      /\ mode \in Modes /\ mode' = mode
      /\ db \in [Rows -> Values] /\ held \in [Rows -> [Values -> -1 .. now]]
  <2>1. /\ now \in Nat /\ failed \in -1 .. now /\ mode \in Modes
        /\ db \in [Rows -> Values] /\ held \in [Rows -> [Values -> -1 .. now]]
    BY Zenon DEF TypeOK
  <2> QED
    BY <2>1, Frame
<1>2. 0 .. now \subseteq 0 .. now' /\ -1 .. now \subseteq -1 .. now' /\ now \in -1 .. now'
  BY <1>1
<1>3. Tasks \subseteq Tasks' /\ \A S : Entries(S) \subseteq Entries(S)'
  BY <1>2, Zenon DEF Tasks, Entries
<1>4. failed' \in -1 .. now'
  BY <1>1, <1>2, Zenon
<1>5. held \in [Rows -> [Values -> -1 .. now']]
  BY <1>1, <1>2, Zenon
<1>6. db' \in [Rows -> Values] /\ held' \in [Rows -> [Values -> -1 .. now']]
  <2>1. CASE UNCHANGED <<db, held>>
    BY <1>1, <1>5, <2>1, Zenon
  <2>2. CASE \E k \in Rows, v \in Values : Write(k, v)
    BY <1>1, <1>2, <1>5, <2>2 DEF Write
  <2> QED
    BY <2>1, <2>2, Frame, Zenon
<1> QED
  BY <1>1, <1>3, <1>4, <1>6, Zenon

LEMMA RowsKept ==
    ASSUME IInv, [Next]_vars, rows' = [k \in Rows |-> rows'[k]],
           \A k \in Rows : rows'[k] = Empty \/ rows'[k] = rows[k]
    PROVE  rows' \in [Rows -> Entries(Values \ {None})'] /\ CachedRows'
<1>1. TypeOK /\ rows \in [Rows -> Entries(Values \ {None})]
  BY Zenon DEF IInv, TypeOK
<1>2. rows' \in [Rows -> Entries(Values \ {None})']
  <2>1. Empty \in Entries(Values \ {None})' /\ Entries(Values \ {None}) \subseteq Entries(Values \ {None})'
    BY <1>1, ClockGrows, Zenon DEF Entries
  <2> QED
    BY <1>1, <2>1, Zenon
<1>3. CachedRows'
  <2> SUFFICES ASSUME NEW k \in Rows, rows'[k] # Empty
               PROVE  HeldSince(k, rows[k].value, rows[k].stored_at - Timeout)'
    BY Zenon DEF CachedRows
  <2>1. PICK d : d = rows[k]
    OBVIOUS
  <2>2. d = rows'[k] /\ d \in [value : Values \ {None}, stored_at : 0 .. now]
    BY <1>1, <2>1, Zenon DEF Entries
  <2>3. d.stored_at - Timeout \in Int /\ d.stored_at - Timeout <= now /\ d.value \in Values
    BY <1>1, <2>2, Numbers, HistoryTypes
  <2>4. HeldSince(k, d.value, d.stored_at - Timeout)
    BY <2>1, <2>2, Zenon DEF IInv, CachedRows
  <2>5. HeldSince(k, d.value, d.stored_at - Timeout)'
    BY <1>1, <2>3, <2>4, HeldStays, Zenon
  <2> QED
    BY <2>2, <2>5, Zenon
<1> QED
  BY <1>2, <1>3, Zenon

LEMMA TasksKept ==
    ASSUME IInv, [Next]_vars, task' = [r \in Requests |-> task'[r]],
           \A r \in Requests : \/ task'[r] \in {Idle, Done}
                               \/ task'[r] = task[r] /\ (r \in Running => now' - task[r].start <= Timeout)
    PROVE  task' \in [Requests -> Tasks'] /\ Handlers'
<1>1. TypeOK /\ task \in [Requests -> Tasks]
  BY Zenon DEF IInv, TypeOK
<1>2. Tasks \subseteq Tasks' /\ Idle \in Tasks /\ Done \in Tasks /\ Idle.pc = "idle" /\ Done.pc = "done"
  BY <1>1, ClockGrows, DoneTask, Zenon
<1>3. task' \in [Requests -> Tasks']
  BY <1>1, <1>2, Zenon
<1>4. Handlers'
  <2> SUFFICES ASSUME NEW r \in Requests, task'[r].pc \in {"look up", "fill"}
               PROVE  HandlerOK(task[r])'
    BY Zenon DEF Handlers, Running
  <2>1. PICK t : t = task[r]
    OBVIOUS
  <2>2. t \in Tasks /\ task'[r] = t /\ r \in Running
    BY <1>1, <1>2, <2>1, Zenon DEF Running
  <2>3. HandlerOK(t) /\ now' - t.start <= Timeout
    BY <1>2, <2>1, <2>2, Zenon DEF IInv, Handlers
  <2> QED
    BY <1>1, <2>2, <2>3, HandlerStays, Zenon
<1> QED
  BY <1>3, <1>4, Zenon

LEMMA DecisionsKept ==
    ASSUME IInv, [Next]_vars, decisions' = [e \in Events |-> decisions'[e]],
           \A e \in Events : decisions'[e] = Empty \/ decisions'[e] = decisions[e]
    PROVE  decisions' \in [Events -> Entries(Decisions)'] /\ CachedDecisions'
<1>1. TypeOK /\ decisions \in [Events -> Entries(Decisions)]
  BY Zenon DEF IInv, TypeOK
<1>2. decisions' \in [Events -> Entries(Decisions)']
  <2>1. Empty \in Entries(Decisions)' /\ Entries(Decisions) \subseteq Entries(Decisions)'
    BY <1>1, ClockGrows, Zenon DEF Entries
  <2> QED
    BY <1>1, <2>1, Zenon
<1>3. CachedDecisions'
  <2> SUFFICES ASSUME NEW e \in Events, decisions'[e] # Empty
               PROVE  DecisionOK(e, decisions[e])'
    BY Zenon DEF CachedDecisions
  <2>1. PICK d : d = decisions[e]
    OBVIOUS
  <2>2. d = decisions'[e] /\ d.stored_at \in 0 .. now /\ DecisionOK(e, d)
    BY <1>1, <2>1, Zenon DEF Entries, IInv, CachedDecisions
  <2> QED
    BY <1>1, <2>2, DecisionStays, Zenon
<1> QED
  BY <1>2, <1>3, Zenon

LEMMA NoAnswerKept ==
    ASSUME answer' = NoAnswer
    PROVE  DecisionIsRecent' /\ ErrorIsRecent'
  BY Zenon DEF DecisionIsRecent, ErrorIsRecent, NoAnswer, None

\* The parts of the invariant put together.
LEMMA Assemble ==
    ASSUME IInv, [Next]_vars,
           rows' \in [Rows -> Entries(Values \ {None})'], CachedRows',
           task' \in [Requests -> Tasks'], Handlers',
           decisions' \in [Events -> Entries(Decisions)'], CachedDecisions',
           answer' \in {NoAnswer} \cup [event : Events, decision : Decisions],
           DecisionIsRecent', ErrorIsRecent'
    PROVE  IInv'
<1>1. TypeOK
  BY Zenon DEF IInv
<1>2. TypeOK'
  BY <1>1, ClockGrows, Zenon DEF TypeOK
<1> QED
  BY <1>2, Zenon DEF IInv

LEMMA AnswerCachedStep ==
    ASSUME IInv, [Next]_vars, NEW e \in Events, AnswerCached(e)
    PROVE  IInv'
<1>1. /\ rows' = rows /\ task' = task /\ decisions' = decisions /\ now' = now
      /\ is_fresh(decisions[e]) /\ answer' = [event |-> e, decision |-> decisions[e].value]
  BY Zenon DEF AnswerCached
<1>2. TypeOK /\ rows \in [Rows -> Entries(Values \ {None})] /\ task \in [Requests -> Tasks]
      /\ decisions \in [Events -> Entries(Decisions)]
  BY Zenon DEF IInv, TypeOK
<1>3. \A r \in Running : now' - task[r].start <= Timeout
  BY <1>1, Zenon DEF IInv, Handlers, HandlerOK
<1>4. /\ rows' \in [Rows -> Entries(Values \ {None})'] /\ CachedRows'
      /\ task' \in [Requests -> Tasks'] /\ Handlers'
      /\ decisions' \in [Events -> Entries(Decisions)'] /\ CachedDecisions'
  BY <1>1, <1>2, <1>3, RowsKept, TasksKept, DecisionsKept, Zenon
<1>5. PICK d \in [value : Decisions, stored_at : 0 .. now] :
        d = decisions[e] /\ now - d.stored_at < TTL /\ DecisionOK(e, d)
  BY <1>1, <1>2, Zenon DEF Entries, is_fresh, IInv, CachedDecisions
<1>6. /\ d.value \in Decisions /\ d.stored_at \in Nat /\ d.stored_at <= now /\ now \in Nat
      /\ now - d.stored_at < TTL
  BY <1>2, <1>5, HistoryTypes
<1>7. answer' \in [event : Events, decision : Decisions]
  BY <1>1, <1>5, <1>6, Zenon
<1>8. DecisionIsRecent'
  <2>1. PICK s \in Int : s = now - 2 * (TTL - 1) - 2 * Timeout
    BY <1>6, Numbers
  <2>2. /\ Reach(d.stored_at) - Timeout \in Int /\ s <= Reach(d.stored_at) - Timeout /\ s <= now
    BY <1>6, <2>1, Numbers DEF Reach
  <2>3. FollowsSince(e, d.value, s)
    BY <1>2, <1>5, <2>2, FollowsEarlier, Zenon DEF DecisionOK
  <2>4. FollowsSince(e, d.value, s)'
    BY <1>2, <2>2, <2>3, FollowsStays, Zenon
  <2> QED
    BY <1>1, <1>5, <2>1, <2>4, Zenon DEF DecisionIsRecent
<1>9. ErrorIsRecent'
  <2> SUFFICES ASSUME answer'.decision = "storage error"
               PROVE  failed' >= 0 /\ failed' > now' - TTL
    BY Zenon DEF ErrorIsRecent
  <2>1. d.value = "storage error"
    BY <1>1, <1>5, Zenon
  <2>2. failed >= d.stored_at /\ failed \in Int /\ failed' = failed
    BY <1>2, <1>5, <2>1, HistoryTypes, Zenon DEF DecisionOK, AnswerCached
  <2> QED
    BY <1>1, <1>6, <2>2, FailedWithin, Zenon
<1> QED
  BY <1>4, <1>7, <1>8, <1>9, Assemble, Zenon

\* A row or a decision that a handler may go on with.
LEMMA VerdictStep ==
    ASSUME IInv, [Next]_vars, now' = now, NEW t \in Tasks, HandlerOK(t), NEW v \in Values, NEW x,
           HeldSince(t.row, v, Reach(t.start)), x = evaluate(t.event, t.url, t.row, v)
    PROVE  /\ x \in Rows => MayGoOn(t, x)
           /\ x \in Decisions => MayAnswer(t.event, x)
<1>0. TypeOK /\ t.start \in 0 .. now /\ now - t.start <= Timeout
  BY Zenon DEF IInv, Tasks, HandlerOK
<1>1. TypeOK /\ now \in Nat /\ t.start \in Int /\ t.start <= now /\ now - t.start <= Timeout
  BY <1>0, HistoryTypes
<1>2. ASSUME x \in Rows
      PROVE  MayGoOn(t, x)
  <2>1. HandlerOK(LookUp(t, x))
    BY <1>2, Verdict, Zenon
  <2>2. LookUp(t, x) \in Tasks /\ LookUp(t, x).start = t.start
    BY <1>2, Zenon DEF LookUp, Tasks, Values
  <2>3. now' - LookUp(t, x).start <= Timeout
    BY <1>1, <2>2, Zenon
  <2> QED
    BY <1>1, <2>1, <2>2, <2>3, HandlerStays, Zenon DEF MayGoOn
<1>3. ASSUME x \in Decisions, NEW s \in Int, s <= Reach(now) - Timeout
      PROVE  FollowsSince(t.event, x, s)'
  <2>1. FollowsSince(t.event, x, Reach(t.start))
    BY <1>3, Verdict, Zenon
  <2>2. Reach(t.start) \in Int /\ s <= Reach(t.start) /\ s <= now
    BY <1>1, <1>3, ReachBack, Zenon
  <2>3. FollowsSince(t.event, x, s)
    BY <1>1, <2>1, <2>2, FollowsEarlier, Zenon
  <2> QED
    BY <1>1, <2>2, <2>3, FollowsStays, Zenon
<1>4. x # "storage error"
  BY EvaluateNoError, Zenon DEF HandlerOK
<1> QED
  BY <1>2, <1>3, <1>4, Zenon DEF MayAnswer

\* What a step leaves alone that only concludes.
LEMMA SameClock ==
    ASSUME IInv, [Next]_vars, now' = now
    PROVE  /\ TypeOK /\ task \in [Requests -> Tasks] /\ rows \in [Rows -> Entries(Values \ {None})]
           /\ decisions \in [Events -> Entries(Decisions)]
           /\ Tasks' = Tasks /\ \A S : Entries(S)' = Entries(S)
           /\ \A r \in Running : now' - task[r].start <= Timeout
<1>1. TypeOK /\ task \in [Requests -> Tasks] /\ rows \in [Rows -> Entries(Values \ {None})]
      /\ decisions \in [Events -> Entries(Decisions)]
  BY Zenon DEF IInv, TypeOK
<1>2. Tasks' = Tasks /\ \A S : Entries(S)' = Entries(S)
  BY Zenon DEF Tasks, Entries
<1>3. \A r \in Running : now' - task[r].start <= Timeout
  BY Zenon DEF IInv, Handlers, HandlerOK
<1> QED
  BY <1>1, <1>2, <1>3, Zenon

LEMMA BeginStep ==
    ASSUME IInv, [Next]_vars, NEW r \in Requests, NEW e \in Events, NEW u \in RelayUrls, Begin(r, e, u)
    PROVE  IInv'
<1> DEFINE t == [pc |-> "look up", row |-> None, event |-> e, url |-> u, start |-> now, value |-> None]
           x == IF u # None THEN u ELSE after_compatibility(e, u)
           n == [t EXCEPT !.row = x]
<1>1. now' = now /\ rows' = rows /\ db' = db /\ held' = held /\ failed' = failed
  BY Zenon DEF Begin
<1>2. /\ TypeOK /\ task \in [Requests -> Tasks] /\ rows \in [Rows -> Entries(Values \ {None})]
      /\ decisions \in [Events -> Entries(Decisions)]
      /\ Tasks' = Tasks /\ \A S : Entries(S)' = Entries(S)
      /\ \A q \in Running : now' - task[q].start <= Timeout
  BY <1>1, SameClock, Zenon
<1>3. rows' \in [Rows -> Entries(Values \ {None})'] /\ CachedRows'
  BY <1>1, <1>2, RowsKept, Zenon
<1>4. now \in Nat /\ now \in 0 .. now
  BY <1>2, HistoryTypes
<1>5. t \in Tasks /\ t.event = e
  BY <1>4, Zenon DEF Tasks, Values
<1>6. CASE /\ x \in Rows
           /\ task' = [task EXCEPT ![r] = n]
           /\ decisions' = [decisions EXCEPT ![e] = Empty]
           /\ answer' = NoAnswer
  <2>1. n \in Tasks
    BY <1>5, <1>6, Zenon DEF Tasks
  <2>2. /\ n.pc = "look up" /\ n.row = x /\ n.event = e /\ n.url = u /\ n.start = now
    OBVIOUS
  <2>3. HandlerOK(n)
    <3>1. now - n.start <= Timeout
      BY <1>4, <2>2, Numbers
    <3>2. CASE u # None
      BY <1>6, <2>2, <3>1, <3>2, NamesDiffer, Zenon DEF HandlerOK, RelayUrls
    <3>3. CASE u = None
      <4>1. x = Announcement
        BY <1>6, <3>3, DecisionsFor, DecisionsAreNoRows, Zenon
      <4> QED
        BY <1>6, <2>2, <3>1, <3>3, <4>1, NamesDiffer, Zenon DEF HandlerOK
    <3> QED
      BY <3>2, <3>3, Zenon
  <2>4. Handlers'
    <3> SUFFICES ASSUME NEW q \in Requests, task'[q].pc \in {"look up", "fill"}
                 PROVE  HandlerOK(task[q])'
      BY Zenon DEF Handlers, Running
    <3>1. PICK h : h = task'[q]
      OBVIOUS
    <3>2. /\ h \in Tasks /\ HandlerOK(h) /\ now' - h.start <= Timeout
      <4>1. CASE q = r
        BY <1>1, <1>2, <1>6, <2>1, <2>3, <3>1, <4>1, Zenon DEF HandlerOK
      <4>2. CASE q # r
        <5>1. h = task[q] /\ q \in Running
          BY <1>2, <1>6, <3>1, <4>2, Zenon DEF Running
        <5> QED
          BY <1>2, <5>1, Zenon DEF IInv, Handlers
      <4> QED
        BY <4>1, <4>2, Zenon
    <3> QED
      BY <1>2, <3>1, <3>2, HandlerStays, Zenon
  <2>5. task' \in [Requests -> Tasks']
    BY <1>2, <1>6, <2>1, Zenon
  <2>6. decisions' \in [Events -> Entries(Decisions)'] /\ CachedDecisions'
    BY <1>2, <1>6, DecisionsKept, Zenon
  <2> QED
    BY <1>3, <1>6, <2>4, <2>5, <2>6, NoAnswerKept, Assemble, ZenonT(30)
<1>7. CASE x \in Decisions /\ Conclude(r, t, x)
  <2>1. u = None /\ x = after_compatibility(e, u) /\ x # Announcement /\ x \notin Rows
    BY <1>7, DecisionsAreNoRows, NamesDiffer, Zenon DEF RelayUrls
  <2>2. ASSUME NEW s \in Int
        PROVE  FollowsSince(e, x, s)'
    <3>1. Decided(e, u, db) = x /\ db \in [Rows -> Values]
      BY <1>2, <2>1, Zenon DEF Decided, TypeOK
    <3>2. Decided(e, u, db)' = x
      BY <2>1, <1>1, Zenon DEF Decided
    <3>3. \A k \in Rows : HeldSince(k, db[k], s)'
      BY <1>1, Zenon DEF HeldSince
    <3> QED
      BY <1>1, <3>1, <3>2, <3>3, Zenon DEF FollowsSince
  <2>3. x # "storage error"
    BY <2>1, Zenon DEF after_compatibility, decision_for, evaluate_admission, Announcement
  <2>4. MayAnswer(t.event, x)
    BY <1>5, <2>2, <2>3, Zenon DEF MayAnswer
  <2>5. /\ task' \in [Requests -> Tasks] /\ decisions' \in [Events -> Entries(Decisions)]
        /\ answer' \in {NoAnswer} \cup [event : Events, decision : Decisions]
        /\ Handlers' /\ CachedDecisions' /\ DecisionIsRecent' /\ ErrorIsRecent'
    <3> HIDE DEF t, x
    <3> QED
      BY <1>1, <1>5, <1>7, <2>1, <2>4, ConcludeStep, Zenon
  <2> QED
    BY <1>2, <1>3, <2>5, Assemble, Zenon
<1> QED
  BY <1>6, <1>7, Zenon DEF Begin

LEMMA ReadCachedStep ==
    ASSUME IInv, [Next]_vars, NEW r \in Requests, ReadCached(r)
    PROVE  IInv'
<1>1. now' = now /\ rows' = rows /\ r \in Running
  BY Zenon DEF ReadCached, Running
<1>2. /\ TypeOK /\ task \in [Requests -> Tasks] /\ rows \in [Rows -> Entries(Values \ {None})]
      /\ Tasks' = Tasks /\ \A S : Entries(S)' = Entries(S)
  BY <1>1, SameClock, Zenon
<1>3. rows' \in [Rows -> Entries(Values \ {None})'] /\ CachedRows'
  BY <1>1, <1>2, RowsKept, Zenon
<1>4. PICK t \in Tasks : t = task[r] /\ HandlerOK(t)
  BY <1>1, <1>2, Zenon DEF IInv, Handlers
<1>5. t.row \in Rows /\ t.event \in Events
  BY <1>4, Zenon DEF HandlerOK
<1>6. PICK d \in [value : Values \ {None}, stored_at : 0 .. now] :
        d = rows[t.row] /\ now - d.stored_at < TTL /\ HeldSince(t.row, d.value, d.stored_at - Timeout)
  BY <1>2, <1>4, <1>5, Zenon DEF ReadCached, is_fresh, Entries, IInv, CachedRows
<1>7. HeldSince(t.row, d.value, Reach(t.start)) /\ d.value \in Values
  <2>0. t.start \in 0 .. now
    BY Zenon DEF Tasks
  <2>1. /\ now \in Nat /\ t.start \in Nat /\ t.start <= now /\ d.stored_at \in Nat /\ d.value \in Values
    BY SMTT(20), <1>2, <2>0, HistoryTypes
  <2>2. Reach(t.start) \in Int /\ d.stored_at - Timeout \in Int /\ Reach(t.start) <= d.stored_at - Timeout
    BY <1>6, <2>1, Numbers DEF Reach
  <2> QED
    BY <1>2, <1>5, <1>6, <2>1, <2>2, HeldEarlier, Zenon
<1>8. PICK x : x = evaluate(t.event, t.url, t.row, d.value)
  OBVIOUS
<1>9. Conclude(r, t, x)
  BY <1>4, <1>6, <1>8, Zenon DEF ReadCached
<1>10. (x \in Rows => MayGoOn(t, x)) /\ (x \in Decisions => MayAnswer(t.event, x))
  BY <1>1, <1>4, <1>7, <1>8, VerdictStep, Zenon
<1>11. /\ task' \in [Requests -> Tasks] /\ decisions' \in [Events -> Entries(Decisions)]
       /\ answer' \in {NoAnswer} \cup [event : Events, decision : Decisions]
       /\ Handlers' /\ CachedDecisions' /\ DecisionIsRecent' /\ ErrorIsRecent'
  BY <1>1, <1>5, <1>9, <1>10, ConcludeStep, Zenon
<1> QED
  BY <1>2, <1>3, <1>11, Assemble, Zenon

LEMMA ReadStoredStep ==
    ASSUME IInv, [Next]_vars, NEW r \in Requests, ReadStored(r)
    PROVE  IInv'
<1>1. /\ now' = now /\ decisions' = decisions /\ r \in Running /\ answer' = NoAnswer /\ db' = db /\ held' = held
  BY Zenon DEF ReadStored, Running
<1>2. /\ TypeOK /\ task \in [Requests -> Tasks] /\ rows \in [Rows -> Entries(Values \ {None})]
      /\ decisions \in [Events -> Entries(Decisions)]
      /\ Tasks' = Tasks /\ \A S : Entries(S)' = Entries(S)
      /\ \A q \in Running : now' - task[q].start <= Timeout
  BY <1>1, SameClock, Zenon
<1>3. PICK t \in Tasks : t = task[r] /\ HandlerOK(t)
  BY <1>1, <1>2, Zenon DEF IInv, Handlers
<1>4. t.row \in Rows /\ db \in [Rows -> Values]
  BY <1>2, <1>3, Zenon DEF HandlerOK, TypeOK
<1>5. rows' \in [Rows -> Entries(Values \ {None})'] /\ CachedRows'
  <2>1. rows' = [rows EXCEPT ![t.row] = Empty]
    BY <1>3, Zenon DEF ReadStored
  <2> QED
    BY <1>2, <1>4, <2>1, RowsKept, Zenon
<1>6. decisions' \in [Events -> Entries(Decisions)'] /\ CachedDecisions'
  BY <1>1, <1>2, DecisionsKept, Zenon
<1>7. PICK n : n = [t EXCEPT !.pc = "fill", !.value = db[t.row]]
  OBVIOUS
<1>8. /\ n \in Tasks /\ n.pc = "fill" /\ n.row = t.row /\ n.value = db[t.row]
      /\ n.event = t.event /\ n.url = t.url /\ n.start = t.start
  BY <1>4, <1>7, Zenon DEF Tasks
<1>9. task' = [task EXCEPT ![r] = n]
  BY <1>2, <1>3, <1>7, Zenon DEF ReadStored
<1>10. HandlerOK(n)
  BY <1>3, <1>8, Zenon DEF HandlerOK, HeldSince
<1>11. task' \in [Requests -> Tasks'] /\ Handlers'
  <2>1. task' \in [Requests -> Tasks']
    BY <1>2, <1>8, <1>9, Zenon
  <2>2. Handlers'
    <3> SUFFICES ASSUME NEW q \in Requests, task'[q].pc \in {"look up", "fill"}
                 PROVE  HandlerOK(task[q])'
      BY Zenon DEF Handlers, Running
    <3>1. PICK h : h = task'[q]
      OBVIOUS
    <3>2. /\ h \in Tasks /\ HandlerOK(h) /\ now' - h.start <= Timeout
      <4>1. CASE q = r
        BY <1>1, <1>2, <1>8, <1>9, <1>10, <3>1, <4>1, Zenon DEF HandlerOK
      <4>2. CASE q # r
        <5>1. h = task[q] /\ q \in Running
          BY <1>2, <1>9, <3>1, <4>2, Zenon DEF Running
        <5> QED
          BY <1>2, <5>1, Zenon DEF IInv, Handlers
      <4> QED
        BY <4>1, <4>2, Zenon
    <3> QED
      BY <1>2, <3>1, <3>2, HandlerStays, Zenon
  <2> QED
    BY <2>1, <2>2, Zenon
<1> QED
  BY <1>1, <1>5, <1>6, <1>11, NoAnswerKept, Assemble, Zenon

LEMMA ReadFailedStep ==
    ASSUME IInv, [Next]_vars, NEW r \in Requests, ReadFailed(r)
    PROVE  IInv'
<1>1. now' = now /\ r \in Running /\ mode' = mode /\ failed' = now
  BY Zenon DEF ReadFailed, Running
<1>2. /\ TypeOK /\ task \in [Requests -> Tasks] /\ rows \in [Rows -> Entries(Values \ {None})]
      /\ Tasks' = Tasks /\ \A S : Entries(S)' = Entries(S)
  BY <1>1, SameClock, Zenon
<1>3. PICK t \in Tasks : t = task[r] /\ HandlerOK(t)
  BY <1>1, <1>2, Zenon DEF IInv, Handlers
<1>4. t.row \in Rows /\ t.event \in Events /\ t.url \in RelayUrls /\ now \in Nat
  BY <1>2, <1>3, HistoryTypes, Zenon DEF HandlerOK, Tasks
<1>5. rows' \in [Rows -> Entries(Values \ {None})'] /\ CachedRows'
  <2>1. rows' = [rows EXCEPT ![t.row] = Empty]
    BY <1>3, Zenon DEF ReadFailed
  <2> QED
    BY <1>2, <1>4, <2>1, RowsKept, Zenon
<1>6. PICK x : x = evaluate_error(t.event, t.url, t.row)
  OBVIOUS
<1>7. Conclude(r, t, x)
  BY <1>3, <1>6, Zenon DEF ReadFailed
<1>8. x \in Decisions
  BY <1>6, DecisionsFor, Zenon DEF evaluate_error, Decisions
<1>9. ASSUME NEW s \in Int, s <= Reach(now) - Timeout
      PROVE  FollowsSince(t.event, x, s)'
  <2>1. failed' >= 0 /\ failed' >= s
    BY <1>1, <1>4, <1>9, Numbers DEF Reach
  <2>2. x = evaluate_error(t.event, t.url, t.row)'
    BY <1>1, <1>6, Zenon DEF evaluate_error
  <2> QED
    BY <1>4, <2>1, <2>2, Zenon DEF FollowsSince
<1>10. MayAnswer(t.event, x)
  BY <1>1, <1>9, Zenon DEF MayAnswer
<1>11. x \notin Rows
  BY <1>8, DecisionsAreNoRows, Zenon
<1>12. /\ task' \in [Requests -> Tasks] /\ decisions' \in [Events -> Entries(Decisions)]
       /\ answer' \in {NoAnswer} \cup [event : Events, decision : Decisions]
       /\ Handlers' /\ CachedDecisions' /\ DecisionIsRecent' /\ ErrorIsRecent'
  BY SMTT(20), <1>1, <1>4, <1>7, <1>10, <1>11, ConcludeStep
<1> QED
  BY <1>2, <1>5, <1>12, Assemble, Zenon

LEMMA FillStep ==
    ASSUME IInv, [Next]_vars, NEW r \in Requests, Fill(r)
    PROVE  IInv'
<1>1. now' = now /\ r \in Running /\ task[r].pc = "fill"
  BY Zenon DEF Fill, Running
<1>2. /\ TypeOK /\ task \in [Requests -> Tasks] /\ rows \in [Rows -> Entries(Values \ {None})]
      /\ Tasks' = Tasks /\ \A S : Entries(S)' = Entries(S)
  BY <1>1, SameClock, Zenon
<1>3. PICK t \in Tasks : t = task[r] /\ HandlerOK(t)
  BY <1>1, <1>2, Zenon DEF IInv, Handlers
<1>4. /\ t.row \in Rows /\ t.event \in Events /\ t.value \in Values /\ t.start \in 0 .. now
      /\ HeldSince(t.row, t.value, t.start) /\ now - t.start <= Timeout
  BY <1>1, <1>3, Zenon DEF HandlerOK, Tasks
<1>5. now \in Nat /\ t.start \in Int /\ t.start <= now
  BY <1>2, <1>4, HistoryTypes
<1>6. rows' \in [Rows -> Entries(Values \ {None})'] /\ CachedRows'
  <2>1. CASE t.value = None
    <3>1. rows' = rows
      BY <1>3, <2>1, Zenon DEF Fill
    <3> QED
      BY <1>2, <3>1, RowsKept, Zenon
  <2>2. CASE t.value # None
    <3>1. PICK next : next = rows' /\ next \in Inserted(rows, MapOf(t.row), t.row, t.value)
      BY <1>3, <2>2, Zenon DEF Fill
    <3>2. rows = [k \in Rows |-> rows[k]]
      BY <1>2, Zenon
    <3>3. /\ next = [k \in Rows |-> next[k]]
          /\ \A k \in Rows : \/ next[k] = Empty
                             \/ k # t.row /\ next[k] = rows[k]
                             \/ k = t.row /\ next[k] = [value |-> t.value, stored_at |-> now]
      BY SMTT(20), <1>4, <3>1, <3>2, InsertedEntries
    <3>4. [value |-> t.value, stored_at |-> now] \in Entries(Values \ {None})
      BY <1>4, <1>5, <2>2 DEF Entries
    <3>5. rows' \in [Rows -> Entries(Values \ {None})']
      BY <1>2, <3>1, <3>3, <3>4, Zenon DEF Entries
    <3>6. CachedRows'
      <4> SUFFICES ASSUME NEW k \in Rows, rows'[k] # Empty
                   PROVE  HeldSince(k, rows[k].value, rows[k].stored_at - Timeout)'
        BY Zenon DEF CachedRows
      <4>1. PICK d : d = rows'[k]
        OBVIOUS
      <4>2. d.value \in Values /\ d.stored_at \in 0 .. now
        BY <3>5, <1>2, <4>1 DEF Entries
      <4>3. d.stored_at - Timeout \in Int /\ d.stored_at - Timeout <= now
        BY <4>2, <1>5, Numbers
      <4>4. HeldSince(k, d.value, d.stored_at - Timeout)
        <5>1. CASE k = t.row
          <6>1. d.value = t.value /\ d.stored_at = now
            BY SMTT(20), <3>1, <3>3, <4>1, <5>1
          <6>2. d.stored_at - Timeout <= t.start
            BY <1>4, <1>5, <6>1, Numbers
          <6> QED
            BY <1>2, <1>4, <1>5, <4>3, <5>1, <6>1, <6>2, HeldEarlier, Zenon
        <5>2. CASE k # t.row
          <6>1. d = rows[k] /\ rows[k] # Empty
            BY <3>1, <3>3, <4>1, <5>2, Zenon
          <6> QED
            BY <6>1, Zenon DEF IInv, CachedRows
        <5> QED
          BY <5>1, <5>2, Zenon
      <4>5. HeldSince(k, d.value, d.stored_at - Timeout)'
        BY <1>2, <4>2, <4>3, <4>4, HeldStays, Zenon
      <4> QED
        BY <4>1, <4>5, Zenon
    <3> QED
      BY <3>5, <3>6, Zenon
  <2> QED
    BY <2>1, <2>2, Zenon
<1>7. HeldSince(t.row, t.value, Reach(t.start))
  <2>1. Reach(t.start) \in Int /\ Reach(t.start) <= t.start
    BY <1>5, Numbers DEF Reach
  <2> QED
    BY <1>2, <1>4, <1>5, <2>1, HeldEarlier, Zenon
<1>8. PICK x : x = evaluate(t.event, t.url, t.row, t.value)
  OBVIOUS
<1>9. Conclude(r, t, x)
  BY <1>3, <1>8, Zenon DEF Fill
<1>10. (x \in Rows => MayGoOn(t, x)) /\ (x \in Decisions => MayAnswer(t.event, x))
  BY <1>1, <1>3, <1>4, <1>7, <1>8, VerdictStep, Zenon
<1>11. /\ task' \in [Requests -> Tasks] /\ decisions' \in [Events -> Entries(Decisions)]
       /\ answer' \in {NoAnswer} \cup [event : Events, decision : Decisions]
       /\ Handlers' /\ CachedDecisions' /\ DecisionIsRecent' /\ ErrorIsRecent'
  BY <1>1, <1>4, <1>9, <1>10, ConcludeStep, Zenon
<1> QED
  BY <1>2, <1>6, <1>11, Assemble, Zenon

\* Steps that answer nothing and start nothing.
LEMMA QuietStep ==
    ASSUME IInv, [Next]_vars, answer' = NoAnswer,
           rows' = [k \in Rows |-> rows'[k]], \A k \in Rows : rows'[k] = Empty \/ rows'[k] = rows[k],
           decisions' = [e \in Events |-> decisions'[e]],
           \A e \in Events : decisions'[e] = Empty \/ decisions'[e] = decisions[e],
           task' = [r \in Requests |-> task'[r]],
           \A r \in Requests : \/ task'[r] \in {Idle, Done}
                               \/ task'[r] = task[r] /\ (r \in Running => now' - task[r].start <= Timeout)
    PROVE  IInv'
  BY RowsKept, DecisionsKept, TasksKept, NoAnswerKept, Assemble, Zenon

LEMMA TickStep == ASSUME IInv, [Next]_vars, Tick PROVE IInv'
<1>1. /\ TypeOK /\ rows \in [Rows -> Entries(Values \ {None})]
      /\ decisions \in [Events -> Entries(Decisions)] /\ task \in [Requests -> Tasks]
  BY Zenon DEF IInv, TypeOK
<1>2. ASSUME NEW r \in Running
      PROVE  now' - task[r].start <= Timeout
  <2>1. PICK n : n = task[r].start
    OBVIOUS
  <2>2. n \in 0 .. now
    BY <1>1, <2>1, Zenon DEF Running, Tasks
  <2>3. now - n < Timeout /\ now' = now + 1
    BY <2>1, Zenon DEF Tick, Running
  <2>4. now' - n <= Timeout
    BY <1>1, <2>2, <2>3, HistoryTypes, Numbers
  <2> QED
    BY <2>1, <2>4, Zenon
<1> QED
  BY <1>1, <1>2, QuietStep, Zenon DEF Tick

LEMMA OtherStep ==
    ASSUME IInv, [Next]_vars,
           \/ Restart
           \/ \E k \in Rows, v \in Values : Write(k, v)
           \/ \E r \in Requests : GiveUp(r)
    PROVE  IInv'
<1>1. now' = now /\ answer' = NoAnswer
  BY Zenon DEF Restart, Write, GiveUp
<1>2. /\ TypeOK /\ rows \in [Rows -> Entries(Values \ {None})] /\ task \in [Requests -> Tasks]
      /\ decisions \in [Events -> Entries(Decisions)]
      /\ \A r \in Running : now' - task[r].start <= Timeout
  BY <1>1, SameClock, Zenon
<1>3. CASE Restart
  BY <1>1, <1>2, <1>3, QuietStep, Zenon DEF Restart
<1>4. CASE \E k \in Rows, v \in Values : Write(k, v)
  BY <1>1, <1>2, <1>4, QuietStep, Zenon DEF Write
<1>5. CASE \E r \in Requests : GiveUp(r)
  <2>1. PICK r \in Requests : GiveUp(r)
    BY <1>5, Zenon
  <2>2. task' = [task EXCEPT ![r] = Done] /\ rows' = rows /\ decisions' = decisions
    BY <2>1, Zenon DEF GiveUp
  <2> QED
    BY <1>1, <1>2, <2>2, QuietStep, Zenon
<1> QED
  BY <1>3, <1>4, <1>5, Zenon

LEMMA StutterStep == ASSUME IInv, UNCHANGED vars PROVE IInv'
<1>1. /\ [Next]_vars /\ now' = now /\ rows' = rows /\ task' = task /\ decisions' = decisions
      /\ answer' = answer /\ failed' = failed
  BY Zenon DEF vars
<1>2. /\ TypeOK /\ rows \in [Rows -> Entries(Values \ {None})] /\ task \in [Requests -> Tasks]
      /\ decisions \in [Events -> Entries(Decisions)]
      /\ \A r \in Running : now' - task[r].start <= Timeout
  BY <1>1, SameClock, Zenon
<1>3. /\ rows' \in [Rows -> Entries(Values \ {None})'] /\ CachedRows'
      /\ task' \in [Requests -> Tasks'] /\ Handlers'
      /\ decisions' \in [Events -> Entries(Decisions)'] /\ CachedDecisions'
  BY <1>1, <1>2, RowsKept, TasksKept, DecisionsKept, Zenon
<1>4. ErrorIsRecent' /\ answer' \in {NoAnswer} \cup [event : Events, decision : Decisions]
  BY <1>1, Zenon DEF IInv, TypeOK, ErrorIsRecent
<1>5. DecisionIsRecent'
  <2> SUFFICES ASSUME answer' # NoAnswer
               PROVE  FollowsSince(answer.event, answer.decision, now - 2 * (TTL - 1) - 2 * Timeout)'
    BY Zenon DEF DecisionIsRecent
  <2>1. PICK a, s : a = answer /\ s = now - 2 * (TTL - 1) - 2 * Timeout
    OBVIOUS
  <2>2. s \in Int /\ s <= now
    BY <1>2, <2>1, HistoryTypes, Numbers
  <2>3. FollowsSince(a.event, a.decision, s)
    BY <1>1, <2>1, Zenon DEF IInv, DecisionIsRecent
  <2>4. FollowsSince(a.event, a.decision, s)'
    BY <1>1, <1>2, <2>2, <2>3, FollowsStays, Zenon
  <2> QED
    BY <1>1, <2>1, <2>4, Zenon
<1> QED
  BY <1>1, <1>3, <1>4, <1>5, Assemble, Zenon

LEMMA Invariance == Spec => []IInv
<1>1. IInv /\ [Next]_vars => IInv'
  <2> SUFFICES ASSUME IInv, [Next]_vars
               PROVE  IInv'
    OBVIOUS
  <2>1. CASE \E r \in Requests : ReadCached(r) \/ ReadStored(r) \/ ReadFailed(r) \/ Fill(r)
    BY <2>1, ReadCachedStep, ReadStoredStep, ReadFailedStep, FillStep, Zenon
  <2>2. CASE \/ \E e \in Events : AnswerCached(e)
             \/ \E r \in Requests, e \in Events, u \in RelayUrls : Begin(r, e, u)
    BY <2>2, AnswerCachedStep, BeginStep, Zenon
  <2> QED
    BY <2>1, <2>2, TickStep, OtherStep, StutterStep, Zenon DEF Next
<1> QED
  BY InitIInv, <1>1, PTL DEF Spec

\* For every lifetime, timeout and cache size, and any number of concurrent
\* requests, an answer of the admission service follows from what the rows it
\* is about were at most two lifetimes and two timeouts ago.
THEOREM DecisionsAreRecent == Spec => []DecisionIsRecent
<1>1. IInv => DecisionIsRecent
  BY Zenon DEF IInv
<1> QED
  BY Invariance, <1>1, PTL

\* A storage error is never answered longer than a lifetime after it happened.
THEOREM ErrorsAreForgotten == Spec => []ErrorIsRecent
<1>1. IInv => ErrorIsRecent
  BY Zenon DEF IInv
<1> QED
  BY Invariance, <1>1, PTL

\* The types of the service's state, for every value of the constants.
THEOREM AdmissionTypes == Spec => []TypeOK
<1>1. IInv => TypeOK
  BY Zenon DEF IInv
<1> QED
  BY Invariance, <1>1, PTL

-----------------------------------------------------------------------------
(***************************************************************************)
(* The size of the caches.  A map's entries are counted, so its set of     *)
(* entries must be known to be finite as well.                             *)
(***************************************************************************)
Few(map, keys) ==
    /\ IsFiniteSet(Cached(map, keys))
    /\ Cardinality(Cached(map, keys)) <= MaxEntries

LEMMA FewerIsFew ==
    ASSUME NEW map, NEW m, NEW keys, Few(map, keys), Cached(m, keys) \subseteq Cached(map, keys)
    PROVE  Few(m, keys)
<1>1. /\ IsFiniteSet(Cached(m, keys))
      /\ Cardinality(Cached(m, keys)) <= Cardinality(Cached(map, keys))
  BY FS_Subset, Zenon DEF Few
<1>2. Cardinality(Cached(map, keys)) \in Nat /\ Cardinality(Cached(m, keys)) \in Nat
  BY <1>1, FS_CardinalityType, Zenon DEF Few
<1> QED BY <1>1, <1>2, AdmissionAssumption DEF Few

LEMMA InsertKeepsFew ==
    ASSUME NEW S, NEW E, NEW map \in [S -> E], NEW keys \in SUBSET S, NEW key \in keys, NEW v,
           Few(map, keys), NEW m \in Inserted(map, keys, key, v)
    PROVE  Few(m, keys) /\ \A j \in S \ keys : m[j] = map[j]
<1> DEFINE filled == [map EXCEPT ![key] = [value |-> v, stored_at |-> now]]
           present == Cached(filled, keys)
           oldest == {k \in present : \A j \in present : filled[k].stored_at <= filled[j].stored_at}
<1>1. filled[key] = [value |-> v, stored_at |-> now] /\ \A j \in S \ {key} : filled[j] = map[j]
  OBVIOUS
<1>2. m \in (IF Cardinality(present) > MaxEntries
             THEN {[filled EXCEPT ![k] = Empty] : k \in oldest} ELSE {filled})
  BY Zenon DEF Inserted
<1>3. present \subseteq Cached(map, keys) \cup {key}
  BY <1>1, Zenon DEF Cached
<1>4. IsFiniteSet(Cached(map, keys) \cup {key})
      /\ Cardinality(Cached(map, keys) \cup {key}) <= Cardinality(Cached(map, keys)) + 1
  <2>1. IsFiniteSet(Cached(map, keys)) /\ Cardinality(Cached(map, keys)) \in Nat
    BY FS_CardinalityType, Zenon DEF Few
  <2>2. /\ IsFiniteSet(Cached(map, keys) \cup {key})
        /\ \/ Cardinality(Cached(map, keys) \cup {key}) = Cardinality(Cached(map, keys))
           \/ Cardinality(Cached(map, keys) \cup {key}) = Cardinality(Cached(map, keys)) + 1
    BY <2>1, FS_AddElement, Zenon
  <2> QED BY <2>1, <2>2
<1>5. IsFiniteSet(present) /\ Cardinality(present) <= Cardinality(Cached(map, keys) \cup {key})
  BY <1>3, <1>4, FS_Subset, Zenon
<1>6. /\ Cardinality(present) \in Nat /\ Cardinality(Cached(map, keys)) \in Nat
      /\ Cardinality(Cached(map, keys) \cup {key}) \in Nat
  BY <1>4, <1>5, FS_CardinalityType, Zenon DEF Few
<1>7. Cardinality(present) <= MaxEntries + 1
  BY <1>4, <1>5, <1>6, AdmissionAssumption DEF Few
<1>8. CASE Cardinality(present) > MaxEntries
  <2>1. PICK k \in oldest : m = [filled EXCEPT ![k] = Empty]
    BY <1>2, <1>8, Zenon
  <2>2. k \in present /\ k \in keys
    BY <2>1, Zenon DEF Cached
  <2>3. m[k] = Empty /\ \A j \in S \ {k} : m[j] = filled[j]
    BY <2>1, <2>2, Zenon
  <2>4. Cached(m, keys) = present \ {k}
    BY <2>2, <2>3, Zenon DEF Cached
  <2>5. IsFiniteSet(present \ {k}) /\ Cardinality(present \ {k}) = Cardinality(present) - 1
    BY <1>5, <2>2, FS_RemoveElement, Zenon
  <2>6. Few(m, keys)
    BY SMTT(20), <2>4, <2>5, <1>6, <1>7, AdmissionAssumption DEF Few
  <2>7. \A j \in S \ keys : m[j] = map[j]
    BY <1>1, <2>2, <2>3, Zenon
  <2> QED BY <2>6, <2>7, Zenon
<1>9. CASE ~(Cardinality(present) > MaxEntries)
  <2>1. m = filled
    BY <1>2, <1>9, Zenon
  <2>2. Few(m, keys)
    BY SMTT(20), <2>1, <1>5, <1>6, <1>9, AdmissionAssumption DEF Few
  <2>3. \A j \in S \ keys : m[j] = map[j]
    BY <2>1, <1>1, Zenon
  <2> QED BY <2>2, <2>3, Zenon
<1> QED BY <1>8, <1>9, Zenon

\* The three maps of rows and the one of decisions.
AllFew == Few(decisions, Events) /\ \A k \in Rows : Few(rows, MapOf(k))

LEMMA EmptyIsFew == ASSUME NEW map, NEW keys, Cached(map, keys) = {} PROVE Few(map, keys)
  BY FS_EmptySet, AdmissionAssumption DEF Few

LEMMA ClearingKeepsFew ==
    ASSUME NEW S, NEW E, NEW map \in [S -> E], NEW key, NEW keys \in SUBSET S, Few(map, keys)
    PROVE  Few([map EXCEPT ![key] = Empty], keys)
<1> DEFINE m == [map EXCEPT ![key] = Empty]
<1>1. Cached(m, keys) \subseteq Cached(map, keys)
  BY Zenon DEF Cached
<1> QED BY <1>1, FewerIsFew, Zenon

LEMMA MapsOfRows ==
    /\ \A k \in Rows : MapOf(k) \in SUBSET Rows /\ k \in MapOf(k)
    /\ \A j, k \in Rows : MapOf(j) = MapOf(k) \/ MapOf(j) \cap MapOf(k) = {}
  BY NamesDiffer, Zenon DEF MapOf, Rows

\* A handler concludes: the only write to the decisions is an insert.
LEMMA ConcludeKeepsFew ==
    ASSUME IInv, Few(decisions, Events), NEW r, NEW t, NEW x, t.event \in Events, Conclude(r, t, x)
    PROVE  Few(decisions, Events)'
<1>1. decisions \in [Events -> Entries(Decisions)]
  BY Zenon DEF IInv, TypeOK
<1>2. decisions' = decisions \/ decisions' \in Inserted(decisions, Events, t.event, x)
  BY Zenon DEF Conclude
<1>3. CASE decisions' = decisions
  BY <1>3, Zenon DEF Few, Cached
<1>4. CASE decisions' \in Inserted(decisions, Events, t.event, x)
  <2>1. Few(decisions', Events)
    BY <1>1, <1>4, InsertKeepsFew, Zenon
  <2> QED BY <2>1, Zenon DEF Few, Cached
<1> QED BY <1>2, <1>3, <1>4, Zenon

LEMMA UnchangedKeepsFew ==
    /\ Few(decisions, Events) /\ UNCHANGED decisions => Few(decisions, Events)'
    /\ (\A k \in Rows : Few(rows, MapOf(k))) /\ UNCHANGED rows => (\A k \in Rows : Few(rows, MapOf(k)))'
  BY Zenon DEF Few, Cached, MapOf

LEMMA ClearedRowKeepsFew ==
    ASSUME IInv, \A k \in Rows : Few(rows, MapOf(k)), NEW j, rows' = [rows EXCEPT ![j] = Empty]
    PROVE  (\A k \in Rows : Few(rows, MapOf(k)))'
<1>1. rows \in [Rows -> Entries(Values \ {None})]
  BY Zenon DEF IInv, TypeOK
<1>2. ASSUME NEW k \in Rows PROVE Few(rows', MapOf(k))
  BY <1>1, ClearingKeepsFew, MapsOfRows, Zenon
<1> QED BY <1>2, Zenon DEF Few, Cached, MapOf

LEMMA FilledRowKeepsFew ==
    ASSUME IInv, \A k \in Rows : Few(rows, MapOf(k)), NEW j \in Rows, NEW v,
           rows' \in Inserted(rows, MapOf(j), j, v)
    PROVE  (\A k \in Rows : Few(rows, MapOf(k)))'
<1>1. rows \in [Rows -> Entries(Values \ {None})]
  BY Zenon DEF IInv, TypeOK
<1>2. Few(rows', MapOf(j)) /\ \A i \in Rows \ MapOf(j) : rows'[i] = rows[i]
  BY <1>1, InsertKeepsFew, MapsOfRows
<1>3. ASSUME NEW k \in Rows PROVE Few(rows', MapOf(k))
  <2>1. CASE MapOf(j) = MapOf(k)
    BY <2>1, <1>2, Zenon
  <2>2. CASE MapOf(j) \cap MapOf(k) = {}
    <3>1. Cached(rows', MapOf(k)) \subseteq Cached(rows, MapOf(k))
      BY <1>2, <2>2, MapsOfRows, Zenon DEF Cached
    <3> QED BY <3>1, FewerIsFew, Zenon
  <2> QED BY <2>1, <2>2, MapsOfRows, Zenon
<1> QED BY <1>3, Zenon DEF Few, Cached, MapOf

LEMMA StepKeepsFew == IInv /\ AllFew /\ [Next]_vars => AllFew'
<1> SUFFICES ASSUME IInv, AllFew, [Next]_vars PROVE AllFew'
  OBVIOUS
<1>0. Few(decisions, Events) /\ \A k \in Rows : Few(rows, MapOf(k))
  BY Zenon DEF AllFew
<1>t. \A r \in Running : task[r].event \in Events /\ task[r].row \in Rows
  BY Zenon DEF IInv, Handlers, HandlerOK
<1>1. CASE UNCHANGED rows /\ UNCHANGED decisions
  BY <1>0, <1>1, UnchangedKeepsFew, Zenon DEF AllFew
<1>2. ASSUME NEW r \in Requests, NEW e \in Events, NEW u \in RelayUrls, Begin(r, e, u) PROVE AllFew'
  <2> DEFINE t == [pc |-> "look up", row |-> None, event |-> e, url |-> u, start |-> now, value |-> None]
             x == IF u # None THEN u ELSE after_compatibility(e, u)
  <2>1. UNCHANGED rows /\ (decisions' = [decisions EXCEPT ![e] = Empty] \/ Conclude(r, t, x))
    BY <1>2, Zenon DEF Begin
  <2>2. CASE decisions' = [decisions EXCEPT ![e] = Empty]
    <3>1. decisions \in [Events -> Entries(Decisions)]
      BY Zenon DEF IInv, TypeOK
    <3>2. Few(decisions', Events)
      BY <3>1, <2>2, <1>0, ClearingKeepsFew, Zenon
    <3> QED BY <3>2, <2>1, <1>0, UnchangedKeepsFew, Zenon DEF AllFew, Few, Cached
  <2>3. CASE Conclude(r, t, x)
    <3>1. t.event \in Events
      OBVIOUS
    <3> HIDE DEF t, x
    <3> QED BY <3>1, <2>1, <2>3, <1>0, ConcludeKeepsFew, UnchangedKeepsFew, ZenonT(30) DEF AllFew
  <2> QED BY <2>1, <2>2, <2>3, Zenon
<1>3. ASSUME NEW r \in Requests, ReadCached(r) PROVE AllFew'
  <2>1. r \in Running
    BY <1>3, Zenon DEF ReadCached, Running
  <2> QED BY <1>0, <1>t, <1>3, <2>1, ConcludeKeepsFew, UnchangedKeepsFew, Zenon DEF ReadCached, AllFew
<1>4. ASSUME NEW r \in Requests, ReadStored(r) PROVE AllFew'
  BY <1>0, <1>4, ClearedRowKeepsFew, UnchangedKeepsFew, Zenon DEF ReadStored, AllFew
<1>5. ASSUME NEW r \in Requests, ReadFailed(r) PROVE AllFew'
  <2>1. r \in Running
    BY <1>5, Zenon DEF ReadFailed, Running
  <2> QED BY <1>0, <1>t, <1>5, <2>1, ConcludeKeepsFew, ClearedRowKeepsFew, Zenon DEF ReadFailed, AllFew
<1>6. ASSUME NEW r \in Requests, Fill(r) PROVE AllFew'
  <2>1. r \in Running
    BY <1>6, Zenon DEF Fill, Running
  <2>2. Few(decisions, Events)'
    BY <1>0, <1>t, <1>6, <2>1, ConcludeKeepsFew, Zenon DEF Fill
  <2>3. (\A k \in Rows : Few(rows, MapOf(k)))'
    BY <1>0, <1>t, <1>6, <2>1, FilledRowKeepsFew, UnchangedKeepsFew, Zenon DEF Fill
  <2> QED BY <2>2, <2>3, Zenon DEF AllFew
<1>7. CASE Restart
  <2>1. \A k \in Rows : Cached(rows', MapOf(k)) = {}
    BY <1>7, MapsOfRows, Zenon DEF Restart, Cached
  <2>2. Cached(decisions', Events) = {}
    BY <1>7, Zenon DEF Restart, Cached
  <2>3. Few(decisions', Events) /\ \A k \in Rows : Few(rows', MapOf(k))
    BY <2>1, <2>2, EmptyIsFew, Zenon
  <2> QED BY <2>3, Zenon DEF AllFew, Few, Cached, MapOf
<1>8. \/ UNCHANGED rows /\ UNCHANGED decisions
      \/ \E r \in Requests, e \in Events, u \in RelayUrls : Begin(r, e, u)
      \/ \E r \in Requests : ReadCached(r) \/ ReadStored(r) \/ ReadFailed(r) \/ Fill(r)
      \/ Restart
  BY Zenon DEF Next, vars, AnswerCached, GiveUp, Write, Tick
<1> QED BY <1>1, <1>2, <1>3, <1>4, <1>5, <1>6, <1>7, <1>8, ZenonT(30)

\* Each cached map, the decisions and the rows of every kind, keeps to max_entries:
\* AdmissionCache::insert and CachedRepositories evict the oldest entry whenever an
\* insert exceeds the limit, in whatever order the handlers' fills and answers come.
THEOREM CachesKeepToLimit == Spec => []CachesAreBounded
<1>1. Init => AllFew
  <2> SUFFICES ASSUME Init PROVE AllFew
    OBVIOUS
  <2>1. (\A k \in Rows : Cached(rows, MapOf(k)) = {}) /\ Cached(decisions, Events) = {}
    BY MapsOfRows, Zenon DEF Init, Cached
  <2> QED BY <2>1, EmptyIsFew, Zenon DEF AllFew
<1>2. AllFew => CachesAreBounded
  BY Zenon DEF AllFew, Few, CachesAreBounded
<1> QED BY <1>1, <1>2, StepKeepsFew, Invariance, PTL DEF Spec
=============================================================================
