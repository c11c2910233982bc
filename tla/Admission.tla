------------------------------ MODULE Admission ------------------------------
(***************************************************************************)
(* The admission service: what it answers when a relay asks whether to     *)
(* store an event.  A decision is looked up in the decision cache and      *)
(* otherwise made from the database, whose rows are read through a second  *)
(* cache, CachedRepositories.  Both forget entries TTL after they were     *)
(* stored.                                                                 *)
(*                                                                         *)
(* A row is one of Rows: the compatibility record of a relay, or the       *)
(* latest announcement or state of the one repository the events are       *)
(* about.  Rows are written by other services; this one only reads.        *)
(* Requests are handled concurrently, a database read is one step and      *)
(* storing its result in the cache is another.                             *)
(***************************************************************************)
EXTENDS Integers, FiniteSets

CONSTANTS
    Requests,     \* the requests of relays that are not answered from the decision cache
    Events,       \* events asked about
    Urls,         \* relay URLs
    Kind(_),      \* what the event is: see decision_for
    Lists(_, _),  \* whether an announcement lists a relay as its host
    TTL,          \* of both caches
    MaxEntries,   \* of each cached map
    Timeout,      \* of the relay's HTTP client
    MaxTime,      \* bound on the clock
    MaxWrites     \* bound on the values rows lose

None == "none"
Announcement == "announcement"
State == "state"
Rows == Urls \cup {Announcement, State}
Values == {None, "present", "incompatible"}   \* "present" for a relay: compatible
RelayUrls == Urls \cup {None}
Modes == {"strict", "allow"}   \* Warn is Allow with a line on stderr

\* AdmissionDecision, with the reasons of Reject.
Decisions == {"accept", "not authorized", "host not listed", "requires related", "missing address",
              "compatibility missing", "relay incompatible", "repository not found", "storage error"}

ASSUME AdmissionAssumption ==
    /\ (Decisions \cup {None, Announcement, State}) \cap Urls = {}
    /\ None \notin Events
    /\ \A e \in Events : Kind(e) \in {"control", "admin", "state", "announcement", "other", "unaddressed"}
    /\ \A e \in Events, u \in Urls : Lists(e, u) \in BOOLEAN
    /\ TTL \in Nat \ {0} /\ MaxEntries \in Nat \ {0} /\ Timeout \in Nat
    /\ MaxTime \in Nat /\ MaxWrites \in Nat

VARIABLES
    mode,       \* RelayCompatibilityMode of the service
    now,        \* the clock
    db,         \* the rows
    rows,       \* CachedRepositories
    decisions,  \* AdmissionCache, by event: relay_url is not part of the key
    task,       \* the handler of each request
    answer,     \* the answer the last step gave, if it gave one
    held,       \* history: when a row last had a value it no longer has
    failed      \* history: when a database read last failed

vars == <<mode, now, db, rows, decisions, task, answer, held, failed>>

Empty == [value |-> None, stored_at |-> -1]
Done == [pc |-> "done", row |-> None, event |-> None, url |-> None, start |-> 0, value |-> None]
NoAnswer == [event |-> None, decision |-> None]
Idle == [pc |-> "idle", row |-> None, event |-> None, url |-> None, start |-> 0, value |-> None]

\* The compatibility of a relay is recorded as one thing or the other.
RowValues(k) == IF k \in Urls THEN Values ELSE {None, "present"}

Init ==
    /\ mode \in Modes
    /\ now = 0
    /\ db \in {row \in [Rows -> Values] : \A k \in Rows : row[k] \in RowValues(k)}
    /\ rows = [k \in Rows |-> Empty]
    /\ decisions = [e \in Events |-> Empty]
    /\ task = [r \in Requests |-> Idle]
    /\ answer = NoAnswer
    /\ held = [k \in Rows |-> [v \in Values |-> -1]]
    /\ failed = -1

(***************************************************************************)
(* The two caches.                                                         *)
(***************************************************************************)
\* Mutant: an entry is used however old it is.
is_fresh_always(entry) == entry # Empty

is_fresh(entry) == entry # Empty /\ now - entry.stored_at < TTL

Cached(map, keys) == {k \in keys : map[k] # Empty}

\* evict_if_needed: what insert leaves; among equally old entries it may drop any.
Inserted(map, keys, key, value) ==
    LET filled == [map EXCEPT ![key] = [value |-> value, stored_at |-> now]]
        present == Cached(filled, keys)
        oldest == {k \in present : \A j \in present : filled[k].stored_at <= filled[j].stored_at}
    IN  IF Cardinality(present) > MaxEntries
        THEN {[filled EXCEPT ![k] = Empty] : k \in oldest}
        ELSE {filled}

\* The map of CachedRepositories a row is in.
MapOf(k) == IF k \in Urls THEN Urls ELSE {k}

(***************************************************************************)
(* Deciding.                                                               *)
(***************************************************************************)
\* core's evaluate_admission.
evaluate_admission(e, u) ==
    CASE Kind(e) = "state" -> "accept"
      [] Kind(e) = "announcement" -> IF u # None /\ Lists(e, u) THEN "accept" ELSE "host not listed"
      [] OTHER -> "requires related"

\* evaluate_request_with_admin_keys.
decision_for(e, u) ==
    CASE Kind(e) = "admin" -> "accept"
      [] Kind(e) = "control" -> "not authorized"
      [] OTHER -> evaluate_admission(e, u)

\* After relay_compatibility: what is left to do once the relay is fine.
after_compatibility(e, u) ==
    CASE decision_for(e, u) # "requires related" -> decision_for(e, u)
      [] Kind(e) = "unaddressed" -> "missing address"
      [] OTHER -> Announcement

\* evaluate_request_with_storage_mode: after reading row k of a request with
\* event e and relay URL u the next row to read, or the decision.
evaluate(e, u, k, v) ==
    CASE k \in Urls -> IF v = "present" THEN after_compatibility(e, u)
                       ELSE IF mode = "allow" THEN decision_for(e, u)
                       ELSE IF v = None THEN "compatibility missing" ELSE "relay incompatible"
      [] k = Announcement -> IF v # None THEN "requires related" ELSE State
      [] k = State -> IF v # None THEN "requires related" ELSE "repository not found"

\* The same when the read fails.
evaluate_error(e, u, k) ==
    IF k \in Urls /\ mode = "allow" THEN decision_for(e, u) ELSE "storage error"

(***************************************************************************)
(* The handler.                                                            *)
(***************************************************************************)
\* Go on to the next row, or store the decision in the cache and answer it.
Conclude(r, t, x) ==
    \/ /\ x \in Rows
       /\ task' = [task EXCEPT ![r] = [t EXCEPT !.pc = "look up", !.row = x, !.value = None]]
       /\ answer' = NoAnswer
       /\ UNCHANGED decisions
    \/ /\ x \in Decisions
       /\ decisions' \in Inserted(decisions, Events, t.event, x)
       /\ answer' = [event |-> t.event, decision |-> x]
       /\ task' = [task EXCEPT ![r] = Done]

\* Mutant: an entry that is used is kept for another lifetime.
AnswerCachedSliding(e) ==
    /\ is_fresh(decisions[e])
    /\ answer' = [event |-> e, decision |-> decisions[e].value]
    /\ decisions' = [decisions EXCEPT ![e].stored_at = now]
    /\ UNCHANGED <<mode, now, db, rows, task, held, failed>>

\* decide_handler and evaluate_request_cached_mode with a fresh decision.
AnswerCached(e) ==
    /\ is_fresh(decisions[e])
    /\ answer' = [event |-> e, decision |-> decisions[e].value]
    /\ UNCHANGED <<mode, now, db, rows, decisions, task, held, failed>>

\* The same without: a stale decision is removed, and the row of the relay is
\* looked up, if the request names one.
Begin(r, e, u) ==
    /\ task[r].pc = "idle"
    /\ ~is_fresh(decisions[e])
    /\ LET t == [pc |-> "look up", row |-> None, event |-> e, url |-> u, start |-> now, value |-> None]
           x == IF u # None THEN u ELSE after_compatibility(e, u)
       IN  \/ /\ x \in Rows
              /\ task' = [task EXCEPT ![r] = [t EXCEPT !.row = x]]
              /\ decisions' = [decisions EXCEPT ![e] = Empty]
              /\ answer' = NoAnswer
           \/ /\ x \in Decisions
              /\ Conclude(r, t, x)
    /\ UNCHANGED <<mode, now, db, rows, held, failed>>

\* relay_compatibility, latest_announcement or latest_state, from the cache.
ReadCached(r) ==
    /\ task[r].pc = "look up"
    /\ is_fresh(rows[task[r].row])
    /\ Conclude(r, task[r], evaluate(task[r].event, task[r].url, task[r].row, rows[task[r].row].value))
    /\ UNCHANGED <<mode, now, db, rows, held, failed>>

\* The same from the database; a stale entry is removed first.
ReadStored(r) ==
    /\ task[r].pc = "look up"
    /\ ~is_fresh(rows[task[r].row])
    /\ rows' = [rows EXCEPT ![task[r].row] = Empty]
    /\ task' = [task EXCEPT ![r].pc = "fill", ![r].value = db[task[r].row]]
    /\ answer' = NoAnswer
    /\ UNCHANGED <<mode, now, db, decisions, held, failed>>

\* The database is out at one time of a run.
ReadFailed(r) ==
    /\ task[r].pc = "look up"
    /\ ~is_fresh(rows[task[r].row])
    /\ failed \in {-1, now}
    /\ failed' = now
    /\ rows' = [rows EXCEPT ![task[r].row] = Empty]
    /\ Conclude(r, task[r], evaluate_error(task[r].event, task[r].url, task[r].row))
    /\ UNCHANGED <<mode, now, db, held>>

\* The answer of the database is stored, if there is a row, and used.
Fill(r) ==
    /\ task[r].pc = "fill"
    /\ IF task[r].value # None
       THEN rows' \in Inserted(rows, MapOf(task[r].row), task[r].row, task[r].value)
       ELSE UNCHANGED rows
    /\ Conclude(r, task[r], evaluate(task[r].event, task[r].url, task[r].row, task[r].value))
    /\ UNCHANGED <<mode, now, db, held, failed>>

\* The relay decides by itself after Timeout and drops the connection, and
\* with it the handler.
GiveUp(r) ==
    /\ task[r].pc \in {"look up", "fill"}
    /\ now - task[r].start >= Timeout
    /\ task' = [task EXCEPT ![r] = Done]
    /\ answer' = NoAnswer
    /\ UNCHANGED <<mode, now, db, rows, decisions, held, failed>>

(***************************************************************************)
(* The environment: other services write rows, the service is restarted    *)
(* with empty caches, and time passes.                                     *)
(***************************************************************************)
Write(k, v) ==
    /\ v \in RowValues(k) \ {None, db[k]}
    /\ Cardinality({x \in Rows \X Values : held[x[1]][x[2]] >= 0}) < MaxWrites
    /\ db' = [db EXCEPT ![k] = v]
    /\ answer' = NoAnswer
    /\ held' = [held EXCEPT ![k][db[k]] = now]
    /\ UNCHANGED <<mode, now, rows, decisions, task, failed>>

Restart ==
    /\ rows' = [k \in Rows |-> Empty]
    /\ decisions' = [e \in Events |-> Empty]
    /\ answer' = NoAnswer
    /\ task' = [r \in Requests |-> IF task[r] = Idle THEN Idle ELSE Done]
    /\ UNCHANGED <<mode, now, db, held, failed>>

Tick ==
    /\ now < MaxTime
    /\ \A r \in Requests : task[r].pc \in {"look up", "fill"} => now - task[r].start < Timeout
    /\ now' = now + 1
    /\ answer' = NoAnswer
    /\ UNCHANGED <<mode, db, rows, decisions, task, held, failed>>

Next ==
    \/ \E e \in Events : AnswerCached(e)
    \/ \E r \in Requests, e \in Events, u \in RelayUrls : Begin(r, e, u)
    \/ \E r \in Requests : ReadCached(r) \/ ReadStored(r) \/ ReadFailed(r) \/ Fill(r) \/ GiveUp(r)
    \/ \E k \in Rows, v \in Values : Write(k, v)
    \/ Restart
    \/ Tick

Spec == Init /\ [][Next]_vars
-----------------------------------------------------------------------------
Entries(vals) == {Empty} \cup [value : vals, stored_at : 0 .. now]
Tasks == [pc : {"idle", "look up", "fill", "done"}, row : Rows \cup {None}, event : Events \cup {None},
          url : RelayUrls, start : 0 .. now, value : Values]

\* No entry is from the future, and only rows that exist are cached.
TypeOK ==
    /\ mode \in Modes
    /\ now \in Nat
    /\ db \in [Rows -> Values]
    /\ rows \in [Rows -> Entries(Values \ {None})]
    /\ decisions \in [Events -> Entries(Decisions)]
    /\ task \in [Requests -> Tasks]
    /\ answer \in {NoAnswer} \cup [event : Events, decision : Decisions]
    /\ held \in [Rows -> [Values -> -1 .. now]]
    /\ failed \in -1 .. now

\* Every cached map keeps to max_entries, however fills and answers overlap.
CachesAreBounded ==
    /\ Cardinality(Cached(decisions, Events)) <= MaxEntries
    /\ \A k \in Rows : Cardinality(Cached(rows, MapOf(k))) <= MaxEntries

\* A row had the value at some time from t on.
HeldSince(k, v, t) == db[k] = v \/ (held[k][v] >= 0 /\ held[k][v] >= t)

\* The decision for event e when the rows have these values.
Decided(e, u, row) ==
    LET verdict(k) == evaluate(e, u, k, row[k])
        later(x) == IF x # Announcement THEN x
                    ELSE IF verdict(Announcement) # State THEN verdict(Announcement) ELSE verdict(State)
    IN  later(IF u = None THEN after_compatibility(e, u) ELSE verdict(u))

\* The decision follows from values the rows had at some time from t on, or from
\* a failure of the database since then.  It may have been made for another
\* relay, since relay_url is not part of the cache's key.
FollowsSince(e, d, t) ==
    \E u \in RelayUrls :
        \/ \E row \in [Rows -> Values] : (\A k \in Rows : HeldSince(k, row[k], t)) /\ d = Decided(e, u, row)
        \/ failed >= 0 /\ failed >= t /\ \E k \in Rows : d = evaluate_error(e, u, k)

\* An answer is never based on rows older than the two caches and the two
\* requests that filled them allow: with the default lifetimes of 30 seconds, one
\* minute and twice the relay's timeout.  Neither overlapping fills that
\* store an older row last, nor evictions, restarts or failed reads make it older.
DecisionIsRecent ==
    answer # NoAnswer =>
        FollowsSince(answer.event, answer.decision, now - 2 * (TTL - 1) - 2 * Timeout)

\* A rejection because of a storage error is remembered like any other
\* decision, but no longer than the decision cache keeps it: a read failed at
\* most a lifetime ago.
ErrorIsRecent ==
    answer.decision = "storage error" => failed >= 0 /\ failed > now - TTL
=============================================================================
