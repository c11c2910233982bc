--------------------------- MODULE RepositoryStore ---------------------------
(***************************************************************************)
(* The relay's event store over the database.  RepositoryStore.insert is a *)
(* sequence of statements, each atomic and none in a common transaction:   *)
(* look the id up, carry out a deletion or look for the events it          *)
(* replaces, delete those, insert the row.  Several connections insert at  *)
(* once.                                                                   *)
(***************************************************************************)
EXTENDS Integers, FiniteSets

CONSTANTS
    Writers,           \* connections inserting events
    Events, Keys, Author, CreatedAt, Key, DeletesId, DeletesKey,   \* see MemoryStore
    MaxFailures,       \* bound on failed statements and lost processes
    NoKey, NoEvent

\* Only kind 5 events delete, and they are not replaceable.
ASSUME StoreAssumption ==
    /\ CreatedAt \in [Events -> Nat]
    /\ Key \in [Events -> Keys \union {NoKey}]
    /\ DeletesId \in [Events -> SUBSET Events]
    /\ DeletesKey \in [Events -> SUBSET Keys]
    /\ \A e \in Events : Key[e] # NoKey => DeletesId[e] = {} /\ DeletesKey[e] = {}
    /\ NoKey \notin Keys /\ NoEvent \notin Events
    /\ MaxFailures \in Nat

VARIABLES
    rows,       \* nostr_event, of one tenant
    op,         \* per writer: the insert in flight
    failures,
    submitted,  \* history: events some writer started to insert
    raced,      \* history: pairs of events of one key whose inserts were in flight together
    serial,     \* whether this is a run in which no two operations overlap and none fails
    before      \* history: the rows when the insert in flight began, while serial

vars == <<rows, op, failures, submitted, raced, serial, before>>

Idle == [pc |-> "idle", event |-> NoEvent, todo |-> {}, keys |-> {}]

Init ==
    /\ rows = {}
    /\ op = [w \in Writers |-> Idle]
    /\ failures = 0
    /\ submitted = {}
    /\ raced = {}
    /\ serial \in BOOLEAN
    /\ before = {}

Busy == {w \in Writers : op[w].pc # "idle"}
At(w, pc) == op[w].pc = pc
Goto(w, pc) == op' = [op EXCEPT ![w].pc = pc]
Return(w) == op' = [op EXCEPT ![w] = Idle]
may_delete(e, x) == Author[x] = Author[e] /\ CreatedAt[x] <= CreatedAt[e]

InsertBegin(w, e) ==
    /\ At(w, "idle")
    /\ serial => Busy = {}
    /\ op' = [op EXCEPT ![w] = [Idle EXCEPT !.pc = "get", !.event = e]]
    /\ submitted' = submitted \union {e}
    /\ raced' = raced \union
          {{op[v].event, e} : v \in {v \in Busy : Key[e] # NoKey /\ Key[op[v].event] = Key[e]}}
    /\ before' = IF serial THEN rows ELSE before
    /\ UNCHANGED <<rows, failures, serial>>

\* get_event: a known id is a duplicate.
GetEvent(w) ==
    LET e == op[w].event IN
    /\ At(w, "get")
    /\ IF e \in rows THEN Return(w)
       ELSE op' = [op EXCEPT ![w].pc = IF Key[e] = NoKey THEN "delete_ids" ELSE "query_key",
                             ![w].todo = DeletesId[e], ![w].keys = DeletesKey[e]]
    /\ UNCHANGED <<rows, failures, submitted, raced, serial, before>>

\* apply_delete_repo, "e" tags: each target is looked up and deleted if it may be.
DeleteId(w) ==
    /\ At(w, "delete_ids")
    /\ \E x \in op[w].todo :
          /\ rows' = IF may_delete(op[w].event, x) THEN rows \ {x} ELSE rows
          /\ op' = [op EXCEPT ![w].todo = @ \ {x}]
    /\ UNCHANGED <<failures, submitted, raced, serial, before>>

\* apply_delete_repo, "a" tags: query an address, delete what was found, go on.
QueryAddress(w) ==
    LET e == op[w].event IN
    /\ op[w].pc \in {"delete_ids", "delete_found"}
    /\ op[w].todo = {}
    /\ \E a \in op[w].keys :
          op' = [op EXCEPT ![w].pc = "delete_found", ![w].keys = @ \ {a},
                           ![w].todo = {x \in rows : Key[x] = a /\ may_delete(e, x)}]
    /\ UNCHANGED <<rows, failures, submitted, raced, serial, before>>

\* Mutant: an event as new does not stop the insert.
QueryKeyStrict(w) ==
    LET e == op[w].event
        rivals == {x \in rows : Key[x] = Key[e]}
    IN  /\ At(w, "query_key")
        /\ IF \E x \in rivals : CreatedAt[x] > CreatedAt[e] THEN Return(w)
           ELSE op' = [op EXCEPT ![w].pc = "delete_found", ![w].todo = rivals]
        /\ UNCHANGED <<rows, failures, submitted, raced, serial, before>>

\* Mutant: whatever holds the key is replaced.
QueryKeyUnchecked(w) ==
    /\ At(w, "query_key")
    /\ op' = [op EXCEPT ![w].pc = "delete_found",
                        ![w].todo = {x \in rows : Key[x] = Key[op[w].event]}]
    /\ UNCHANGED <<rows, failures, submitted, raced, serial, before>>

\* apply_replaceable_repo: an event at least as new makes this one a duplicate.
QueryKey(w) ==
    LET e == op[w].event
        rivals == {x \in rows : Key[x] = Key[e]}
    IN  /\ At(w, "query_key")
        /\ IF \E x \in rivals : CreatedAt[x] >= CreatedAt[e] THEN Return(w)
           ELSE op' = [op EXCEPT ![w].pc = "delete_found", ![w].todo = rivals]
        /\ UNCHANGED <<rows, failures, submitted, raced, serial, before>>

DeleteFound(w) ==
    /\ At(w, "delete_found")
    /\ \E x \in op[w].todo :
          /\ rows' = rows \ {x}
          /\ op' = [op EXCEPT ![w].todo = @ \ {x}]
    /\ UNCHANGED <<failures, submitted, raced, serial, before>>

\* Mutant: the row is inserted before everything it replaces is deleted.
InsertRowEarly(w) ==
    /\ op[w].pc \in {"delete_ids", "delete_found"}
    /\ op[w].keys = {}
    /\ rows' = rows \union {op[w].event}
    /\ Return(w)
    /\ UNCHANGED <<failures, submitted, raced, serial, before>>

InsertRow(w) ==
    /\ op[w].pc \in {"delete_ids", "delete_found"}
    /\ op[w].todo = {} /\ op[w].keys = {}
    /\ rows' = rows \union {op[w].event}
    /\ Return(w)
    /\ UNCHANGED <<failures, submitted, raced, serial, before>>

\* A statement fails, or the process dies: what was deleted stays deleted.
Fail(w) ==
    /\ op[w].pc # "idle"
    /\ ~serial
    /\ failures < MaxFailures
    /\ failures' = failures + 1
    /\ Return(w)
    /\ UNCHANGED <<rows, submitted, raced, serial, before>>

\* EventStore.delete, which the retention pass of a session uses.
Delete(w, e) ==
    /\ At(w, "idle")
    /\ serial => Busy = {}
    /\ e \in rows
    /\ rows' = rows \ {e}
    /\ UNCHANGED <<op, failures, submitted, raced, serial, before>>

WriterStep(w) ==
    \/ \E e \in Events : InsertBegin(w, e)
    \/ GetEvent(w) \/ DeleteId(w) \/ QueryAddress(w) \/ QueryKey(w)
    \/ DeleteFound(w) \/ InsertRow(w) \/ Fail(w)

Next == \E w \in Writers : WriterStep(w) \/ \E e \in Events : Delete(w, e)

Spec == Init /\ [][Next]_vars
-----------------------------------------------------------------------------
\* The table and the inserts in flight have the shape the code gives them; an
\* insert is about to delete only events its own may replace or delete.
TypeOK ==
    /\ rows \subseteq submitted
    /\ submitted \subseteq Events
    /\ before \subseteq submitted
    /\ raced \subseteq SUBSET submitted
    /\ serial \in BOOLEAN
    /\ failures \in 0 .. MaxFailures
    /\ op \in [Writers -> [pc : {"idle", "get", "delete_ids", "query_key", "delete_found"},
                           event : Events \union {NoEvent}, todo : SUBSET Events, keys : SUBSET Keys]]
    /\ \A w \in Writers : op[w].pc # "idle" => op[w].event \in submitted
    /\ \A w \in Writers : At(w, "delete_found") => \A x \in op[w].todo :
          \/ Key[x] \in DeletesKey[op[w].event] /\ may_delete(op[w].event, x)
          \/ Key[x] = Key[op[w].event] /\ CreatedAt[x] < CreatedAt[op[w].event]

Newest(e) ==
    \A x \in submitted : (Key[x] = Key[e] /\ x # e) => CreatedAt[x] < CreatedAt[e]

Deletable(e) == \E x \in submitted :
    may_delete(x, e) /\ (e \in DeletesId[x] \/ Key[e] \in DeletesKey[x])

\* Concurrent inserts and failed ones never cost a replaceable event its place
\* while it is the newest of its key anybody submitted: only its author's
\* deletion, or the retention pass, removes it (apply_replaceable_repo,
\* apply_delete_repo).
NewestIsKept ==
    [][op' # op => \A e \in rows \ rows' : (Key[e] # NoKey /\ Newest(e)) => Deletable(e)]_vars

\* What a reader sees when no insert is under way; the statements of one are
\* hidden until it ends.  Of overlapping operations nothing is claimed here.
Visible == IF serial /\ Busy = {} THEN rows ELSE before

\* The index of the in-memory store, for the events of S.
Index(S) == [k \in Keys |-> IF \E x \in S : Key[x] = k THEN CHOOSE x \in S : Key[x] = k ELSE NoEvent]

Memory == INSTANCE MemoryStore WITH events <- Visible, replaceable <- Index(Visible)

\* When no two operations overlap and no statement fails, every completed
\* insert or delete of the database store, by whichever connection, is one atomic
\* operation of the in-memory store.
ImplementsMemoryStore == Memory!StoreSpec

\* Then a key has at most one current event, and whatever removes an event
\* leaves nothing of it behind that still competes for the key.
IndexAgrees == Memory!IndexAgrees

\* And a current replaceable event gives way only to a newer one of its key or
\* to a deletion, never to an older one or to one of the same date.
NewestWins == Memory!NewestWins

\* apply_replaceable_repo looks, deletes and inserts in separate statements: two
\* events of one key are in the table only if their inserts were in flight together,
\* whatever else was inserted, deleted or failed.
TwoCurrentByOverlap ==
    \A x, y \in rows : (Key[x] # NoKey /\ Key[x] = Key[y] /\ x # y) => {x, y} \in raced
=============================================================================
