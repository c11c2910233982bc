----------------------------- MODULE RelaySession -----------------------------
(***************************************************************************)
(* The sessions of one relay process: REQ, CLOSE, EVENT and AUTH, the      *)
(* subscription registry, the event table and the broadcast channel that   *)
(* carries accepted events to the other connections.                       *)
(*                                                                         *)
(* A connection is one task.  It takes the next client message or the next *)
(* broadcast event only when no handler is in flight, but every await of a *)
(* handler (a membership lookup, an admission call, a query, an insert) is *)
(* a point where the other connections run.  What a handler checked before *)
(* an await may be stale after it; each await is one action here.          *)
(*                                                                         *)
(* Who is a member is the abstract MembershipTable, which changes at any   *)
(* moment and which RelayMembership implements.  A filter stands for the   *)
(* set of events it matches; which events an insert replaces or deletes is *)
(* a constant relation here, and computed in RepositoryStore.  COUNT runs  *)
(* the checks of REQ and registers nothing; messages refused by a limiter  *)
(* or a parser change no state.                                            *)
(***************************************************************************)
EXTENDS MembershipTable, Integers, Sequences, FiniteSets

CONSTANTS
    Sessions,          \* connections
    Serves,            \* Sessions -> Tenants: the host a connection names
    PublicRead, PublicWrite, AuthRequired,   \* relay_tenant: the tenants with the flag set
    Events,
    Author, CreatedAt, \* Events -> Pubkeys, Events -> Nat
    Replaces,          \* Events -> the stored events that inserting it deletes
    Yields,            \* Events -> the stored events that make it a duplicate
    Related,           \* Events -> the filters admission may ask to be satisfied
    SubIds, Filters,   \* subscription ids, sets of events
    MaxSubscriptions,  \* policy.max_subscriptions
    ChannelCapacity,   \* capacity of the broadcast channel
    MaxAge,            \* policy.retention_max_age_seconds; 0 keeps everything
    MaxTime,           \* bound on the clock
    NoKey, NoTenant, NoSub, NoEvent

ASSUME SessionAssumption ==
    /\ Serves \in [Sessions -> Tenants]
    /\ PublicRead \subseteq Tenants /\ PublicWrite \subseteq Tenants
    /\ AuthRequired \subseteq Tenants
    /\ Author \in [Events -> Pubkeys]
    /\ CreatedAt \in [Events -> Nat]
    /\ Replaces \in [Events -> SUBSET Events] /\ Yields \in [Events -> SUBSET Events]
    /\ Related \in [Events -> Seq(SUBSET Events)]
    /\ Filters \subseteq SUBSET Events
    /\ MaxSubscriptions \in Nat /\ ChannelCapacity \in Nat \ {0}
    /\ MaxAge \in Nat /\ MaxTime \in Nat
    /\ NoKey \notin Pubkeys /\ NoTenant \notin Tenants
    /\ NoSub \notin Filters /\ NoEvent \notin Events

VARIABLES
    home,    \* nostr_event: event id -> the tenant_id of its row, or NoTenant
    now,
    conn,    \* per connection: open, authenticated key, subscription registry
    op,      \* per connection: the handler in flight
    queue,   \* per connection: its unread part of the broadcast channel
    got,     \* history: what a subscription was sent since it was registered
    lagged   \* history: what the channel overwrote before it was read

vars == <<active, known, home, now, conn, op, queue, got, lagged>>
delivery == <<queue, got, lagged>>

(***************************************************************************)
(* tenant_auth_requirements                                                *)
(***************************************************************************)
read_membership_required(t) == t \notin PublicRead
write_membership_required(t) == t \notin PublicWrite
read_auth_required(t) == read_membership_required(t)
write_auth_required(t) == t \in AuthRequired \/ write_membership_required(t)

Closed == [open |-> FALSE, auth |-> NoKey, subs |-> [i \in SubIds |-> NoSub]]
Idle == [pc |-> "idle", sub |-> NoSub, filter |-> {}, found |-> {}, event |-> NoEvent,
         todo |-> <<>>, at |-> 0, inserted |-> FALSE]
NothingSent == [i \in SubIds |-> {}]

Init ==
    /\ TableInit
    /\ home = [e \in Events |-> NoTenant]
    /\ now = 0
    /\ conn = [s \in Sessions |-> Closed]
    /\ op = [s \in Sessions |-> Idle]
    /\ queue = [s \in Sessions |-> <<>>]
    /\ got = [s \in Sessions |-> NothingSent]
    /\ lagged = [s \in Sessions |-> {}]

At(s, pc) == op[s].pc = pc
Ready(s) == conn[s].open /\ At(s, "idle")
Goto(s, pc) == op' = [op EXCEPT ![s].pc = pc]
Reply(s) == op' = [op EXCEPT ![s] = Idle]
Subs(s) == {i \in SubIds : conn[s].subs[i] # NoSub}
Stored(t) == {e \in Events : home[e] = t}

\* require_membership: the row of the authenticated key is active.
is_member(s) == conn[s].auth \in active[Serves[s]]

(***************************************************************************)
(* Connections.  The broadcast channel is subscribed to before the driver  *)
(* starts; a driver that loses its socket first finishes its handler.      *)
(***************************************************************************)
Connect(s) ==
    /\ ~conn[s].open
    /\ conn' = [conn EXCEPT ![s].open = TRUE]
    /\ UNCHANGED <<tableVars, home, now, op, delivery>>

Disconnect(s) ==
    /\ Ready(s)
    /\ conn' = [conn EXCEPT ![s] = Closed]
    /\ queue' = [queue EXCEPT ![s] = <<>>]
    /\ got' = [got EXCEPT ![s] = NothingSent]
    /\ lagged' = [lagged EXCEPT ![s] = {}]
    /\ UNCHANGED <<tableVars, home, now, op>>

\* AUTH: the session has a challenge only if reads or writes ask for one.
HandleAuth(s, p) ==
    /\ Ready(s)
    /\ read_auth_required(Serves[s]) \/ write_auth_required(Serves[s])
    /\ conn' = [conn EXCEPT ![s].auth = p]
    /\ UNCHANGED <<tableVars, home, now, op, delivery>>

HandleClose(s, i) ==
    /\ Ready(s)
    /\ conn' = [conn EXCEPT ![s].subs[i] = NoSub]
    /\ got' = [got EXCEPT ![s][i] = {}]
    /\ UNCHANGED <<tableVars, home, now, op, queue, lagged>>

(***************************************************************************)
(* REQ                                                                     *)
(***************************************************************************)
\* Authentication is checked on arrival; the membership lookup is an await.
ReqBegin(s, i, f) ==
    /\ Ready(s)
    /\ read_auth_required(Serves[s]) => conn[s].auth # NoKey
    /\ op' = [op EXCEPT ![s] = [Idle EXCEPT !.sub = i, !.filter = f,
           !.pc = IF read_membership_required(Serves[s]) THEN "req_member" ELSE "req_limit"]]
    /\ UNCHANGED <<tableVars, home, now, conn, delivery>>

\* Mutant: the looked up row is not examined.
ReqMemberUnchecked(s) ==
    /\ At(s, "req_member")
    /\ Goto(s, "req_limit")
    /\ UNCHANGED <<tableVars, home, now, conn, delivery>>

ReqMember(s) ==
    /\ At(s, "req_member")
    /\ IF is_member(s) THEN Goto(s, "req_limit") ELSE Reply(s)
    /\ UNCHANGED <<tableVars, home, now, conn, delivery>>

\* Mutant: off by one.
too_many_subscriptions_by_one(s, i) ==
    i \notin Subs(s) /\ Cardinality(Subs(s)) > MaxSubscriptions

too_many_subscriptions(s, i) ==
    i \notin Subs(s) /\ Cardinality(Subs(s)) >= MaxSubscriptions

\* The limit is checked, then the store is queried.
ReqQuery(s) ==
    /\ At(s, "req_limit")
    /\ IF too_many_subscriptions(s, op[s].sub) THEN Reply(s)
       ELSE op' = [op EXCEPT ![s].pc = "req_register",
                             ![s].found = Stored(Serves[s]) \intersect op[s].filter]
    /\ UNCHANGED <<tableVars, home, now, conn, delivery>>

\* After the virtual events (an await) the filters replace whatever the id had,
\* and the stored events and EOSE are sent.
ReqRegister(s) ==
    /\ At(s, "req_register")
    /\ conn' = [conn EXCEPT ![s].subs[op[s].sub] = op[s].filter]
    /\ got' = [got EXCEPT ![s][op[s].sub] = op[s].found]
    /\ Reply(s)
    /\ UNCHANGED <<tableVars, home, now, queue, lagged>>

(***************************************************************************)
(* EVENT.  Join and leave requests are RelayMembership's.                  *)
(***************************************************************************)
\* Mutant: any authenticated key writes any event.
may_write_any(s, e) == write_auth_required(Serves[s]) => conn[s].auth # NoKey

\* A write that needs authentication is signed by the authenticated key.
may_write(s, e) == write_auth_required(Serves[s]) => conn[s].auth = Author[e]

EventBegin(s, e) ==
    /\ Ready(s)
    /\ may_write(s, e)
    /\ op' = [op EXCEPT ![s] = [Idle EXCEPT !.event = e, !.at = now,
           !.pc = IF write_membership_required(Serves[s]) THEN "ev_member" ELSE "ev_admit"]]
    /\ UNCHANGED <<tableVars, home, now, conn, delivery>>

EventMember(s) ==
    /\ At(s, "ev_member")
    /\ IF is_member(s) THEN Goto(s, "ev_admit") ELSE Reply(s)
    /\ UNCHANGED <<tableVars, home, now, conn, delivery>>

\* admission.decide: accept, reject, or accept if the related events are stored.
EventAdmit(s) ==
    /\ At(s, "ev_admit")
    /\ \/ Goto(s, "ev_get")
       \/ Reply(s)
       \/ op' = [op EXCEPT ![s].pc = "ev_related", ![s].todo = Related[op[s].event]]
    /\ UNCHANGED <<tableVars, home, now, conn, delivery>>

EventRelated(s) ==
    /\ At(s, "ev_related")
    /\ IF op[s].todo = <<>> THEN Goto(s, "ev_get")
       ELSE IF Head(op[s].todo) \intersect Stored(Serves[s]) = {} THEN Reply(s)
       ELSE op' = [op EXCEPT ![s].todo = Tail(@)]
    /\ UNCHANGED <<tableVars, home, now, conn, delivery>>

\* store.insert: look the id up in the tenant, look for the events it competes
\* with, delete the ones it replaces, insert the row.
EventGet(s) ==
    /\ At(s, "ev_get")
    /\ Goto(s, IF home[op[s].event] = Serves[s] THEN "ev_finish" ELSE "ev_rivals")
    /\ UNCHANGED <<tableVars, home, now, conn, delivery>>

EventRivals(s) ==
    LET e == op[s].event IN
    /\ At(s, "ev_rivals")
    /\ IF Yields[e] \intersect Stored(Serves[s]) # {} THEN Goto(s, "ev_finish")
       ELSE op' = [op EXCEPT ![s].pc = "ev_insert",
                             ![s].found = Replaces[e] \intersect Stored(Serves[s])]
    /\ UNCHANGED <<tableVars, home, now, conn, delivery>>

EventReplace(s) ==
    /\ At(s, "ev_insert")
    /\ \E x \in op[s].found :
          /\ home' = [home EXCEPT ![x] = IF @ = Serves[s] THEN NoTenant ELSE @]
          /\ op' = [op EXCEPT ![s].found = @ \ {x}]
    /\ UNCHANGED <<tableVars, now, conn, delivery>>

\* INSERT ... ON CONFLICT DO NOTHING: the primary key is the event id alone, so
\* a row of any tenant makes this a no-op that still counts as inserted.
EventInsert(s) ==
    /\ At(s, "ev_insert")
    /\ op[s].found = {}
    /\ home' = [home EXCEPT ![op[s].event] = IF @ = NoTenant THEN Serves[s] ELSE @]
    /\ op' = [op EXCEPT ![s].pc = "ev_retain", ![s].inserted = TRUE]
    /\ UNCHANGED <<tableVars, now, conn, delivery>>

\* Mutant: the cutoff is a second late.
expired_late(s) == {e \in Stored(Serves[s]) : MaxAge > 0 /\ CreatedAt[e] <= op[s].at - MaxAge + 1}

expired(s) == {e \in Stored(Serves[s]) : MaxAge > 0 /\ CreatedAt[e] <= op[s].at - MaxAge}

\* apply_retention deletes until the query finds nothing older than the cutoff.
EventRetain(s) ==
    /\ At(s, "ev_retain")
    /\ \E e \in expired(s) : home' = [home EXCEPT ![e] = NoTenant]
    /\ UNCHANGED <<tableVars, now, conn, op, delivery>>

EventRetained(s) ==
    /\ At(s, "ev_retain")
    /\ expired(s) = {}
    /\ Goto(s, "ev_finish")
    /\ UNCHANGED <<tableVars, home, now, conn, delivery>>

\* Mutant: a connection is not sent the events its own key wrote.
dispatch_others(s, e) ==
    [i \in SubIds |-> IF conn[s].auth # Author[e] /\ i \in Subs(s) /\ e \in conn[s].subs[i]
                      THEN got[s][i] \union {e} ELSE got[s][i]]

\* dispatch_event: every subscription of the session with a matching filter.
dispatch(s, e) ==
    [i \in SubIds |-> IF i \in Subs(s) /\ e \in conn[s].subs[i]
                      THEN got[s][i] \union {e} ELSE got[s][i]]

\* One channel serves every tenant; a full one loses its oldest entry.
overflows(r) == Len(queue[r]) = ChannelCapacity
Receivers == {r \in Sessions : conn[r].open}

broadcast(m) ==
    /\ queue' = [r \in Sessions |->
           IF r \notin Receivers THEN queue[r]
           ELSE Append(IF overflows(r) THEN Tail(queue[r]) ELSE queue[r], m)]
    /\ lagged' = [r \in Sessions |->
           IF r \in Receivers /\ overflows(r)
           THEN lagged[r] \union {Head(queue[r]).event} ELSE lagged[r]]

\* OK "saved" or "duplicate"; an inserted event is broadcast; either way it is
\* sent to the session's own matching subscriptions.
EventFinish(s) ==
    /\ At(s, "ev_finish")
    /\ IF op[s].inserted THEN broadcast([event |-> op[s].event, tenant |-> Serves[s]])
       ELSE UNCHANGED <<queue, lagged>>
    /\ got' = [got EXCEPT ![s] = dispatch(s, op[s].event)]
    /\ Reply(s)
    /\ UNCHANGED <<tableVars, home, now, conn>>

(***************************************************************************)
(* The driver's other branch: the next event of the broadcast channel.     *)
(***************************************************************************)
\* Mutant: the channel is read while a handler is in flight.
RecvBroadcastAnytime(s) ==
    /\ conn[s].open
    /\ queue[s] # <<>>
    /\ queue' = [queue EXCEPT ![s] = Tail(@)]
    /\ got' = [got EXCEPT ![s] = dispatch(s, Head(queue[s]).event)]
    /\ UNCHANGED <<tableVars, home, now, conn, op, lagged>>

RecvBroadcast(s) ==
    /\ Ready(s)
    /\ queue[s] # <<>>
    /\ queue' = [queue EXCEPT ![s] = Tail(@)]
    /\ got' = [got EXCEPT ![s] = dispatch(s, Head(queue[s]).event)]
    /\ UNCHANGED <<tableVars, home, now, conn, op, lagged>>

\* A call of the handler fails: the message is answered with a notice; an
\* error of the retention pass is ignored and the event is acknowledged.
StorageError(s) ==
    /\ op[s].pc \notin {"idle", "ev_finish"}
    /\ IF At(s, "ev_retain") THEN Goto(s, "ev_finish") ELSE Reply(s)
    /\ UNCHANGED <<tableVars, home, now, conn, delivery>>

\* Members join and leave at any moment.
MembershipChange ==
    /\ TableNext
    /\ UNCHANGED <<home, now, conn, op, delivery>>

Tick ==
    /\ now < MaxTime
    /\ now' = now + 1
    /\ UNCHANGED <<tableVars, home, conn, op, delivery>>

HandlerStep(s) ==
    \/ ReqMember(s) \/ ReqQuery(s) \/ ReqRegister(s)
    \/ EventMember(s) \/ EventAdmit(s) \/ EventRelated(s) \/ EventGet(s)
    \/ EventRivals(s) \/ EventReplace(s) \/ EventInsert(s)
    \/ EventRetain(s) \/ EventRetained(s) \/ EventFinish(s)
    \/ StorageError(s)

ClientStep(s) ==
    \/ Connect(s) \/ Disconnect(s)
    \/ \E p \in Pubkeys : HandleAuth(s, p)
    \/ \E i \in SubIds : HandleClose(s, i) \/ \E f \in Filters : ReqBegin(s, i, f)
    \/ \E e \in Events : EventBegin(s, e)

Next ==
    \/ \E s \in Sessions : ClientStep(s) \/ HandlerStep(s) \/ RecvBroadcast(s)
    \/ MembershipChange
    \/ Tick

Spec == Init /\ [][Next]_vars

\* Calls return.  tokio::select! picks among the ready branches at random, so a
\* driver with an unread event does not serve its client for ever instead.
Fairness ==
    /\ \A s \in Sessions : WF_vars(HandlerStep(s))
    /\ \A s \in Sessions : SF_vars(RecvBroadcast(s))

FairSpec == Spec /\ Fairness
-----------------------------------------------------------------------------
\* Every table, registry, handler and channel has the shape the code gives it: no
\* registry exceeds policy.max_subscriptions, although the check and the registration
\* are several awaits apart, and no handler outlives its connection.
TypeOK ==
    /\ TableTypeOK
    /\ home \in [Events -> Tenants \union {NoTenant}]
    /\ now \in 0 .. MaxTime
    /\ conn \in [Sessions -> [open : BOOLEAN, auth : Pubkeys \union {NoKey},
                              subs : [SubIds -> Filters \union {NoSub}]]]
    /\ \A s \in Sessions :
          /\ Cardinality(Subs(s)) <= MaxSubscriptions
          /\ op[s].event \in Events \union {NoEvent}
          /\ op[s].found \subseteq Events
          /\ op[s].pc # "idle" => conn[s].open
          /\ Len(queue[s]) <= ChannelCapacity
          /\ \A n \in DOMAIN queue[s] : queue[s][n] \in [event : Events, tenant : Tenants]
    /\ got \in [Sessions -> [SubIds -> SUBSET Events]]
    /\ lagged \in [Sessions -> SUBSET Events]

Queued(s) == {queue[s][n].event : n \in DOMAIN queue[s]}

\* An accepted event whose handler has not reached the broadcast yet.
InFlight == {op[s].event : s \in {r \in Sessions : op[r].inserted}}

\* No subscription misses an event: a stored event of the tenant that matches
\* was in the answer to the REQ, was sent live, waits in the channel, or is
\* about to be broadcast.  Only a receiver that lagged has lost it.  This is
\* why a connection subscribes to the channel before it serves anything, and
\* why the driver never reads the channel while a REQ is in flight.
NoGap ==
    \A s \in Sessions : \A i \in Subs(s) :
        conn[s].subs[i] \intersect Stored(Serves[s])
            \subseteq got[s][i] \union Queued(s) \union lagged[s] \union InFlight

\* An event that is acknowledged as saved and broadcast is in the table, although the
\* retention pass, other inserts and other tenants come in between: unless it is past
\* its age, gave way to a newer version, or is the row of another tenant (the primary
\* key is the event id alone).
AcknowledgedIsStored ==
    [][\A s \in Sessions : LET e == op[s].event IN
          (At(s, "ev_finish") /\ op[s].inserted /\ op'[s] = Idle) =>
              \/ home[e] # NoTenant
              \/ MaxAge > 0 /\ CreatedAt[e] <= now - MaxAge
              \/ \E x \in Events : e \in Replaces[x]]_vars

\* README: "public_read=false requires NIP-42 auth plus membership for reads".
\* Stored events are only returned, and a subscription only registered, for a
\* key the tenant has admitted.
StoredReadsByMembers ==
    [][\A s \in Sessions, i \in SubIds :
          (/\ op[s].pc = "req_register" /\ op'[s].pc = "idle"
           /\ conn'[s].subs[i] # conn[s].subs[i]
           /\ Serves[s] \notin PublicRead) => conn[s].auth \in known[Serves[s]]]_vars

\* README: "public_write=false requires NIP-42 auth plus membership for writes".
\* An event enters a tenant's table only through a session that proved the key
\* of its author, and for a private tenant that key had been admitted, however
\* many awaits lie between the checks and the insert.
WritesByMembers ==
    [][\A e \in Events : (home'[e] # home[e] /\ home'[e] # NoTenant) =>
          LET t == home'[e] IN
          /\ t \notin PublicWrite => Author[e] \in known[t]
          /\ t \in AuthRequired => \E s \in Sessions :
                 Serves[s] = t /\ op[s].event = e /\ conn[s].auth = Author[e]]_vars

\* An event broadcast to a connection reaches the subscriptions that match it
\* and stay, unless the connection lags or closes.
LiveDelivery ==
    \A s \in Sessions, i \in SubIds, e \in Events, f \in Filters :
        (conn[s].subs[i] = f /\ e \in f /\ e \in Queued(s))
        ~> (e \in got[s][i] \/ e \in lagged[s] \/ conn[s].subs[i] # f)

LiveSend(s) == queue'[s] # queue[s] /\ op'[s] = op[s] /\ got'[s] # got[s]

\* README: "public_read=false requires NIP-42 auth plus membership for reads".
\* A live event of a private tenant goes to the connections of its members.
LiveReadsByMembers ==
    [][\A s \in Sessions : LiveSend(s) =>
          LET t == Head(queue[s]).tenant IN
          t \in PublicRead \/ conn[s].auth \in active[t]]_vars

\* nostr_event holds the rows of every tenant under the event id alone, and retention,
\* replacement and inserts of all connections work on it: a row goes only by a connection
\* of its own tenant, an id without a row is taken only for the tenant of the connection
\* that inserts it, and no step hands a row from one tenant to another.
RowsStayInTheirTenant ==
    [][\A e \in Events : home'[e] # home[e] =>
          \E s \in Sessions :
              \/ /\ op[s].pc \in {"ev_insert", "ev_retain"}
                 /\ home[e] = Serves[s] /\ home'[e] = NoTenant
              \/ /\ op[s].pc = "ev_insert" /\ op[s].event = e
                 /\ home[e] = NoTenant /\ home'[e] = Serves[s]]_vars
=============================================================================
