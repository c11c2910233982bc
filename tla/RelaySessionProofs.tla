-------------------------- MODULE RelaySessionProofs --------------------------
(***************************************************************************)
(* Proofs for the sessions of a relay, for any tenants, connections,       *)
(* events, subscriptions and channel capacity.                             *)
(*                                                                         *)
(* NoGap is not inductive: between the query of a REQ and the registration *)
(* of its filters the answer has to account for what is stored meanwhile,  *)
(* which it does because the channel is not read in between.  Gap says so. *)
(* OpOK says what a handler may rely on at each await: what it checked     *)
(* before, about the connection's key, which only its own driver changes,  *)
(* and about the membership, where known only grows.                       *)
(***************************************************************************)
EXTENDS RelaySession, FiniteSetTheorems, TLAPS

ReqPcs == {"req_member", "req_limit", "req_register"}
EvPcs == {"ev_member", "ev_admit", "ev_related", "ev_get", "ev_rivals", "ev_insert", "ev_retain", "ev_finish"}
InsertedPcs == {"ev_retain", "ev_finish"}

OpRec == [pc : {"idle"} \union ReqPcs \union EvPcs, sub : SubIds \union {NoSub},
          filter : SUBSET Events, found : SUBSET Events, event : Events \union {NoEvent},
          todo : Seq(SUBSET Events), at : 0 .. MaxTime, inserted : BOOLEAN]
ConnRec == [open : BOOLEAN, auth : Pubkeys \union {NoKey}, subs : [SubIds -> Filters \union {NoSub}]]
Message == [event : Events, tenant : Tenants]

Tables ==
    /\ TableTypeOK
    /\ \A t \in Tenants : active[t] \subseteq known[t]
    /\ home \in [Events -> Tenants \union {NoTenant}]
    /\ now \in 0 .. MaxTime
    /\ conn \in [Sessions -> ConnRec]
    /\ op \in [Sessions -> OpRec]
    /\ queue \in [Sessions -> Seq(Message)]
    /\ \A s \in Sessions : Len(queue[s]) <= ChannelCapacity
    /\ got \in [Sessions -> [SubIds -> SUBSET Events]]
    /\ lagged \in [Sessions -> SUBSET Events]

Registered(c) == {i \in SubIds : c.subs[i] # NoSub}

ConnOK(c) ==
    /\ \A i \in SubIds : c.subs[i] # NoSub => c.open
    /\ IsFiniteSet(Registered(c)) /\ Cardinality(Registered(c)) <= MaxSubscriptions

Room(c, i) == i \in Registered(c) \/ Cardinality(Registered(c)) < MaxSubscriptions

OpOK(s, o, c) ==
    /\ o.pc # "idle" => c.open
    /\ o.inserted => o.pc \in InsertedPcs
    /\ o.pc \in EvPcs => /\ o.event \in Events
                         /\ write_auth_required(Serves[s]) => c.auth = Author[o.event]
    /\ o.pc \in EvPcs \ {"ev_member"} /\ Serves[s] \notin PublicWrite => c.auth \in known[Serves[s]]
    /\ o.pc \in ReqPcs => o.sub \in SubIds /\ o.filter \in Filters
    /\ o.pc \in {"req_limit", "req_register"} /\ Serves[s] \notin PublicRead
          => c.auth \in known[Serves[s]]
    /\ o.pc = "req_register" => Room(c, o.sub)
    /\ o.pc = "ev_insert" => o.found \subseteq Replaces[o.event]
    /\ o.at <= now

\* Why an event that was inserted may be gone from the table.
Kept(e) ==
    \/ home[e] # NoTenant
    \/ MaxAge > 0 /\ CreatedAt[e] <= now - MaxAge
    \/ \E x \in Events : e \in Replaces[x]

\* Where an event that a connection was not sent yet may be.
Coming(s) == Queued(s) \union lagged[s] \union InFlight

Reached(s, F, G) == F \intersect Stored(Serves[s]) \subseteq G \union Coming(s)

Gap(s) ==
    /\ \A i \in SubIds : conn[s].subs[i] # NoSub => Reached(s, conn[s].subs[i], got[s][i])
    /\ op[s].pc = "req_register" => Reached(s, op[s].filter, op[s].found)

SessionOK(s) ==
    /\ ConnOK(conn[s]) /\ OpOK(s, op[s], conn[s]) /\ Gap(s)
    /\ op[s].inserted => Kept(op[s].event)

Inv == Tables /\ \A s \in Sessions : SessionOK(s)

-----------------------------------------------------------------------------
(***************************************************************************)
(* What every step leaves to the other connections.                        *)
(***************************************************************************)
Passes ==
    /\ \A t \in Tenants : known[t] \subseteq known'[t]
    /\ now' \in Int /\ now <= now'
    /\ \A e \in Events : Kept(e) => Kept(e)'

\* Nothing a connection waits for gets lost, and what is new is on its way.
Covered(s) ==
    /\ Stored(Serves[s])' \subseteq Stored(Serves[s]) \union InFlight'
    /\ Coming(s) \subseteq Coming(s)'

LEMMA SessionTypes ==
    ASSUME Inv, NEW s \in Sessions
    PROVE  /\ conn[s] \in ConnRec /\ op[s] \in OpRec /\ Serves[s] \in Tenants
           /\ op \in [Sessions -> OpRec] /\ conn \in [Sessions -> ConnRec]
           /\ ConnOK(conn[s]) /\ OpOK(s, op[s], conn[s]) /\ Gap(s) /\ SessionOK(s)
  BY SessionAssumption, Zenon DEF Inv, Tables, SessionOK

LEMMA Served == \A r \in Sessions : Serves[r] \in Tenants
  BY SessionAssumption, Zenon

LEMMA NoTenantIsNone == NoTenant \notin Tenants
  BY SessionAssumption, Zenon

LEMMA Capacity == ChannelCapacity \in Nat /\ ChannelCapacity > 0
  BY SessionAssumption

LEMMA Dates == \A e \in Events : CreatedAt[e] \in Int
  BY SessionAssumption

LEMMA Clock ==
    ASSUME Inv
    PROVE  now \in 0 .. MaxTime /\ now \in Int /\ 0 <= now /\ MaxTime \in Nat /\ MaxAge \in Nat
  BY SessionAssumption DEF Inv, Tables

LEMMA TableTypes ==
    ASSUME Inv
    PROVE  /\ home \in [Events -> Tenants \union {NoTenant}]
           /\ queue \in [Sessions -> Seq(Message)]
           /\ \A s \in Sessions : Len(queue[s]) <= ChannelCapacity
           /\ got \in [Sessions -> [SubIds -> SUBSET Events]]
           /\ lagged \in [Sessions -> SUBSET Events]
  BY Zenon DEF Inv, Tables

LEMMA HandlerTimes == ASSUME Inv, NEW s \in Sessions PROVE op[s].at \in Int /\ op[s].at <= now
<1>1. op[s] \in OpRec /\ OpOK(s, op[s], conn[s])
  BY SessionTypes, Zenon
<1> QED BY <1>1, SessionAssumption DEF OpRec, OpOK

\* The events of a channel.
Carried(q) == {q[n].event : n \in DOMAIN q}

LEMMA AppendCarries ==
    ASSUME NEW q \in Seq(Message), NEW m \in Message
    PROVE  /\ Append(q, m) \in Seq(Message) /\ Len(Append(q, m)) = Len(q) + 1
           /\ Carried(q) \subseteq Carried(Append(q, m)) /\ m.event \in Carried(Append(q, m))
<1> DEFINE p == Append(q, m)
<1>1. p \in Seq(Message) /\ Len(p) = Len(q) + 1 /\ p[Len(q) + 1] = m /\ Len(q) \in Nat
  OBVIOUS
<1>2. \A n \in 1 .. Len(q) : p[n] = q[n]
  OBVIOUS
<1>3. DOMAIN q = 1 .. Len(q) /\ DOMAIN p = 1 .. Len(q) + 1
  BY <1>1
<1> HIDE DEF p
<1>4. Carried(q) \subseteq Carried(p)
  BY <1>1, <1>2, <1>3 DEF Carried
<1>5. m.event \in Carried(p)
  <2>1. Len(q) + 1 \in DOMAIN p
    BY <1>1, <1>3
  <2> QED BY <1>1, <2>1, Zenon DEF Carried
<1> QED BY <1>1, <1>4, <1>5, Zenon DEF p

LEMMA TailCarries ==
    ASSUME NEW q \in Seq(Message), q # <<>>
    PROVE  /\ Tail(q) \in Seq(Message) /\ Len(Tail(q)) = Len(q) - 1 /\ Head(q) \in Message
           /\ Carried(q) \subseteq Carried(Tail(q)) \union {Head(q).event}
<1> DEFINE p == Tail(q)
<1>1. /\ p \in Seq(Message) /\ Len(p) = Len(q) - 1 /\ Head(q) = q[1] /\ Head(q) \in Message
      /\ Len(q) \in Nat /\ Len(q) > 0
  OBVIOUS
<1>2. \A n \in 1 .. Len(q) - 1 : p[n] = q[n + 1]
  OBVIOUS
<1>3. DOMAIN q = 1 .. Len(q) /\ DOMAIN p = 1 .. Len(q) - 1
  BY <1>1
<1> HIDE DEF p
<1>4. ASSUME NEW n \in DOMAIN q PROVE q[n].event \in Carried(p) \union {Head(q).event}
  <2>1. CASE n = 1
    BY <1>1, <2>1, Zenon
  <2>2. CASE n # 1
    <3>1. n - 1 \in DOMAIN p /\ p[n - 1] = q[n]
      BY <1>1, <1>2, <1>3, <2>2
    <3> QED BY <3>1, Zenon DEF Carried
  <2> QED BY <2>1, <2>2, Zenon
<1> QED BY <1>1, <1>4, Zenon DEF Carried, p

LEMMA ReachedStays ==
    ASSUME NEW s \in Sessions, NEW F, NEW G, NEW H, G \subseteq H, Reached(s, F, G), Covered(s)
    PROVE  F \intersect Stored(Serves[s])' \subseteq H \union Coming(s)'
<1>1. InFlight' \subseteq Coming(s)'
  BY Zenon DEF Coming
<1> QED BY <1>1, Zenon DEF Reached, Covered

LEMMA OpStays ==
    ASSUME Inv, Passes, NEW s \in Sessions, op'[s] = op[s], conn'[s] = conn[s]
    PROVE  OpOK(s, op[s], conn[s])'
<1>1. OpOK(s, op[s], conn[s]) /\ op[s] \in OpRec /\ Serves[s] \in Tenants
  BY SessionTypes, Zenon
<1>2. op[s].at \in Int /\ now \in Int /\ op[s].at <= now
  BY Clock, HandlerTimes, Zenon
<1>3. now <= now' /\ now' \in Int
  BY Zenon DEF Passes
<1>4. op[s].at <= now'
  BY <1>2, <1>3
<1>5. known[Serves[s]] \subseteq known'[Serves[s]]
  BY <1>1, Zenon DEF Passes
<1> QED BY <1>1, <1>4, <1>5, ZenonT(30) DEF OpOK, Room, Registered, write_auth_required, write_membership_required

LEMMA OthersStay ==
    ASSUME Inv, Passes, NEW s \in Sessions, op'[s] = op[s], conn'[s] = conn[s], got'[s] = got[s],
           conn[s].open => Covered(s)
    PROVE  SessionOK(s)'
<1>0. /\ ConnOK(conn[s]) /\ OpOK(s, op[s], conn[s]) /\ Gap(s) /\ op[s] \in OpRec
      /\ op[s].inserted => Kept(op[s].event)
  BY SessionTypes, Zenon DEF SessionOK
<1>1. ConnOK(conn[s])'
  BY <1>0, Zenon DEF ConnOK, Registered
<1>2. OpOK(s, op[s], conn[s])'
  BY OpStays, Zenon
<1>3. Gap(s)'
  <2>1. ASSUME NEW i \in SubIds, conn[s].subs[i] # NoSub
        PROVE  conn[s].subs[i] \intersect Stored(Serves[s])' \subseteq got[s][i] \union Coming(s)'
    <3>1. conn[s].open /\ Reached(s, conn[s].subs[i], got[s][i])
      BY <1>0, <2>1, Zenon DEF ConnOK, Gap
    <3> QED BY <3>1, ReachedStays
  <2>2. ASSUME op[s].pc = "req_register"
        PROVE  op[s].filter \intersect Stored(Serves[s])' \subseteq op[s].found \union Coming(s)'
    <3>1. conn[s].open /\ Reached(s, op[s].filter, op[s].found)
      BY <1>0, <2>2, Zenon DEF OpOK, Gap
    <3> QED BY <3>1, ReachedStays
  <2> QED BY <2>1, <2>2, Zenon DEF Gap, Reached
<1>4. ASSUME op[s].inserted PROVE Kept(op[s].event)'
  <2>1. op[s].event \in Events /\ Kept(op[s].event)
    BY <1>0, <1>4, Zenon DEF OpOK, InsertedPcs, EvPcs
  <2>2. PICK e \in Events : e = op[s].event
    BY <2>1, Zenon
  <2>3. Kept(e)'
    BY <2>1, <2>2, Zenon DEF Passes
  <2>4. op'[s].event = e
    BY <2>2, Zenon
  <2> QED BY <2>3, <2>4, Zenon DEF Kept
<1> QED BY <1>1, <1>2, <1>3, <1>4, Zenon DEF SessionOK

\* A step of connection s.
LEMMA Assemble ==
    ASSUME Inv, Passes, Tables', NEW s \in Sessions,
           \A r \in Sessions \ {s} : op'[r] = op[r] /\ conn'[r] = conn[r] /\ got'[r] = got[r],
           \A r \in Sessions \ {s} : conn[r].open => Covered(r),
           SessionOK(s)'
    PROVE  Inv'
<1>1. ASSUME NEW r \in Sessions PROVE SessionOK(r)'
  BY OthersStay, Zenon
<1> QED BY <1>1, Zenon DEF Inv

LEMMA InFlightGrows ==
    ASSUME Inv, NEW s \in Sessions, NEW o, op' = [op EXCEPT ![s] = o],
           op[s].inserted => o.inserted /\ o.event = op[s].event
    PROVE  InFlight \subseteq InFlight'
<1>1. op \in [Sessions -> OpRec]
  BY Zenon DEF Inv, Tables
<1>2. op'[s] = o /\ \A r \in Sessions \ {s} : op'[r] = op[r]
  BY <1>1, Zenon
<1> SUFFICES ASSUME NEW r \in Sessions, op[r].inserted PROVE op[r].event \in InFlight'
  BY Zenon DEF InFlight
<1>3. op'[r].inserted /\ op'[r].event = op[r].event
  BY <1>2, Zenon
<1> QED BY <1>3, Zenon DEF InFlight

LEMMA SameTables ==
    ASSUME Inv, UNCHANGED <<tableVars, home, now>>
    PROVE  /\ Passes /\ \A t \in Tenants : Stored(t)' = Stored(t)
<1>1. now \in Int
  BY Clock, Zenon
<1> QED BY <1>1 DEF Passes, Kept, Stored, tableVars

LEMMA SameChannel ==
    ASSUME Inv, UNCHANGED <<queue, lagged>>, InFlight \subseteq InFlight', NEW r \in Sessions
    PROVE  Coming(r) \subseteq Coming(r)'
  BY Zenon DEF Coming, Queued

\* A step of a handler that only moves the handler.
LEMMA MoveStep ==
    ASSUME Inv, NEW s \in Sessions, NEW o \in OpRec, op' = [op EXCEPT ![s] = o],
           UNCHANGED <<tableVars, home, now, conn, delivery>>,
           op[s].inserted => o.inserted /\ o.event = op[s].event,
           o.inserted => op[s].inserted /\ o.event = op[s].event,
           OpOK(s, o, conn[s]),
           o.pc = "req_register" => o.filter \intersect Stored(Serves[s]) \subseteq o.found
    PROVE  Inv'
<1>0. /\ op \in [Sessions -> OpRec] /\ ConnOK(conn[s]) /\ Gap(s) /\ Serves[s] \in Tenants
      /\ op[s].inserted => Kept(op[s].event)
  BY SessionTypes, Zenon DEF SessionOK
<1>1. op'[s] = o /\ (\A r \in Sessions \ {s} : op'[r] = op[r]) /\ op' \in [Sessions -> OpRec]
  BY <1>0, Zenon
<1>2. Passes /\ \A t \in Tenants : Stored(t)' = Stored(t)
  BY SameTables, Zenon
<1>3. InFlight \subseteq InFlight'
  BY InFlightGrows, Zenon
<1>4. \A r \in Sessions : Covered(r)
  BY <1>2, <1>3, SameChannel, Served, Zenon DEF Covered, delivery
<1>5. Tables'
  BY <1>1, Zenon DEF Inv, Tables, TableTypeOK, tableVars, delivery
<1>6. OpOK(s, op[s], conn[s])'
  BY <1>1, ZenonT(30) DEF OpOK, Room, Registered, tableVars, write_auth_required, write_membership_required
<1>7. Gap(s)'
  <2>1. ASSUME NEW i \in SubIds, conn[s].subs[i] # NoSub
        PROVE  conn[s].subs[i] \intersect Stored(Serves[s])' \subseteq got[s][i] \union Coming(s)'
    <3>1. Reached(s, conn[s].subs[i], got[s][i])
      BY <1>0, <2>1, Zenon DEF Gap
    <3> QED BY <3>1, <1>4, ReachedStays
  <2>2. o.pc = "req_register" => o.filter \intersect Stored(Serves[s])' \subseteq o.found \union Coming(s)'
    BY <1>0, <1>2, Zenon
  <2> QED BY <2>1, <2>2, <1>1, Zenon DEF Gap, Reached, delivery
<1>8. SessionOK(s)'
  <2>1. ConnOK(conn[s])'
    BY <1>0, Zenon DEF ConnOK, Registered
  <2>2. o.inserted => Kept(o.event)
    BY <1>0, Zenon
  <2>3. op'[s].inserted => Kept(op[s].event)'
    BY <2>2, <1>1, Zenon DEF Kept
  <2> QED BY <2>1, <2>3, <1>6, <1>7, Zenon DEF SessionOK
<1> QED BY <1>1, <1>2, <1>4, <1>5, <1>8, Assemble, Zenon DEF delivery

LEMMA IdleIsOp ==
    /\ Idle \in OpRec /\ Idle.pc = "idle" /\ Idle.event = NoEvent /\ Idle.inserted = FALSE /\ Idle.at = 0
  BY SessionAssumption DEF Idle, OpRec

LEMMA IdleIsOK ==
    ASSUME Inv, NEW s, NEW c PROVE OpOK(s, Idle, c)
<1>1. 0 <= now
  BY Clock, Zenon
<1> QED BY <1>1, IdleIsOp, Zenon DEF OpOK, ReqPcs, EvPcs, InsertedPcs

\* The handler answers without having inserted anything.
LEMMA ReplyStep ==
    ASSUME Inv, NEW s \in Sessions, Reply(s), ~op[s].inserted,
           UNCHANGED <<tableVars, home, now, conn, delivery>>
    PROVE  Inv'
<1>1. op' = [op EXCEPT ![s] = Idle]
  BY Zenon DEF Reply
<1> QED BY <1>1, IdleIsOp, IdleIsOK, MoveStep, Zenon

\* A handler that has not inserted goes on.
LEMMA NotInserted ==
    ASSUME Inv, NEW s \in Sessions, op[s].pc \notin InsertedPcs PROVE op[s].inserted = FALSE
<1>1. op[s] \in OpRec /\ (op[s].inserted => op[s].pc \in InsertedPcs)
  BY SessionTypes, Zenon DEF OpOK
<1>2. op[s].inserted \in BOOLEAN
  BY <1>1, Zenon DEF OpRec
<1> QED BY <1>1, <1>2, Zenon

-----------------------------------------------------------------------------
(***************************************************************************)
(* The handlers up to the insert.                                          *)
(***************************************************************************)
LEMMA MembersAreKnown ==
    ASSUME Inv, NEW s \in Sessions, is_member(s) PROVE conn[s].auth \in known[Serves[s]]
<1>1. Serves[s] \in Tenants
  BY Served, Zenon
<1> QED BY <1>1, Zenon DEF is_member, Inv, Tables

\* An EVENT handler that is admitted goes on with the same event.
LEMMA EventGoesOn ==
    ASSUME Inv, NEW s \in Sessions, op[s].pc \in EvPcs, op[s].pc = "ev_member" => is_member(s),
           NEW o \in OpRec, op' = [op EXCEPT ![s] = o], o.pc \in EvPcs \ {"ev_member"},
           o.event = op[s].event, o.inserted = op[s].inserted, o.at = op[s].at,
           op[s].inserted => o.pc \in InsertedPcs,
           o.pc = "ev_insert" => o.found \subseteq Replaces[op[s].event],
           UNCHANGED <<tableVars, home, now, conn, delivery>>
    PROVE  Inv'
<1>1. OpOK(s, op[s], conn[s])
  BY SessionTypes, Zenon
<1>2. Serves[s] \notin PublicWrite => conn[s].auth \in known[Serves[s]]
  BY <1>1, MembersAreKnown, Zenon DEF OpOK
<1>3. op[s].pc # "idle" /\ o.pc \notin ReqPcs
  BY Zenon DEF EvPcs, ReqPcs
<1>4. OpOK(s, o, conn[s])
  BY <1>1, <1>2, <1>3, Zenon DEF OpOK, ReqPcs, EvPcs
<1> QED BY <1>3, <1>4, MoveStep, Zenon DEF ReqPcs

LEMMA GotoStep ==
    ASSUME Inv, NEW s \in Sessions, op[s].pc \in EvPcs, op[s].pc = "ev_member" => is_member(s),
           NEW pc \in EvPcs \ {"ev_member", "ev_insert"}, Goto(s, pc),
           op[s].inserted => pc \in InsertedPcs,
           UNCHANGED <<tableVars, home, now, conn, delivery>>
    PROVE  Inv'
<1> DEFINE o == [op[s] EXCEPT !.pc = pc]
<1>1. op[s] \in OpRec /\ op \in [Sessions -> OpRec]
  BY SessionTypes, Zenon
<1>2. op' = [op EXCEPT ![s] = o]
  BY <1>1, Zenon DEF Goto
<1>3. /\ o \in OpRec /\ o.pc = pc /\ o.event = op[s].event /\ o.inserted = op[s].inserted
      /\ o.at = op[s].at
  BY <1>1, Zenon DEF OpRec
<1> HIDE DEF o
<1> QED BY <1>2, <1>3, EventGoesOn, Zenon

LEMMA EventMemberStep == ASSUME Inv, NEW s \in Sessions, EventMember(s) PROVE Inv'
<1>1. op[s].pc = "ev_member" /\ UNCHANGED <<tableVars, home, now, conn, delivery>>
  BY Zenon DEF EventMember, At
<1>2. op[s].inserted = FALSE
  BY <1>1, NotInserted, Zenon DEF InsertedPcs
<1>3. op[s].pc \in EvPcs /\ "ev_admit" \in EvPcs \ {"ev_member", "ev_insert"}
  BY <1>1, Zenon DEF EvPcs
<1>4. CASE is_member(s)
  BY <1>1, <1>2, <1>3, <1>4, GotoStep, Zenon DEF EventMember
<1>5. CASE ~is_member(s)
  BY <1>1, <1>2, <1>5, ReplyStep, Zenon DEF EventMember
<1> QED BY <1>4, <1>5, Zenon

LEMMA EventAdmitStep == ASSUME Inv, NEW s \in Sessions, EventAdmit(s) PROVE Inv'
<1>1. op[s].pc = "ev_admit" /\ UNCHANGED <<tableVars, home, now, conn, delivery>>
  BY Zenon DEF EventAdmit, At
<1>2. op[s].inserted = FALSE
  BY <1>1, NotInserted, Zenon DEF InsertedPcs
<1>3. op[s].pc \in EvPcs /\ "ev_get" \in EvPcs \ {"ev_member", "ev_insert"}
  BY <1>1, Zenon DEF EvPcs
<1>4. CASE Goto(s, "ev_get")
  BY <1>1, <1>2, <1>3, <1>4, GotoStep, Zenon
<1>5. CASE Reply(s)
  BY <1>1, <1>2, <1>5, ReplyStep, Zenon
<1>6. CASE op' = [op EXCEPT ![s].pc = "ev_related", ![s].todo = Related[op[s].event]]
  <2> DEFINE todo == Related[op[s].event]
             o == [op[s] EXCEPT !.pc = "ev_related", !.todo = todo]
  <2>1. op[s] \in OpRec /\ op \in [Sessions -> OpRec] /\ op[s].event \in Events
    BY <1>3, SessionTypes, Zenon DEF OpOK
  <2>2. todo \in Seq(SUBSET Events)
    BY <2>1, SessionAssumption, Zenon
  <2>3. op' = [op EXCEPT ![s] = o]
    BY <1>6, <2>1, Zenon
  <2> HIDE DEF todo
  <2>4. /\ o \in OpRec /\ o.pc = "ev_related" /\ o.event = op[s].event
        /\ o.inserted = op[s].inserted /\ o.at = op[s].at
    BY <2>1, <2>2, Zenon DEF OpRec, EvPcs
  <2>5. "ev_related" \in EvPcs
    BY Zenon DEF EvPcs
  <2> HIDE DEF o
  <2> QED BY <1>1, <1>2, <1>3, <2>3, <2>4, <2>5, EventGoesOn, Zenon
<1> QED BY <1>4, <1>5, <1>6, Zenon DEF EventAdmit

LEMMA EventRelatedStep == ASSUME Inv, NEW s \in Sessions, EventRelated(s) PROVE Inv'
<1>1. op[s].pc = "ev_related" /\ UNCHANGED <<tableVars, home, now, conn, delivery>>
  BY Zenon DEF EventRelated, At
<1>2. op[s].inserted = FALSE
  BY <1>1, NotInserted, Zenon DEF InsertedPcs
<1>3. op[s].pc \in EvPcs /\ "ev_get" \in EvPcs \ {"ev_member", "ev_insert"}
  BY <1>1, Zenon DEF EvPcs
<1>4. CASE Goto(s, "ev_get")
  BY <1>1, <1>2, <1>3, <1>4, GotoStep, Zenon
<1>5. CASE Reply(s)
  BY <1>1, <1>2, <1>5, ReplyStep, Zenon
<1>6. CASE op[s].todo # <<>> /\ op' = [op EXCEPT ![s].todo = Tail(@)]
  <2> DEFINE todo == Tail(op[s].todo)
             o == [op[s] EXCEPT !.todo = todo]
  <2>1. op[s] \in OpRec /\ op \in [Sessions -> OpRec]
    BY SessionTypes, Zenon
  <2>2. todo \in Seq(SUBSET Events)
    <3>1. op[s].todo \in Seq(SUBSET Events)
      BY <2>1, Zenon DEF OpRec
    <3> QED BY <1>6, <3>1
  <2>3. op' = [op EXCEPT ![s] = o]
    BY <1>6, <2>1, Zenon
  <2> HIDE DEF todo
  <2>4. /\ o \in OpRec /\ o.pc = "ev_related" /\ o.event = op[s].event
        /\ o.inserted = op[s].inserted /\ o.at = op[s].at
    BY <1>1, <2>1, <2>2, Zenon DEF OpRec
  <2>5. "ev_related" \in EvPcs
    BY Zenon DEF EvPcs
  <2> HIDE DEF o
  <2> QED BY <1>1, <1>2, <1>3, <2>3, <2>4, <2>5, EventGoesOn, Zenon
<1> QED BY <1>4, <1>5, <1>6, Zenon DEF EventRelated

LEMMA EventGetStep == ASSUME Inv, NEW s \in Sessions, EventGet(s) PROVE Inv'
<1>1. op[s].pc = "ev_get" /\ UNCHANGED <<tableVars, home, now, conn, delivery>>
  BY Zenon DEF EventGet, At
<1>2. op[s].inserted = FALSE
  BY <1>1, NotInserted, Zenon DEF InsertedPcs
<1>3. PICK pc \in {"ev_finish", "ev_rivals"} : Goto(s, pc)
  BY Zenon DEF EventGet
<1>4. op[s].pc \in EvPcs /\ pc \in EvPcs \ {"ev_member", "ev_insert"}
  BY <1>1, Zenon DEF EvPcs
<1> QED BY <1>1, <1>2, <1>3, <1>4, GotoStep, Zenon

LEMMA EventRivalsStep == ASSUME Inv, NEW s \in Sessions, EventRivals(s) PROVE Inv'
<1>1. op[s].pc = "ev_rivals" /\ UNCHANGED <<tableVars, home, now, conn, delivery>>
  BY Zenon DEF EventRivals, At
<1>2. op[s].inserted = FALSE
  BY <1>1, NotInserted, Zenon DEF InsertedPcs
<1>3. op[s].pc \in EvPcs /\ "ev_finish" \in EvPcs \ {"ev_member", "ev_insert"} /\ "ev_insert" \in EvPcs
  BY <1>1, Zenon DEF EvPcs
<1>4. CASE Goto(s, "ev_finish")
  BY <1>1, <1>2, <1>3, <1>4, GotoStep, Zenon
<1> DEFINE found == Replaces[op[s].event] \intersect Stored(Serves[s])
           o == [op[s] EXCEPT !.pc = "ev_insert", !.found = found]
<1>5. CASE op' = [op EXCEPT ![s].pc = "ev_insert", ![s].found = found]
  <2>1. op[s] \in OpRec /\ op \in [Sessions -> OpRec]
    BY SessionTypes, Zenon
  <2>2. found \subseteq Events /\ found \subseteq Replaces[op[s].event]
    BY Zenon DEF Stored
  <2>3. op' = [op EXCEPT ![s] = o]
    BY <1>5, <2>1, Zenon
  <2> HIDE DEF found
  <2>4. /\ o \in OpRec /\ o.pc = "ev_insert" /\ o.event = op[s].event /\ o.found = found
        /\ o.inserted = op[s].inserted /\ o.at = op[s].at
    BY <2>1, <2>2, Zenon DEF OpRec, EvPcs
  <2> HIDE DEF o
  <2> QED BY <1>1, <1>2, <1>3, <2>2, <2>3, <2>4, EventGoesOn, ZenonT(30)
<1> QED BY <1>4, <1>5, Zenon DEF EventRivals

LEMMA EventRetainedStep == ASSUME Inv, NEW s \in Sessions, EventRetained(s) PROVE Inv'
<1>1. op[s].pc \in EvPcs /\ op[s].pc # "ev_member" /\ UNCHANGED <<tableVars, home, now, conn, delivery>>
  BY Zenon DEF EventRetained, At, EvPcs
<1>2. "ev_finish" \in EvPcs \ {"ev_member", "ev_insert"} /\ "ev_finish" \in InsertedPcs
  BY Zenon DEF EvPcs, InsertedPcs
<1> QED BY <1>1, <1>2, GotoStep, Zenon DEF EventRetained

LEMMA StorageErrorStep == ASSUME Inv, NEW s \in Sessions, StorageError(s) PROVE Inv'
<1>1. UNCHANGED <<tableVars, home, now, conn, delivery>>
  BY Zenon DEF StorageError
<1>2. CASE op[s].pc = "ev_retain"
  <2>1. "ev_finish" \in EvPcs \ {"ev_member", "ev_insert"} /\ "ev_finish" \in InsertedPcs
    BY Zenon DEF EvPcs, InsertedPcs
  <2>2. op[s].pc \in EvPcs /\ op[s].pc # "ev_member"
    BY <1>2, Zenon DEF EvPcs
  <2> QED BY <1>1, <1>2, <2>1, <2>2, GotoStep, Zenon DEF StorageError, At
<1>3. CASE op[s].pc # "ev_retain"
  <2>1. op[s].inserted = FALSE
    BY <1>3, NotInserted, Zenon DEF StorageError, InsertedPcs
  <2> QED BY <1>1, <1>3, <2>1, ReplyStep, Zenon DEF StorageError, At
<1> QED BY <1>2, <1>3, Zenon

LEMMA EventBeginStep == ASSUME Inv, NEW s \in Sessions, NEW e \in Events, EventBegin(s, e) PROVE Inv'
<1> DEFINE pc == IF write_membership_required(Serves[s]) THEN "ev_member" ELSE "ev_admit"
           o == [Idle EXCEPT !.event = e, !.at = now, !.pc = pc]
<1>1. /\ op[s].pc = "idle" /\ conn[s].open /\ may_write(s, e) /\ op' = [op EXCEPT ![s] = o]
      /\ UNCHANGED <<tableVars, home, now, conn, delivery>>
  BY Zenon DEF EventBegin, At, Ready
<1>2. op[s].inserted = FALSE
  BY <1>1, NotInserted, Zenon DEF InsertedPcs
<1>3. /\ pc \in EvPcs \ {"ev_insert"} /\ pc \notin ReqPcs /\ pc \notin InsertedPcs
      /\ pc # "ev_member" => Serves[s] \in PublicWrite
  BY Zenon DEF EvPcs, ReqPcs, InsertedPcs, write_membership_required
<1>4. now \in 0 .. MaxTime
  BY Clock, Zenon
<1> HIDE DEF pc
<1>5. /\ o \in OpRec /\ o.pc = pc /\ o.event = e /\ o.at = now /\ o.inserted = FALSE
  BY <1>3, <1>4, IdleIsOp, Zenon DEF OpRec, Idle
<1> HIDE DEF o
<1>6. now <= now
  BY <1>4, SessionAssumption
<1>7. OpOK(s, o, conn[s])
  BY <1>1, <1>3, <1>5, <1>6, Zenon DEF OpOK, may_write, ReqPcs
<1> QED BY <1>1, <1>2, <1>3, <1>5, <1>7, MoveStep, Zenon DEF ReqPcs

LEMMA ReqBeginStep ==
    ASSUME Inv, NEW s \in Sessions, NEW i \in SubIds, NEW f \in Filters, ReqBegin(s, i, f) PROVE Inv'
<1> DEFINE pc == IF read_membership_required(Serves[s]) THEN "req_member" ELSE "req_limit"
           o == [Idle EXCEPT !.sub = i, !.filter = f, !.pc = pc]
<1>1. /\ op[s].pc = "idle" /\ conn[s].open /\ op' = [op EXCEPT ![s] = o]
      /\ UNCHANGED <<tableVars, home, now, conn, delivery>>
  BY Zenon DEF ReqBegin, At, Ready
<1>2. op[s].inserted = FALSE
  BY <1>1, NotInserted, Zenon DEF InsertedPcs
<1>3. pc \in {"req_member", "req_limit"} /\ (pc = "req_limit" => Serves[s] \in PublicRead)
  BY Zenon DEF read_membership_required
<1> HIDE DEF pc
<1>4. pc \in ReqPcs /\ pc \notin EvPcs
  BY <1>3, Zenon DEF ReqPcs, EvPcs
<1>5. f \in SUBSET Events
  BY SessionAssumption, Zenon
<1>6. /\ o \in OpRec /\ o.pc = pc /\ o.sub = i /\ o.filter = f /\ o.at = 0 /\ o.inserted = FALSE
  BY <1>4, <1>5, IdleIsOp, Zenon DEF OpRec, Idle
<1> HIDE DEF o
<1>7. 0 <= now
  BY Clock, Zenon
<1>8. OpOK(s, o, conn[s])
  BY <1>1, <1>3, <1>4, <1>6, <1>7, Zenon DEF OpOK, EvPcs
<1> QED BY <1>1, <1>2, <1>3, <1>6, <1>8, MoveStep, Zenon

LEMMA ReqMemberStep == ASSUME Inv, NEW s \in Sessions, ReqMember(s) PROVE Inv'
<1>1. op[s].pc = "req_member" /\ UNCHANGED <<tableVars, home, now, conn, delivery>>
  BY Zenon DEF ReqMember, At
<1>2. op[s].inserted = FALSE
  BY <1>1, NotInserted, Zenon DEF InsertedPcs
<1>3. CASE is_member(s)
  <2> DEFINE o == [op[s] EXCEPT !.pc = "req_limit"]
  <2>1. op[s] \in OpRec /\ op \in [Sessions -> OpRec] /\ OpOK(s, op[s], conn[s])
    BY SessionTypes, Zenon
  <2>2. op' = [op EXCEPT ![s] = o]
    BY <1>3, <2>1, Zenon DEF ReqMember, Goto
  <2>3. /\ o \in OpRec /\ o.pc = "req_limit" /\ o.sub = op[s].sub /\ o.filter = op[s].filter
        /\ o.at = op[s].at /\ o.inserted = FALSE
    BY <1>2, <2>1, Zenon DEF OpRec, ReqPcs
  <2> HIDE DEF o
  <2>4. conn[s].auth \in known[Serves[s]]
    BY <1>3, MembersAreKnown, Zenon
  <2>5. OpOK(s, o, conn[s])
    BY <1>1, <2>1, <2>3, <2>4, ZenonT(30) DEF OpOK, EvPcs, ReqPcs
  <2> QED BY <1>1, <1>2, <2>2, <2>3, <2>5, MoveStep, Zenon
<1>4. CASE ~is_member(s)
  BY <1>1, <1>2, <1>4, ReplyStep, Zenon DEF ReqMember
<1> QED BY <1>3, <1>4, Zenon

LEMMA ReqQueryStep == ASSUME Inv, NEW s \in Sessions, ReqQuery(s) PROVE Inv'
<1>1. op[s].pc = "req_limit" /\ UNCHANGED <<tableVars, home, now, conn, delivery>>
  BY Zenon DEF ReqQuery, At
<1>2. op[s].inserted = FALSE
  BY <1>1, NotInserted, Zenon DEF InsertedPcs
<1>3. CASE too_many_subscriptions(s, op[s].sub)
  BY <1>1, <1>2, <1>3, ReplyStep, Zenon DEF ReqQuery
<1>4. CASE ~too_many_subscriptions(s, op[s].sub)
  <2> DEFINE found == Stored(Serves[s]) \intersect op[s].filter
             o == [op[s] EXCEPT !.pc = "req_register", !.found = found]
  <2>1. op[s] \in OpRec /\ op \in [Sessions -> OpRec] /\ OpOK(s, op[s], conn[s]) /\ ConnOK(conn[s])
    BY SessionTypes, Zenon
  <2>2. op' = [op EXCEPT ![s] = o]
    BY <1>4, <2>1, Zenon DEF ReqQuery
  <2>3. found \in SUBSET Events /\ op[s].filter \intersect Stored(Serves[s]) \subseteq found
    BY Zenon DEF Stored
  <2> HIDE DEF found
  <2>4. /\ o \in OpRec /\ o.pc = "req_register" /\ o.sub = op[s].sub /\ o.filter = op[s].filter
        /\ o.found = found /\ o.at = op[s].at /\ o.inserted = FALSE
    BY <1>2, <2>1, <2>3, Zenon DEF OpRec, ReqPcs
  <2> HIDE DEF o
  <2>5. Room(conn[s], op[s].sub)
    <3>1. Cardinality(Registered(conn[s])) \in Nat /\ MaxSubscriptions \in Nat
      BY <2>1, FS_CardinalityType, SessionAssumption, Zenon DEF ConnOK
    <3>2. op[s].sub \in Registered(conn[s]) \/ ~(Cardinality(Registered(conn[s])) >= MaxSubscriptions)
      BY <1>4, Zenon DEF too_many_subscriptions, Subs, Registered
    <3> QED BY <3>1, <3>2 DEF Room
  <2>6. OpOK(s, o, conn[s])
    BY <1>1, <2>1, <2>4, <2>5, Zenon DEF OpOK, EvPcs, ReqPcs
  <2> QED BY <1>1, <1>2, <2>2, <2>3, <2>4, <2>6, MoveStep, Zenon
<1> QED BY <1>3, <1>4, Zenon

-----------------------------------------------------------------------------
(***************************************************************************)
(* Connections and registrations.                                          *)
(***************************************************************************)
\* A connection between two messages: its record changes, and subscriptions may go.
LEMMA ConnStep ==
    ASSUME Inv, NEW s \in Sessions, op[s].pc = "idle", UNCHANGED <<tableVars, home, now, op>>,
           NEW c \in ConnRec, conn' = [conn EXCEPT ![s] = c], ConnOK(c), Tables',
           \A r \in Sessions \ {s} : /\ got'[r] = got[r] /\ queue'[r] = queue[r]
                                     /\ lagged'[r] = lagged[r],
           \A i \in SubIds : c.subs[i] # NoSub =>
               /\ c.subs[i] = conn[s].subs[i] /\ got'[s][i] = got[s][i]
               /\ queue'[s] = queue[s] /\ lagged'[s] = lagged[s]
    PROVE  Inv'
<1>0. conn \in [Sessions -> ConnRec] /\ OpOK(s, op[s], conn[s]) /\ Gap(s) /\ op[s] \in OpRec
  BY SessionTypes, Zenon
<1>1. conn'[s] = c /\ \A r \in Sessions \ {s} : conn'[r] = conn[r]
  BY <1>0, Zenon
<1>2. Passes /\ \A t \in Tenants : Stored(t)' = Stored(t)
  BY SameTables, Zenon
<1>3. InFlight' = InFlight
  BY ZenonT(30) DEF InFlight
<1>4. ASSUME NEW r \in Sessions, queue'[r] = queue[r], lagged'[r] = lagged[r] PROVE Covered(r)
  <2>1. Stored(Serves[r])' = Stored(Serves[r])
    BY <1>2, Served, Zenon
  <2> QED BY <1>3, <1>4, <2>1 DEF Covered, Coming, Queued
<1>5. op[s].inserted = FALSE
  BY NotInserted, Zenon DEF InsertedPcs
<1>6. OpOK(s, op[s], conn[s])'
  BY <1>0, <1>1, <1>5, ZenonT(30) DEF OpOK, ReqPcs, EvPcs
<1>7. ASSUME NEW i \in SubIds, c.subs[i] # NoSub
      PROVE  c.subs[i] \intersect Stored(Serves[s])' \subseteq got'[s][i] \union Coming(s)'
  <2>1. Reached(s, c.subs[i], got'[s][i]) /\ Covered(s)
    BY <1>0, <1>4, <1>7, Zenon DEF Gap
  <2> QED BY <2>1, ReachedStays
<1>8. SessionOK(s)'
  BY <1>1, <1>5, <1>6, <1>7, ZenonT(30) DEF SessionOK, Gap, Reached, ConnOK, Registered
<1> QED BY <1>1, <1>2, <1>4, <1>8, Assemble, Zenon

LEMMA CountOf ==
    ASSUME Inv, NEW s \in Sessions
    PROVE  /\ IsFiniteSet(Registered(conn[s])) /\ Cardinality(Registered(conn[s])) \in Nat
           /\ Cardinality(Registered(conn[s])) <= MaxSubscriptions /\ MaxSubscriptions \in Nat
  BY SessionTypes, FS_CardinalityType, SessionAssumption, Zenon DEF ConnOK

LEMMA ConnectStep == ASSUME Inv, NEW s \in Sessions, Connect(s) PROVE Inv'
<1> DEFINE c == [conn[s] EXCEPT !.open = TRUE]
<1>0. conn[s] \in ConnRec /\ conn \in [Sessions -> ConnRec] /\ OpOK(s, op[s], conn[s]) /\ ConnOK(conn[s])
  BY SessionTypes, Zenon
<1>1. op[s].pc = "idle"
  BY <1>0, Zenon DEF OpOK, Connect
<1>2. c \in ConnRec /\ c.subs = conn[s].subs /\ c.open = TRUE
  BY <1>0, Zenon DEF ConnRec
<1>3. conn' = [conn EXCEPT ![s] = c]
  BY <1>0, Zenon DEF Connect
<1> HIDE DEF c
<1>4. ConnOK(c)
  BY <1>0, <1>2, Zenon DEF ConnOK, Registered
<1>5. Tables'
  BY <1>0, <1>2, <1>3, ZenonT(30) DEF Inv, Tables, TableTypeOK, tableVars, Connect, delivery
<1> QED BY <1>1, <1>2, <1>3, <1>4, <1>5, ConnStep, Zenon DEF Connect, delivery

LEMMA HandleAuthStep == ASSUME Inv, NEW s \in Sessions, NEW p \in Pubkeys, HandleAuth(s, p) PROVE Inv'
<1> DEFINE c == [conn[s] EXCEPT !.auth = p]
<1>0. conn[s] \in ConnRec /\ conn \in [Sessions -> ConnRec] /\ ConnOK(conn[s])
  BY SessionTypes, Zenon
<1>1. op[s].pc = "idle"
  BY Zenon DEF HandleAuth, Ready, At
<1>2. c \in ConnRec /\ c.subs = conn[s].subs /\ c.open = conn[s].open
  BY <1>0, Zenon DEF ConnRec
<1>3. conn' = [conn EXCEPT ![s] = c]
  BY <1>0, Zenon DEF HandleAuth
<1> HIDE DEF c
<1>4. ConnOK(c)
  BY <1>0, <1>2, Zenon DEF ConnOK, Registered
<1>5. Tables'
  BY <1>0, <1>2, <1>3, ZenonT(30) DEF Inv, Tables, TableTypeOK, tableVars, HandleAuth, delivery
<1> QED BY <1>1, <1>2, <1>3, <1>4, <1>5, ConnStep, ZenonT(30) DEF HandleAuth, delivery

LEMMA HandleCloseStep == ASSUME Inv, NEW s \in Sessions, NEW i \in SubIds, HandleClose(s, i) PROVE Inv'
<1> DEFINE c == [conn[s] EXCEPT !.subs[i] = NoSub]
<1>0. conn[s] \in ConnRec /\ conn \in [Sessions -> ConnRec] /\ ConnOK(conn[s])
  BY SessionTypes, Zenon
<1>1. op[s].pc = "idle"
  BY Zenon DEF HandleClose, Ready, At
<1>2. /\ c \in ConnRec /\ c.subs[i] = NoSub /\ c.open = conn[s].open
      /\ \A j \in SubIds \ {i} : c.subs[j] = conn[s].subs[j]
  BY <1>0, Zenon DEF ConnRec
<1>3. conn' = [conn EXCEPT ![s] = c]
  BY <1>0, Zenon DEF HandleClose, ConnRec
<1> HIDE DEF c
<1>4. ConnOK(c)
  <2>1. Registered(c) \subseteq Registered(conn[s])
    BY <1>2, Zenon DEF Registered
  <2>2. IsFiniteSet(Registered(c)) /\ Cardinality(Registered(c)) <= Cardinality(Registered(conn[s]))
    BY <2>1, CountOf, FS_Subset, Zenon
  <2>3. Cardinality(Registered(c)) \in Nat
    BY <2>2, FS_CardinalityType, Zenon
  <2>4. Cardinality(Registered(c)) <= MaxSubscriptions
    BY SMTT(20), <2>2, <2>3, CountOf
  <2> QED BY <1>0, <1>2, <2>2, <2>4 DEF ConnOK
<1>5. got \in [Sessions -> [SubIds -> SUBSET Events]]
  BY TableTypes, Zenon
<1>6. /\ got' \in [Sessions -> [SubIds -> SUBSET Events]]
      /\ \A r \in Sessions \ {s} : got'[r] = got[r]
      /\ \A j \in SubIds \ {i} : got'[s][j] = got[s][j]
  BY <1>5, Zenon DEF HandleClose
<1>7. Tables'
  <2>1. conn' \in [Sessions -> ConnRec] /\ UNCHANGED <<tableVars, home, now, op, queue, lagged>>
    BY <1>0, <1>2, <1>3, Zenon DEF HandleClose
  <2> QED BY <1>6, <2>1, Zenon DEF Inv, Tables, TableTypeOK, tableVars
<1> QED BY ZenonT(30), <1>1, <1>2, <1>3, <1>4, <1>6, <1>7, ConnStep DEF HandleClose

LEMMA ClosedIsConn == Closed \in ConnRec /\ ConnOK(Closed) /\ \A i \in SubIds : Closed.subs[i] = NoSub
<1>1. Closed \in ConnRec /\ \A i \in SubIds : Closed.subs[i] = NoSub
  BY Zenon DEF Closed, ConnRec
<1>2. Registered(Closed) = {}
  BY <1>1, Zenon DEF Registered
<1>3. IsFiniteSet({}) /\ Cardinality({}) = 0
  BY FS_EmptySet, Zenon
<1> QED BY SMTT(20), <1>1, <1>2, <1>3, SessionAssumption DEF ConnOK

LEMMA DisconnectStep == ASSUME Inv, NEW s \in Sessions, Disconnect(s) PROVE Inv'
<1>0. /\ op[s].pc = "idle" /\ conn' = [conn EXCEPT ![s] = Closed] /\ conn \in [Sessions -> ConnRec]
      /\ UNCHANGED <<tableVars, home, now, op>>
  BY SessionTypes, Zenon DEF Disconnect, Ready, At
<1>1. /\ queue \in [Sessions -> Seq(Message)] /\ got \in [Sessions -> [SubIds -> SUBSET Events]]
      /\ lagged \in [Sessions -> SUBSET Events] /\ NothingSent \in [SubIds -> SUBSET Events]
  BY TableTypes, Zenon DEF NothingSent
<1>2. /\ queue' \in [Sessions -> Seq(Message)] /\ got' \in [Sessions -> [SubIds -> SUBSET Events]]
      /\ lagged' \in [Sessions -> SUBSET Events]
      /\ \A r \in Sessions \ {s} : got'[r] = got[r] /\ queue'[r] = queue[r] /\ lagged'[r] = lagged[r]
      /\ queue'[s] = <<>>
  BY <1>1 DEF Disconnect
<1>3. \A r \in Sessions : Len(queue'[r]) <= ChannelCapacity
  <2>1. Len(<<>>) <= ChannelCapacity
    BY Capacity
  <2> QED BY <1>2, <2>1, Zenon DEF Inv, Tables
<1>4. Tables'
  BY <1>0, <1>2, <1>3, ClosedIsConn, Zenon DEF Inv, Tables, TableTypeOK, tableVars
<1> QED BY <1>0, <1>2, <1>4, ClosedIsConn, ConnStep, ZenonT(30)

\* The answer to a REQ accounts for everything stored since its query.
LEMMA ReqRegisterStep == ASSUME Inv, NEW s \in Sessions, ReqRegister(s) PROVE Inv'
<1> DEFINE i == op[s].sub
           f == op[s].filter
           c == [conn[s] EXCEPT !.subs[i] = f]
<1>0. /\ op[s].pc = "req_register" /\ op' = [op EXCEPT ![s] = Idle]
      /\ conn' = [conn EXCEPT ![s].subs[i] = f] /\ got' = [got EXCEPT ![s][i] = op[s].found]
      /\ UNCHANGED <<tableVars, home, now, queue, lagged>>
  BY Zenon DEF ReqRegister, At, Reply
<1>1. /\ conn[s] \in ConnRec /\ conn \in [Sessions -> ConnRec] /\ ConnOK(conn[s]) /\ Gap(s)
      /\ op[s] \in OpRec /\ op \in [Sessions -> OpRec] /\ OpOK(s, op[s], conn[s])
      /\ got \in [Sessions -> [SubIds -> SUBSET Events]]
  BY SessionTypes, TableTypes, Zenon
<1>2. i \in SubIds /\ f \in Filters /\ f # NoSub /\ Room(conn[s], i) /\ conn[s].open
  BY <1>0, <1>1, SessionAssumption, ZenonT(30) DEF OpOK, ReqPcs
<1>3. Reached(s, f, op[s].found) /\ op[s].found \in SUBSET Events
  BY <1>0, <1>1, Zenon DEF Gap, OpRec
<1> HIDE DEF i, f
<1>4. /\ c \in ConnRec /\ c.subs[i] = f /\ c.open = conn[s].open
      /\ \A j \in SubIds \ {i} : c.subs[j] = conn[s].subs[j]
  BY <1>1, <1>2, Zenon DEF ConnRec
<1>5. conn' = [conn EXCEPT ![s] = c]
  BY <1>0, <1>1, <1>2, Zenon DEF ConnRec
<1> HIDE DEF c
<1>6. ConnOK(c)
  <2>1. Registered(c) = Registered(conn[s]) \union {i}
    BY <1>2, <1>4, Zenon DEF Registered
  <2>2. /\ IsFiniteSet(Registered(conn[s]) \union {i})
        /\ \/ /\ i \in Registered(conn[s])
              /\ Cardinality(Registered(conn[s]) \union {i}) = Cardinality(Registered(conn[s]))
           \/ /\ i \notin Registered(conn[s])
              /\ Cardinality(Registered(conn[s]) \union {i}) = Cardinality(Registered(conn[s])) + 1
    BY CountOf, FS_AddElement, Zenon
  <2>3. Cardinality(Registered(c)) <= MaxSubscriptions
    BY SMTT(20), <1>2, <2>1, <2>2, CountOf DEF Room
  <2> QED BY <1>2, <1>4, <2>1, <2>2, <2>3, Zenon DEF ConnOK
<1>7. /\ conn'[s] = c /\ op'[s] = Idle /\ got'[s][i] = op[s].found
      /\ \A j \in SubIds \ {i} : got'[s][j] = got[s][j]
      /\ got' \in [Sessions -> [SubIds -> SUBSET Events]]
      /\ \A r \in Sessions \ {s} : op'[r] = op[r] /\ conn'[r] = conn[r] /\ got'[r] = got[r]
  BY <1>0, <1>1, <1>2, <1>3, <1>5, ZenonT(30)
<1>8. op[s].inserted = FALSE
  BY <1>0, NotInserted, Zenon DEF InsertedPcs
<1>9. Passes /\ \A r \in Sessions : Covered(r)
  <2>1. InFlight \subseteq InFlight'
    BY <1>0, <1>8, InFlightGrows, Zenon
  <2>2. \A r \in Sessions : Coming(r) \subseteq Coming(r)'
    BY <1>0, <2>1, SameChannel, Zenon
  <2>3. Passes /\ \A t \in Tenants : Stored(t)' = Stored(t)
    BY <1>0, SameTables, Zenon
  <2> QED BY <2>2, <2>3, Served, Zenon DEF Covered
<1>10. Tables'
  BY <1>0, <1>1, <1>4, <1>5, <1>7, IdleIsOp, ZenonT(30) DEF Inv, Tables, TableTypeOK, tableVars
<1>11. Gap(s)'
  <2>1. f \intersect Stored(Serves[s])' \subseteq op[s].found \union Coming(s)'
    BY SMTT(20), <1>3, <1>9, ReachedStays
  <2>2. ASSUME NEW j \in SubIds \ {i}, conn[s].subs[j] # NoSub
        PROVE  conn[s].subs[j] \intersect Stored(Serves[s])' \subseteq got[s][j] \union Coming(s)'
    <3>1. Reached(s, conn[s].subs[j], got[s][j])
      BY <1>1, <2>2, Zenon DEF Gap
    <3> QED BY <3>1, <1>9, ReachedStays
  <2> QED BY <1>4, <1>7, <2>1, <2>2, IdleIsOp, ZenonT(30) DEF Gap, Reached
<1>12. OpOK(s, Idle, c)
  BY IdleIsOK, Zenon
<1>13. SessionOK(s)'
  <2>1. OpOK(s, op[s], conn[s])'
    BY <1>0, <1>7, <1>12, IdleIsOp, Zenon DEF OpOK, ReqPcs, EvPcs
  <2> QED BY <1>6, <1>7, <1>11, <2>1, IdleIsOp, Zenon DEF SessionOK, ConnOK, Registered
<1> QED BY <1>7, <1>9, <1>10, <1>13, Assemble, Zenon

-----------------------------------------------------------------------------
(***************************************************************************)
(* The store and the channel.                                              *)
(***************************************************************************)
\* A handler writes the event table.
LEMMA HomeStep ==
    ASSUME Inv, NEW s \in Sessions, NEW o \in OpRec, op' = [op EXCEPT ![s] = o],
           UNCHANGED <<tableVars, now, conn, delivery>>, home' \in [Events -> Tenants \union {NoTenant}],
           \A e \in Events : Kept(e) => Kept(e)',
           \A t \in Tenants : Stored(t)' \subseteq Stored(t) \union InFlight',
           InFlight \subseteq InFlight',
           o.pc # "req_register", OpOK(s, o, conn[s]),
           o.inserted => Kept(o.event)'
    PROVE  Inv'
<1>0. op \in [Sessions -> OpRec] /\ ConnOK(conn[s]) /\ Gap(s)
  BY SessionTypes, Zenon
<1>1. op'[s] = o /\ (\A r \in Sessions \ {s} : op'[r] = op[r]) /\ op' \in [Sessions -> OpRec]
  BY <1>0, Zenon
<1>2. Passes
  BY Clock DEF Passes, tableVars
<1>3. \A r \in Sessions : Covered(r)
  BY SameChannel, Served, Zenon DEF Covered, delivery
<1>4. Tables'
  BY <1>1, Zenon DEF Inv, Tables, TableTypeOK, tableVars, delivery
<1>5. OpOK(s, op[s], conn[s])'
  BY <1>1, ZenonT(30) DEF OpOK, tableVars, Room, Registered, write_auth_required, write_membership_required
<1>6. Gap(s)'
  <2>1. ASSUME NEW i \in SubIds, conn[s].subs[i] # NoSub
        PROVE  conn[s].subs[i] \intersect Stored(Serves[s])' \subseteq got[s][i] \union Coming(s)'
    <3>1. Reached(s, conn[s].subs[i], got[s][i])
      BY <1>0, <2>1, Zenon DEF Gap
    <3> QED BY SMTT(20), <3>1, <1>3, ReachedStays
  <2> QED BY <2>1, <1>1, Zenon DEF Gap, Reached, delivery
<1>7. op'[s].inserted => Kept(op[s].event)'
  BY <1>1, Zenon DEF Kept
<1>8. SessionOK(s)'
  BY <1>0, <1>5, <1>6, <1>7, Zenon DEF SessionOK, ConnOK, Registered
<1> QED BY <1>1, <1>2, <1>3, <1>4, <1>8, Assemble, Zenon DEF delivery

LEMMA EventReplaceStep == ASSUME Inv, NEW s \in Sessions, EventReplace(s) PROVE Inv'
<1>0. /\ op[s].pc = "ev_insert" /\ op[s] \in OpRec /\ op \in [Sessions -> OpRec]
      /\ OpOK(s, op[s], conn[s]) /\ UNCHANGED <<tableVars, now, conn, delivery>>
  BY SessionTypes, Zenon DEF EventReplace, At
<1>1. PICK x \in op[s].found :
          /\ home' = [home EXCEPT ![x] = IF @ = Serves[s] THEN NoTenant ELSE @]
          /\ op' = [op EXCEPT ![s].found = @ \ {x}]
  BY Zenon DEF EventReplace
<1> DEFINE o == [op[s] EXCEPT !.found = op[s].found \ {x}]
<1>2. /\ op[s].event \in Events /\ op[s].found \subseteq Replaces[op[s].event]
      /\ op[s].found \subseteq Events /\ x \in Events
  BY <1>0, <1>1, Zenon DEF OpOK, OpRec, EvPcs
<1>3. op' = [op EXCEPT ![s] = o]
  BY <1>0, <1>1, Zenon
<1>4. /\ o \in OpRec /\ o.pc = "ev_insert" /\ o.event = op[s].event /\ o.inserted = op[s].inserted
      /\ o.at = op[s].at /\ o.found \subseteq op[s].found
  BY <1>0, <1>2, Zenon DEF OpRec
<1> HIDE DEF o
<1>5. op[s].inserted = FALSE
  BY <1>0, NotInserted, Zenon DEF InsertedPcs
<1>6. OpOK(s, o, conn[s])
  BY <1>0, <1>2, <1>4, <1>5, Zenon DEF OpOK, ReqPcs, EvPcs
<1>7. home \in [Events -> Tenants \union {NoTenant}]
  BY TableTypes, Zenon
<1>8. /\ home' \in [Events -> Tenants \union {NoTenant}]
      /\ \A e \in Events : home'[e] = home[e] \/ (e = x /\ home'[e] = NoTenant)
  BY <1>1, <1>7, Zenon
<1>9. \A e \in Events : Kept(e) => Kept(e)'
  BY SMTT(20), <1>0, <1>1, <1>2, <1>8 DEF Kept
<1>10. \A t \in Tenants : Stored(t)' \subseteq Stored(t)
  BY <1>8, NoTenantIsNone, Zenon DEF Stored
<1>11. InFlight \subseteq InFlight'
  BY <1>3, <1>5, InFlightGrows, ZenonT(30)
<1> QED BY <1>0, <1>3, <1>4, <1>5, <1>6, <1>8, <1>9, <1>10, <1>11, HomeStep, ZenonT(30)

LEMMA EventInsertStep == ASSUME Inv, NEW s \in Sessions, EventInsert(s) PROVE Inv'
<1>0. /\ op[s].pc = "ev_insert" /\ op[s] \in OpRec /\ op \in [Sessions -> OpRec] /\ Serves[s] \in Tenants
      /\ OpOK(s, op[s], conn[s]) /\ UNCHANGED <<tableVars, now, conn, delivery>>
  BY SessionTypes, Zenon DEF EventInsert, At
<1>1. op[s].event \in Events
  BY <1>0, Zenon DEF OpOK, EvPcs
<1>2. PICK o \in OpRec : o = [op[s] EXCEPT !.pc = "ev_retain", !.inserted = TRUE]
  BY <1>0, Zenon DEF OpRec, EvPcs
<1>3. /\ op' = [op EXCEPT ![s] = o]
      /\ o.pc = "ev_retain" /\ o.event = op[s].event /\ o.inserted = TRUE /\ o.at = op[s].at
  BY <1>0, <1>2, Zenon DEF EventInsert, OpRec
<1>4. op'[s] = o
  BY <1>0, <1>3, Zenon
<1>5. op[s].inserted = FALSE
  BY <1>0, NotInserted, Zenon DEF InsertedPcs
<1>6. OpOK(s, o, conn[s])
  BY <1>0, <1>3, Zenon DEF OpOK, ReqPcs, EvPcs, InsertedPcs
<1>7. home \in [Events -> Tenants \union {NoTenant}]
  BY TableTypes, Zenon
<1>8. /\ home' \in [Events -> Tenants \union {NoTenant}]
      /\ \A e \in Events \ {op[s].event} : home'[e] = home[e]
      /\ home'[op[s].event] # NoTenant
  BY <1>0, <1>1, <1>7, NoTenantIsNone, Zenon DEF EventInsert
<1>9. \A e \in Events : Kept(e) => Kept(e)'
  BY <1>0, <1>8, Zenon DEF Kept
<1>10. op[s].event \in InFlight'
  BY <1>3, <1>4, Zenon DEF InFlight
<1>11. \A t \in Tenants : Stored(t)' \subseteq Stored(t) \union InFlight'
  BY <1>8, <1>10, Zenon DEF Stored
<1>12. InFlight \subseteq InFlight'
  BY <1>3, <1>5, InFlightGrows, Zenon
<1>13. o.inserted => Kept(o.event)'
  BY <1>3, <1>8, ZenonT(30) DEF Kept
<1> QED BY <1>0, <1>3, <1>6, <1>8, <1>9, <1>11, <1>12, <1>13, HomeStep

LEMMA EventRetainStep == ASSUME Inv, NEW s \in Sessions, EventRetain(s) PROVE Inv'
<1>0. /\ op[s].pc = "ev_retain" /\ op[s] \in OpRec /\ op \in [Sessions -> OpRec]
      /\ OpOK(s, op[s], conn[s]) /\ SessionOK(s) /\ UNCHANGED <<tableVars, now, conn, op, delivery>>
  BY SessionTypes, Zenon DEF EventRetain, At
<1>1. PICK x \in expired(s) : home' = [home EXCEPT ![x] = NoTenant]
  BY Zenon DEF EventRetain
<1>2. x \in Events /\ MaxAge > 0 /\ CreatedAt[x] <= op[s].at - MaxAge
  BY <1>1, Zenon DEF expired, Stored
<1>3. CreatedAt[x] <= now - MaxAge
  <2>1. op[s].at \in Int /\ now \in Int /\ CreatedAt[x] \in Int /\ MaxAge \in Int /\ op[s].at <= now
    BY SMTT(20), <1>2, Clock, Dates, HandlerTimes
  <2> QED BY <1>2, <2>1
<1>4. home \in [Events -> Tenants \union {NoTenant}]
  BY TableTypes, Zenon
<1>5. /\ home' \in [Events -> Tenants \union {NoTenant}]
      /\ \A e \in Events : home'[e] = home[e] \/ (e = x /\ home'[e] = NoTenant)
  BY <1>1, <1>4, Zenon
<1>6. \A e \in Events : Kept(e) => Kept(e)'
  BY <1>0, <1>2, <1>3, <1>5, Zenon DEF Kept
<1>7. \A t \in Tenants : Stored(t)' \subseteq Stored(t)
  BY <1>5, NoTenantIsNone, Zenon DEF Stored
<1>8. InFlight' = InFlight /\ op' = [op EXCEPT ![s] = op[s]]
  BY <1>0, Zenon DEF InFlight
<1>9. op[s].inserted => Kept(op[s].event)'
  <2> SUFFICES ASSUME op[s].inserted PROVE Kept(op[s].event)'
    OBVIOUS
  <2>1. op[s].event \in Events /\ Kept(op[s].event)
    BY <1>0, Zenon DEF OpOK, SessionOK, EvPcs
  <2>2. PICK e \in Events : e = op[s].event
    BY <2>1, Zenon
  <2>3. Kept(e)'
    BY <1>6, <2>1, <2>2, Zenon
  <2> QED BY <1>0, <2>2, <2>3, Zenon DEF Kept
<1>10. PICK o \in OpRec : o = op[s]
  BY <1>0, Zenon
<1>11. op' = [op EXCEPT ![s] = o] /\ o.pc # "req_register" /\ OpOK(s, o, conn[s])
  BY <1>0, <1>8, <1>10, Zenon
<1>12. o.inserted => Kept(o.event)'
  BY <1>0, <1>9, <1>10, Zenon DEF Kept
<1> QED BY <1>0, <1>5, <1>6, <1>7, <1>8, <1>11, <1>12, HomeStep

LEMMA DispatchGrows ==
    ASSUME Inv, NEW s \in Sessions, NEW e \in Events
    PROVE  /\ dispatch(s, e) \in [SubIds -> SUBSET Events]
           /\ \A i \in SubIds : got[s][i] \subseteq dispatch(s, e)[i]
           /\ \A i \in SubIds : conn[s].subs[i] # NoSub /\ e \in conn[s].subs[i] => e \in dispatch(s, e)[i]
<1>1. got[s] \in [SubIds -> SUBSET Events]
  BY TableTypes, Zenon
<1> QED BY <1>1, Zenon DEF dispatch, Subs

\* The subscriptions of the connection that steps, when it is sent more.
LEMMA SentMore ==
    ASSUME Inv, NEW s \in Sessions, Covered(s), UNCHANGED conn, op'[s].pc # "req_register",
           \A i \in SubIds : got[s][i] \subseteq got'[s][i]
    PROVE  Gap(s)'
<1>1. Gap(s)
  BY SessionTypes, Zenon
<1>2. ASSUME NEW i \in SubIds, conn[s].subs[i] # NoSub
      PROVE  conn[s].subs[i] \intersect Stored(Serves[s])' \subseteq got'[s][i] \union Coming(s)'
  <2>1. Reached(s, conn[s].subs[i], got[s][i]) /\ got[s][i] \subseteq got'[s][i]
    BY <1>1, <1>2, Zenon DEF Gap
  <2> QED BY <2>1, ReachedStays
<1> QED BY <1>2, Zenon DEF Gap, Reached

LEMMA BroadcastCovers ==
    ASSUME Inv, NEW m \in Message, broadcast(m), NEW r \in Sessions
    PROVE  /\ queue'[r] \in Seq(Message) /\ Len(queue'[r]) <= ChannelCapacity
           /\ lagged'[r] \in SUBSET Events
           /\ conn[r].open => /\ Queued(r) \union lagged[r] \subseteq Queued(r)' \union lagged'[r]
                              /\ m.event \in Queued(r)'
<1> DEFINE q == queue[r]
<1>0. /\ q \in Seq(Message) /\ Len(q) <= ChannelCapacity /\ lagged[r] \in SUBSET Events
      /\ ChannelCapacity \in Nat /\ ChannelCapacity > 0 /\ Len(q) \in Nat
  BY SMTT(20), TableTypes, Capacity
<1>1. Queued(r) = Carried(q) /\ Queued(r)' = Carried(queue'[r])
  BY Zenon DEF Queued, Carried
<1>2. CASE ~conn[r].open
  BY <1>0, <1>2, Zenon DEF broadcast, Receivers
<1>3. CASE conn[r].open /\ ~overflows(r)
  <2>1. queue'[r] = Append(q, m) /\ lagged'[r] = lagged[r] /\ Len(q) # ChannelCapacity
    BY <1>3, Zenon DEF broadcast, Receivers, overflows
  <2> HIDE DEF q
  <2>2. /\ queue'[r] \in Seq(Message) /\ Len(queue'[r]) = Len(q) + 1
        /\ Carried(q) \subseteq Carried(queue'[r]) /\ m.event \in Carried(queue'[r])
    BY <1>0, <2>1, AppendCarries, Zenon
  <2>3. Len(queue'[r]) <= ChannelCapacity
    BY SMTT(20), <1>0, <2>1, <2>2
  <2> QED BY <1>0, <1>1, <2>1, <2>2, <2>3, ZenonT(30)
<1>4. CASE conn[r].open /\ overflows(r)
  <2>1. /\ queue'[r] = Append(Tail(q), m) /\ lagged'[r] = lagged[r] \union {Head(q).event}
        /\ Len(q) = ChannelCapacity
    BY <1>4, Zenon DEF broadcast, Receivers, overflows
  <2>2. q # <<>>
    BY <1>0, <2>1
  <2> HIDE DEF q
  <2>3. /\ Tail(q) \in Seq(Message) /\ Len(Tail(q)) = Len(q) - 1 /\ Head(q) \in Message
        /\ Carried(q) \subseteq Carried(Tail(q)) \union {Head(q).event}
    BY <1>0, <2>2, TailCarries, Zenon
  <2>4. /\ queue'[r] \in Seq(Message) /\ Len(queue'[r]) = Len(Tail(q)) + 1
        /\ Carried(Tail(q)) \subseteq Carried(queue'[r]) /\ m.event \in Carried(queue'[r])
    BY <2>1, <2>3, AppendCarries, ZenonT(30)
  <2>5. Len(queue'[r]) <= ChannelCapacity
    BY SMTT(20), <1>0, <2>1, <2>3, <2>4
  <2>6. Head(q).event \in Events
    BY <2>3, Zenon DEF Message
  <2> QED BY SMTT(20), <1>0, <1>1, <2>1, <2>3, <2>4, <2>5, <2>6
<1> QED BY <1>2, <1>3, <1>4, Zenon

LEMMA EventFinishStep == ASSUME Inv, NEW s \in Sessions, EventFinish(s) PROVE Inv'
<1>0. /\ op[s].pc = "ev_finish" /\ op[s] \in OpRec /\ op \in [Sessions -> OpRec] /\ Serves[s] \in Tenants
      /\ OpOK(s, op[s], conn[s]) /\ ConnOK(conn[s]) /\ UNCHANGED <<tableVars, home, now, conn>>
      /\ op' = [op EXCEPT ![s] = Idle] /\ got' = [got EXCEPT ![s] = dispatch(s, op[s].event)]
  BY SessionTypes, Zenon DEF EventFinish, At, Reply
<1>1. op[s].event \in Events /\ conn[s].open
  BY <1>0, Zenon DEF OpOK, EvPcs
<1>2. Passes /\ \A t \in Tenants : Stored(t)' = Stored(t)
  BY <1>0, SameTables, Zenon
<1>3. got \in [Sessions -> [SubIds -> SUBSET Events]]
  BY TableTypes, Zenon
<1>4. /\ op'[s] = Idle /\ op' \in [Sessions -> OpRec] /\ got'[s] = dispatch(s, op[s].event)
      /\ \A r \in Sessions \ {s} : op'[r] = op[r] /\ got'[r] = got[r]
  BY <1>0, <1>3, IdleIsOp, Zenon
<1>5. /\ dispatch(s, op[s].event) \in [SubIds -> SUBSET Events]
      /\ \A i \in SubIds : got[s][i] \subseteq got'[s][i]
  BY <1>1, <1>4, DispatchGrows, Zenon
<1>6. got' \in [Sessions -> [SubIds -> SUBSET Events]]
  BY <1>0, <1>3, <1>5, Zenon
<1>7. /\ queue' \in [Sessions -> Seq(Message)] /\ lagged' \in [Sessions -> SUBSET Events]
      /\ \A r \in Sessions : Len(queue'[r]) <= ChannelCapacity
      /\ \A r \in Sessions : conn[r].open => Coming(r) \subseteq Coming(r)'
  <2>1. CASE op[s].inserted
    <3> DEFINE m == [event |-> op[s].event, tenant |-> Serves[s]]
    <3>1. m \in Message /\ m.event = op[s].event /\ broadcast(m)
      BY <1>0, <1>1, <2>1, Zenon DEF Message, EventFinish
    <3> HIDE DEF m
    <3>2. \A r \in Sessions :
            /\ queue'[r] \in Seq(Message) /\ Len(queue'[r]) <= ChannelCapacity
            /\ lagged'[r] \in SUBSET Events
            /\ conn[r].open => /\ Queued(r) \union lagged[r] \subseteq Queued(r)' \union lagged'[r]
                               /\ op[s].event \in Queued(r)'
      BY <3>1, BroadcastCovers, Zenon
    <3>3. InFlight \subseteq InFlight' \union {op[s].event}
      BY <1>4, Zenon DEF InFlight
    <3>4. queue' \in [Sessions -> Seq(Message)] /\ lagged' \in [Sessions -> SUBSET Events]
      <4>1. DOMAIN queue' = Sessions /\ DOMAIN lagged' = Sessions
        BY <3>1, Zenon DEF broadcast
      <4>2. queue' = [r \in Sessions |-> queue'[r]] /\ lagged' = [r \in Sessions |-> lagged'[r]]
        BY <3>1, Zenon DEF broadcast
      <4> QED BY <3>2, <4>2, Zenon
    <3> QED BY <3>2, <3>3, <3>4, Zenon DEF Coming
  <2>2. CASE ~op[s].inserted
    <3>1. UNCHANGED <<queue, lagged>>
      BY <2>2, Zenon DEF EventFinish
    <3>2. InFlight \subseteq InFlight'
      BY <1>0, <2>2, InFlightGrows, Zenon
    <3> QED BY <3>1, <3>2, SameChannel, Zenon DEF Inv, Tables
  <2> QED BY <2>1, <2>2, Zenon
<1>8. \A r \in Sessions : conn[r].open => Covered(r)
  BY <1>2, <1>7, Served, Zenon DEF Covered
<1>9. Gap(s)'
  <2>1. op'[s].pc # "req_register"
    BY <1>4, IdleIsOp, Zenon
  <2> QED BY <1>0, <1>1, <1>5, <1>8, <2>1, SentMore, ZenonT(30)
<1>10. SessionOK(s)'
  <2>1. OpOK(s, Idle, conn[s])
    BY IdleIsOK, ZenonT(30)
  <2>2. OpOK(s, op[s], conn[s])'
    BY SMTT(20), <1>0, <1>4, <2>1 DEF OpOK, tableVars, Room, Registered, write_auth_required, write_membership_required
  <2>3. ~op'[s].inserted
    BY <1>4, IdleIsOp, Zenon
  <2>4. ConnOK(conn[s])'
    BY <1>0, ZenonT(30) DEF ConnOK, Registered
  <2> QED BY <1>9, <2>2, <2>3, <2>4, Zenon DEF SessionOK
<1>11. Tables'
  <2>1. TableTypeOK' /\ \A t \in Tenants : active'[t] \subseteq known'[t]
    BY <1>0, ZenonT(30) DEF Inv, Tables, TableTypeOK, tableVars
  <2> QED BY SMTT(20), <1>0, <1>4, <1>6, <1>7, <2>1 DEF Inv, Tables
<1> QED BY <1>0, <1>2, <1>4, <1>8, <1>10, <1>11, Assemble, ZenonT(30)

LEMMA RecvBroadcastStep == ASSUME Inv, NEW s \in Sessions, RecvBroadcast(s) PROVE Inv'
<1> DEFINE e == Head(queue[s]).event
<1>0. /\ op[s].pc = "idle" /\ queue[s] # <<>> /\ ConnOK(conn[s]) /\ Gap(s) /\ SessionOK(s)
      /\ UNCHANGED <<tableVars, home, now, conn, op, lagged>>
      /\ queue' = [queue EXCEPT ![s] = Tail(queue[s])] /\ got' = [got EXCEPT ![s] = dispatch(s, e)]
  BY SessionTypes, Zenon DEF RecvBroadcast, Ready, At
<1>1. /\ got \in [Sessions -> [SubIds -> SUBSET Events]] /\ queue \in [Sessions -> Seq(Message)]
      /\ \A r \in Sessions : Len(queue[r]) <= ChannelCapacity
  BY TableTypes, Zenon
<1>2. /\ Tail(queue[s]) \in Seq(Message) /\ Len(Tail(queue[s])) = Len(queue[s]) - 1
      /\ Head(queue[s]) \in Message
      /\ Carried(queue[s]) \subseteq Carried(Tail(queue[s])) \union {e}
  BY <1>0, <1>1, TailCarries, Zenon
<1>3. e \in Events
  BY <1>2, Zenon DEF Message
<1> HIDE DEF e
<1>4. /\ queue' \in [Sessions -> Seq(Message)] /\ queue'[s] = Tail(queue[s]) /\ got'[s] = dispatch(s, e)
      /\ \A r \in Sessions \ {s} : queue'[r] = queue[r] /\ got'[r] = got[r]
  BY <1>0, <1>1, <1>2, Zenon
<1>5. /\ dispatch(s, e) \in [SubIds -> SUBSET Events]
      /\ \A i \in SubIds : got[s][i] \subseteq got'[s][i]
      /\ \A i \in SubIds : conn[s].subs[i] # NoSub /\ e \in conn[s].subs[i] => e \in got'[s][i]
  BY <1>3, <1>4, DispatchGrows, Zenon
<1>6. Passes /\ \A t \in Tenants : Stored(t)' = Stored(t)
  BY <1>0, SameTables, Zenon
<1>7. InFlight' = InFlight
  BY <1>0, ZenonT(30) DEF InFlight
<1>8. \A r \in Sessions \ {s} : Covered(r)
  BY SMTT(20), <1>0, <1>4, <1>6, <1>7, Served DEF Covered, Coming, Queued
<1>9. Tables'
  <2>1. got' \in [Sessions -> [SubIds -> SUBSET Events]]
    BY <1>0, <1>1, <1>5, Zenon
  <2>2. \A r \in Sessions : Len(queue'[r]) <= ChannelCapacity
    <3>1. ChannelCapacity \in Int /\ Len(queue[s]) \in Int /\ Len(queue[s]) <= ChannelCapacity
      BY <1>1, Capacity
    <3>2. Len(queue'[s]) = Len(queue[s]) - 1
      BY <1>2, <1>4, Zenon
    <3>3. Len(queue'[s]) <= ChannelCapacity
      BY <3>1, <3>2
    <3>4. \A r \in Sessions \ {s} : Len(queue'[r]) <= ChannelCapacity
      BY <1>1, <1>4, Zenon
    <3> QED BY <3>3, <3>4, Zenon
  <2>3. TableTypeOK' /\ \A t \in Tenants : active'[t] \subseteq known'[t]
    BY <1>0, Zenon DEF Inv, Tables, TableTypeOK, tableVars
  <2> QED BY <1>0, <1>4, <2>1, <2>2, <2>3, ZenonT(30) DEF Inv, Tables
<1>10. Coming(s) \subseteq Coming(s)' \union {e}
  <2>1. Queued(s) = Carried(queue[s]) /\ Queued(s)' = Carried(queue'[s])
    BY Zenon DEF Queued, Carried
  <2> QED BY SMTT(20), <1>0, <1>2, <1>4, <1>7, <2>1 DEF Coming
<1>11. Gap(s)'
  <2>1. ASSUME NEW i \in SubIds, conn[s].subs[i] # NoSub
        PROVE  conn[s].subs[i] \intersect Stored(Serves[s])' \subseteq got'[s][i] \union Coming(s)'
    <3>1. conn[s].subs[i] \intersect Stored(Serves[s]) \subseteq got[s][i] \union Coming(s)
      BY <1>0, <2>1, Zenon DEF Gap, Reached
    <3>2. Stored(Serves[s])' = Stored(Serves[s])
      BY <1>6, Served, Zenon
    <3> QED BY <1>5, <1>10, <2>1, <3>1, <3>2, Zenon
  <2> QED BY <1>0, <2>1, Zenon DEF Gap, Reached
<1>12. SessionOK(s)'
  <2>1. OpOK(s, op[s], conn[s])'
    BY <1>0, <1>6, OpStays, Zenon
  <2>2. ConnOK(conn[s])'
    BY <1>0, Zenon DEF ConnOK, Registered
  <2>3. (op[s].inserted => Kept(op[s].event))'
    BY <1>0, Zenon DEF SessionOK, Kept
  <2> QED BY <1>11, <2>1, <2>2, <2>3, Zenon DEF SessionOK
<1> QED BY SMTT(20), <1>0, <1>4, <1>6, <1>8, <1>9, <1>12, Assemble

-----------------------------------------------------------------------------
(***************************************************************************)
(* The members, the clock, and the invariant.                              *)
(***************************************************************************)
\* A step that no connection takes.
LEMMA NobodySteps ==
    ASSUME Inv, Passes, Tables', UNCHANGED <<home, conn, op, delivery>> PROVE Inv'
<1>1. \A r \in Sessions : Covered(r)
  <2>1. InFlight' = InFlight /\ \A t \in Tenants : Stored(t)' = Stored(t)
    BY Zenon DEF InFlight, Stored
  <2> QED BY <2>1, SameChannel, Served, Zenon DEF Covered, delivery
<1>2. ASSUME NEW r \in Sessions PROVE SessionOK(r)'
  BY <1>1, OthersStay, Zenon DEF delivery
<1> QED BY <1>2, Zenon DEF Inv

LEMMA MembershipChangeStep == ASSUME Inv, MembershipChange PROVE Inv'
<1>1. TableNext /\ UNCHANGED <<home, now, conn, op, delivery>>
  BY Zenon DEF MembershipChange
<1>2. PICK t \in Tenants, p \in Pubkeys : Admit(t, p) \/ Revoke(t, p)
  BY <1>1, Zenon DEF TableNext
<1>3. TableTypeOK /\ \A u \in Tenants : active[u] \subseteq known[u]
  BY Zenon DEF Inv, Tables
<1>4. /\ TableTypeOK' /\ \A u \in Tenants : active'[u] \subseteq known'[u]
      /\ \A u \in Tenants : known[u] \subseteq known'[u]
  <2>1. CASE Admit(t, p)
    BY <1>3, <2>1, Zenon DEF Admit, TableTypeOK
  <2>2. CASE Revoke(t, p)
    BY <1>3, <2>2, Zenon DEF Revoke, TableTypeOK
  <2> QED BY <1>2, <2>1, <2>2, Zenon
<1>5. Passes
  BY SMTT(20), <1>1, <1>4, Clock DEF Passes, Kept
<1>6. Tables'
  BY <1>1, <1>4, Zenon DEF Inv, Tables, delivery
<1> QED BY <1>1, <1>5, <1>6, NobodySteps, Zenon

LEMMA TickStep == ASSUME Inv, Tick PROVE Inv'
<1>1. now < MaxTime /\ now' = now + 1 /\ UNCHANGED <<tableVars, home, conn, op, delivery>>
  BY Zenon DEF Tick
<1>2. now \in 0 .. MaxTime /\ MaxTime \in Nat /\ MaxAge \in Nat
  BY Clock, Zenon
<1>3. now' \in 0 .. MaxTime /\ now <= now' /\ now' \in Int /\ now \in Int
  BY <1>1, <1>2
<1>4. ASSUME NEW e \in Events, Kept(e) PROVE Kept(e)'
  <2>1. CreatedAt[e] \in Int
    BY Dates, Zenon
  <2>2. CreatedAt[e] <= now - MaxAge => CreatedAt[e] <= now' - MaxAge
    BY <1>2, <1>3, <2>1
  <2> QED BY <1>1, <1>4, <2>2, Zenon DEF Kept
<1>5. Passes
  BY <1>1, <1>3, <1>4, ZenonT(30) DEF Passes, tableVars
<1>6. Tables'
  BY <1>1, <1>3, Zenon DEF Inv, Tables, TableTypeOK, tableVars, delivery
<1> QED BY <1>1, <1>5, <1>6, NobodySteps, Zenon

LEMMA StutterStep == ASSUME Inv, UNCHANGED vars PROVE Inv'
<1>1. UNCHANGED <<tableVars, home, now, conn, op, delivery>>
  BY Zenon DEF vars, tableVars, delivery
<1>2. Passes
  BY <1>1, SameTables, Zenon
<1>3. Tables'
  BY <1>1, Zenon DEF Inv, Tables, TableTypeOK, tableVars, delivery
<1> QED BY <1>1, <1>2, <1>3, NobodySteps, Zenon

LEMMA InitInv == ASSUME Init PROVE Inv
<1>1. Tables
  <2>1. TableTypeOK /\ \A t \in Tenants : active[t] \subseteq known[t]
    BY Zenon DEF Init, TableInit, TableTypeOK
  <2>2. home \in [Events -> Tenants \union {NoTenant}] /\ now \in 0 .. MaxTime
    BY SessionAssumption DEF Init
  <2>3. conn \in [Sessions -> ConnRec] /\ op \in [Sessions -> OpRec]
    BY ClosedIsConn, IdleIsOp, Zenon DEF Init
  <2>4. queue \in [Sessions -> Seq(Message)] /\ \A s \in Sessions : Len(queue[s]) <= ChannelCapacity
    BY SessionAssumption DEF Init
  <2>5. got \in [Sessions -> [SubIds -> SUBSET Events]] /\ lagged \in [Sessions -> SUBSET Events]
    BY Zenon DEF Init, NothingSent
  <2> QED BY <2>1, <2>2, <2>3, <2>4, <2>5, Zenon DEF Tables
<1>2. ASSUME NEW s \in Sessions PROVE SessionOK(s)
  <2>1. conn[s] = Closed /\ op[s] = Idle
    BY Zenon DEF Init
  <2>2. 0 <= now
    BY DEF Init
  <2>3. OpOK(s, Idle, Closed)
    BY <2>2, IdleIsOp, Zenon DEF OpOK, ReqPcs, EvPcs, InsertedPcs
  <2>4. Gap(s)
    BY <2>1, ClosedIsConn, IdleIsOp, Zenon DEF Gap
  <2> QED BY <2>1, <2>3, <2>4, ClosedIsConn, IdleIsOp, Zenon DEF SessionOK
<1> QED BY <1>1, <1>2, Zenon DEF Inv

LEMMA StepInv == ASSUME Inv, [Next]_vars PROVE Inv'
<1>1. ASSUME NEW s \in Sessions, ClientStep(s) PROVE Inv'
  BY SMTT(20), <1>1, ConnectStep, DisconnectStep, HandleAuthStep, HandleCloseStep, ReqBeginStep, EventBeginStep
     DEF ClientStep
<1>2. ASSUME NEW s \in Sessions, HandlerStep(s) PROVE Inv'
  BY SMTT(20), <1>2, ReqMemberStep, ReqQueryStep, ReqRegisterStep, EventMemberStep, EventAdmitStep,
     EventRelatedStep, EventGetStep, EventRivalsStep, EventReplaceStep, EventInsertStep,
     EventRetainStep, EventRetainedStep, EventFinishStep, StorageErrorStep
     DEF HandlerStep
<1> QED BY SMTT(20), <1>1, <1>2, RecvBroadcastStep, MembershipChangeStep, TickStep, StutterStep DEF Next

LEMMA Invariance == Spec => []Inv
<1>1. Init => Inv
  BY InitInv, Zenon
<1>2. Inv /\ [Next]_vars => Inv'
  BY StepInv, Zenon
<1> QED BY <1>1, <1>2, PTL DEF Spec

-----------------------------------------------------------------------------
\* The tables, registries, handlers and channels keep their shapes, no registry
\* exceeds policy.max_subscriptions and no handler outlives its connection.
THEOREM SessionsKeepTheirShape == Spec => []TypeOK
<1>1. Inv => TypeOK
  <2> SUFFICES ASSUME Inv PROVE TypeOK
    OBVIOUS
  <2>1. ASSUME NEW s \in Sessions
        PROVE  /\ Cardinality(Subs(s)) <= MaxSubscriptions
               /\ op[s].event \in Events \union {NoEvent}
               /\ op[s].found \subseteq Events
               /\ op[s].pc # "idle" => conn[s].open
               /\ Len(queue[s]) <= ChannelCapacity
               /\ \A n \in DOMAIN queue[s] : queue[s][n] \in [event : Events, tenant : Tenants]
    <3>1. /\ Subs(s) = Registered(conn[s]) /\ ConnOK(conn[s]) /\ OpOK(s, op[s], conn[s])
          /\ op[s] \in OpRec /\ queue[s] \in Seq(Message) /\ Len(queue[s]) <= ChannelCapacity
      BY SessionTypes, Zenon DEF Subs, Registered, Inv, Tables
    <3>2. \A n \in DOMAIN queue[s] : queue[s][n] \in Message
      BY SMTT(20), <3>1
    <3> QED BY <3>1, <3>2, Zenon DEF ConnOK, OpOK, OpRec, Message
  <2> QED BY <2>1, Zenon DEF TypeOK, Inv, Tables, ConnRec
<1> QED BY <1>1, Invariance, PTL

\* A REQ, the live events that follow it and the inserts that run beside it leave
\* no gap: a stored event that a registered subscription matches was sent, waits in
\* the connection's channel, was overwritten there, or is about to be broadcast.
THEOREM SubscriptionsHaveNoGap == Spec => []NoGap
<1>1. Inv => NoGap
  <2> SUFFICES ASSUME Inv, NEW s \in Sessions, NEW i \in Subs(s)
               PROVE  conn[s].subs[i] \intersect Stored(Serves[s])
                          \subseteq got[s][i] \union Queued(s) \union lagged[s] \union InFlight
    BY Zenon DEF NoGap
  <2>1. Gap(s) /\ i \in SubIds /\ conn[s].subs[i] # NoSub
    BY SessionTypes, Zenon DEF Subs
  <2> QED BY <2>1, Zenon DEF Gap, Reached, Coming
<1> QED BY <1>1, Invariance, PTL

\* handle_event acknowledges and broadcasts an event it inserted only while the
\* event is in the table, past its age, replaceable, or another tenant's row.
THEOREM AcknowledgedEventsAreStored == Spec => AcknowledgedIsStored
<1>1. Inv /\ [Next]_vars =>
        [\A s \in Sessions : LET e == op[s].event IN
          (At(s, "ev_finish") /\ op[s].inserted /\ op'[s] = Idle) =>
              \/ home[e] # NoTenant
              \/ MaxAge > 0 /\ CreatedAt[e] <= now - MaxAge
              \/ \E x \in Events : e \in Replaces[x]]_vars
  BY SessionTypes, Zenon DEF SessionOK, Kept
<1> QED BY <1>1, Invariance, PTL DEF Spec, AcknowledgedIsStored

\* handle_req answers and registers for a private tenant only with a key the tenant
\* had admitted: the key cannot change and the row cannot vanish while it waits.
THEOREM PrivateReadsAreByMembers == Spec => StoredReadsByMembers
<1>1. Inv /\ [Next]_vars =>
        [\A s \in Sessions, i \in SubIds :
          (/\ op[s].pc = "req_register" /\ op'[s].pc = "idle"
           /\ conn'[s].subs[i] # conn[s].subs[i]
           /\ Serves[s] \notin PublicRead) => conn[s].auth \in known[Serves[s]]]_vars
  BY SessionTypes, Zenon DEF OpOK
<1> QED BY <1>1, Invariance, PTL DEF Spec, StoredReadsByMembers

\* Three calls of an EVENT handler change the table.
LEMMA RowsMove ==
    ASSUME [Next]_vars, home' # home
    PROVE  \E s \in Sessions : EventReplace(s) \/ EventInsert(s) \/ EventRetain(s)
<1>1. ASSUME NEW s \in Sessions, ClientStep(s) PROVE FALSE
  BY <1>1, Zenon DEF ClientStep, Connect, Disconnect, HandleAuth, HandleClose, ReqBegin, EventBegin
<1>2. ASSUME NEW s \in Sessions, RecvBroadcast(s) PROVE FALSE
  BY <1>2, Zenon DEF RecvBroadcast
<1>3. ~MembershipChange /\ ~Tick /\ ~UNCHANGED vars
  BY Zenon DEF MembershipChange, Tick, vars
<1>4. PICK s \in Sessions : HandlerStep(s)
  BY <1>1, <1>2, <1>3, Zenon DEF Next
<1>5. EventReplace(s) \/ EventInsert(s) \/ EventRetain(s)
  BY <1>4, Zenon DEF HandlerStep, ReqMember, ReqQuery, ReqRegister, EventMember, EventAdmit,
     EventRelated, EventGet, EventRivals, EventRetained, EventFinish, StorageError
<1> QED BY <1>5, Zenon

\* Only the insert of an EVENT handler puts a row into the table.
LEMMA RowsComeFromInserts ==
    ASSUME Inv, [Next]_vars, NEW e \in Events, home'[e] # home[e], home'[e] # NoTenant
    PROVE  \E s \in Sessions : EventInsert(s) /\ op[s].event = e /\ home'[e] = Serves[s]
<1>0. home \in [Events -> Tenants \union {NoTenant}]
  BY TableTypes, Zenon
<1>2. PICK s \in Sessions : EventReplace(s) \/ EventInsert(s) \/ EventRetain(s)
  BY RowsMove, Zenon
<1>3. ~EventReplace(s) /\ ~EventRetain(s)
  BY <1>0, Zenon DEF EventReplace, EventRetain
<1>4. EventInsert(s)
  BY <1>2, <1>3, Zenon
<1>5. home' = [home EXCEPT ![op[s].event] = IF @ = NoTenant THEN Serves[s] ELSE @]
  BY <1>4, Zenon DEF EventInsert
<1>6. op[s].event = e /\ home'[e] = Serves[s]
  BY <1>0, <1>5, Zenon
<1> QED BY <1>4, <1>6, Zenon

\* A row enters a tenant's table through a session whose key signed the event if
\* the tenant asks for it, and for a private tenant that key had been admitted.
THEOREM PrivateWritesAreByMembers == Spec => WritesByMembers
<1>1. Inv /\ [Next]_vars =>
        [\A e \in Events : (home'[e] # home[e] /\ home'[e] # NoTenant) =>
          LET t == home'[e] IN
          /\ t \notin PublicWrite => Author[e] \in known[t]
          /\ t \in AuthRequired => \E s \in Sessions :
                 Serves[s] = t /\ op[s].event = e /\ conn[s].auth = Author[e]]_vars
  <2> SUFFICES ASSUME Inv, [Next]_vars, NEW e \in Events, home'[e] # home[e], home'[e] # NoTenant
               PROVE  /\ home'[e] \notin PublicWrite => Author[e] \in known[home'[e]]
                      /\ home'[e] \in AuthRequired => \E s \in Sessions :
                             Serves[s] = home'[e] /\ op[s].event = e /\ conn[s].auth = Author[e]
    OBVIOUS
  <2>1. PICK s \in Sessions : EventInsert(s) /\ op[s].event = e /\ home'[e] = Serves[s]
    BY RowsComeFromInserts, Zenon
  <2>2. op[s].pc = "ev_insert" /\ OpOK(s, op[s], conn[s])
    BY <2>1, SessionTypes, Zenon DEF EventInsert, At
  <2>3. /\ write_auth_required(Serves[s]) => conn[s].auth = Author[e]
        /\ Serves[s] \notin PublicWrite => conn[s].auth \in known[Serves[s]]
    BY <2>1, <2>2, Zenon DEF OpOK, EvPcs
  <2> QED BY <2>1, <2>3, ZenonT(30) DEF write_auth_required, write_membership_required
<1> QED BY <1>1, Invariance, PTL DEF Spec, WritesByMembers

\* Whatever tenants share the table and its key, retention, replacement and inserts of a
\* connection (apply_retention, insert_event) touch the rows of its own tenant only.
THEOREM TenantsKeepTheirRows == Spec => RowsStayInTheirTenant
<1>1. Inv /\ [Next]_vars =>
        [\A e \in Events : home'[e] # home[e] =>
          \E s \in Sessions :
              \/ /\ op[s].pc \in {"ev_insert", "ev_retain"}
                 /\ home[e] = Serves[s] /\ home'[e] = NoTenant
              \/ /\ op[s].pc = "ev_insert" /\ op[s].event = e
                 /\ home[e] = NoTenant /\ home'[e] = Serves[s]]_vars
  <2> SUFFICES ASSUME Inv, [Next]_vars, NEW e \in Events, home'[e] # home[e]
               PROVE  \E s \in Sessions :
                        \/ /\ op[s].pc \in {"ev_insert", "ev_retain"}
                           /\ home[e] = Serves[s] /\ home'[e] = NoTenant
                        \/ /\ op[s].pc = "ev_insert" /\ op[s].event = e
                           /\ home[e] = NoTenant /\ home'[e] = Serves[s]
    BY Zenon
  <2>1. home \in [Events -> Tenants \union {NoTenant}] BY TableTypes, Zenon
  <2>2. PICK s \in Sessions : EventReplace(s) \/ EventInsert(s) \/ EventRetain(s) BY RowsMove, Zenon
  <2>3. CASE EventReplace(s)
    <3>1. home[e] = Serves[s] /\ home'[e] = NoTenant BY <2>1, <2>3, Zenon DEF EventReplace
    <3> QED BY <2>3, <3>1, Zenon DEF EventReplace, At
  <2>4. CASE EventInsert(s)
    <3>1. op[s].event = e /\ home[e] = NoTenant /\ home'[e] = Serves[s]
      BY <2>1, <2>4, Zenon DEF EventInsert
    <3> QED BY <2>4, <3>1, Zenon DEF EventInsert, At
  <2>5. CASE EventRetain(s)
    <3>1. PICK x \in expired(s) : home' = [home EXCEPT ![x] = NoTenant] BY <2>5, Zenon DEF EventRetain
    <3>2. x = e /\ home'[e] = NoTenant BY <2>1, <3>1, Zenon
    <3>3. home[e] = Serves[s] BY <3>1, <3>2, Zenon DEF expired, Stored
    <3> QED BY <2>5, <3>2, <3>3, Zenon DEF EventRetain, At
  <2> QED BY <2>2, <2>3, <2>4, <2>5, Zenon
<1> QED BY <1>1, Invariance, PTL DEF Spec, RowsStayInTheirTenant
===============================================================================
