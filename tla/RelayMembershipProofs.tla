------------------------ MODULE RelayMembershipProofs ------------------------
(***************************************************************************)
(* Proofs about RelayMembership, for any number of tenants, clients,       *)
(* sessions, requests and invites.  None of the properties is inductive by *)
(* itself: what a handler read before an await has to remain true of the   *)
(* tables until it uses it.  HandlerOK says what each handler in flight    *)
(* may rely on; it holds because rows, issued invites and claims are never *)
(* taken back, only overwritten or added to.                               *)
(***************************************************************************)
EXTENDS RelayMembership, TLAPS

\* What makes p's row of tenant t legitimate: p is a seeded owner, or a plain
\* member that claimed an invite of t, one of I by the claims C, in time.
RowOK(I, C, t, p, row) ==
    row # NoRow =>
        \/ p \in Seeds(t)
        \/ /\ row.role = "member"
           /\ \E i \in I : /\ i.tenant = t
                           /\ <<i.code, p>> \in C
                           /\ row.created_at <= i.expires_at

\* A handler o serving tenant t holds an invite of t that it claims in time.
Vouched(I, o, t) ==
    \E i \in I : i.tenant = t /\ i.code = o.code /\ o.at <= i.expires_at

\* What a handler o serving tenant t may rely on at its next call, when I are
\* the issued invites, C the claims and M the memberships.
HandlerOK(I, C, M, o, t) ==
    /\ o.pc # "idle" => t \in Tenants
    /\ o.pc \in SeedPcs => o.pubkey \in Seeds(t)
    /\ o.pc \in JoinPcs \union LeavePcs \union InvitePcs => o.pubkey \in Clients
    /\ o.pc \in JoinPcs => o.code \in Codes /\ o.role = "member"
    /\ o.pc \in JoinPcs \ {"join_invite"} => Vouched(I, o, t)
    /\ o.pc = "join_delete" => <<o.code, o.pubkey>> \in C
    /\ o.pc \in {"join_upsert", "leave_upsert"} => RowOK(I, C, t, o.pubkey, o.existing)
    /\ o.pc = "leave_upsert" => o.existing \in Row
    /\ o.pc \in {"leave_upsert", "invite_insert"} => M[t][o.pubkey] # NoRow

HandlersOK ==
    \A s \in Sessions : HandlerOK(issued, claims, memberships, op[s], session[s].tenant)

\* What the tables and the history satisfy.
TablesOK ==
    /\ \A t \in Tenants : tenants[t] # NoKey => tenants[t] \in Seeds(t)
    /\ \A t \in Tenants, p \in Pubkeys : RowOK(issued, claims, t, p, memberships[t][p])
    /\ \A i \in issued : i.role = "member" /\ memberships[i.tenant][i.inviter] # NoRow
    /\ \A i, j \in issued : i.code = j.code => i = j
    /\ \A c \in claims : \E i \in issued : i.code = c[1]

\* The inductive invariant.
MembershipInv ==
    /\ TypeOK
    /\ HandlersOK
    /\ TablesOK
    /\ SpentInvitesAreGone
    /\ RootedTrust
-----------------------------------------------------------------------------
\* The tables a handler relies on only grow.
Grows ==
    /\ issued \subseteq issued'
    /\ claims \subseteq claims'
    /\ \A t \in Tenants, p \in Pubkeys :
          memberships[t][p] # NoRow => memberships'[t][p] # NoRow

\* What a handler relies on survives every step that lets the tables grow.
LEMMA HandlerKept ==
    ASSUME NEW o, NEW t, HandlerOK(issued, claims, memberships, o, t), Grows
    PROVE  HandlerOK(issued', claims', memberships', o, t)
<1>1. o.pubkey \in Clients => o.pubkey \in Pubkeys
  BY Zenon DEF Pubkeys
<1>2. Vouched(issued, o, t) => Vouched(issued', o, t)
  BY Zenon DEF Vouched, Grows
<1>3. RowOK(issued, claims, t, o.pubkey, o.existing)
        => RowOK(issued', claims', t, o.pubkey, o.existing)
  BY Zenon DEF RowOK, Grows
<1> QED
  BY <1>1, <1>2, <1>3, Zenon DEF HandlerOK, Grows, SeedPcs, JoinPcs, LeavePcs, InvitePcs

\* When only session s changes its handler and the tables grow, it is enough
\* that the new handler of s may rely on what it needs.
LEMMA HandlersKept ==
    ASSUME MembershipInv, NEW s \in Sessions, Grows,
           \A x \in Sessions \ {s} : op'[x] = op[x] /\ session'[x] = session[x],
           HandlerOK(issued', claims', memberships', op'[s], session'[s].tenant)
    PROVE  HandlersOK'
<1>1. ASSUME NEW x \in Sessions \ {s}
      PROVE  HandlerOK(issued', claims', memberships', op'[x], session'[x].tenant)
  BY <1>1, HandlerKept, Zenon DEF MembershipInv, HandlersOK
<1> QED
  BY <1>1, Zenon DEF HandlersOK

\* A step that leaves the tables alone keeps what they satisfy.
LEMMA TablesKept ==
    ASSUME MembershipInv, UNCHANGED <<tables, history>>
    PROVE  TablesOK' /\ SpentInvitesAreGone' /\ RootedTrust' /\ Grows
<1>1. /\ tenants' = tenants /\ memberships' = memberships /\ invites' = invites
      /\ issued' = issued /\ claims' = claims /\ welcomed' = welcomed
  BY Zenon DEF tables, history
<1>2. TablesOK'
  BY <1>1 DEF MembershipInv, TablesOK, RowOK, Seeds
<1>3. SpentInvitesAreGone'
  BY <1>1, Zenon DEF MembershipInv, SpentInvitesAreGone
<1>4. RootedTrust'
  BY <1>1, Zenon DEF MembershipInv, RootedTrust, ClosedUnderInvites, Members, Seeds
<1> QED
  BY <1>1, <1>2, <1>3, <1>4, Zenon DEF Grows

\* A step of session s that leaves the tables alone: only s has to be looked at.
LEMMA LocalStep ==
    ASSUME MembershipInv, NEW s \in Sessions, UNCHANGED <<tables, now, request, history>>,
           op' \in [Sessions -> Op],
           session' \in [Sessions -> [tenant : Tenants \union {NoTenant},
                                      auth : Clients \union {NoKey}]],
           \A x \in Sessions \ {s} : op'[x] = op[x] /\ session'[x] = session[x],
           HandlerOK(issued, claims, memberships, op'[s], session'[s].tenant)
    PROVE  MembershipInv'
<1>1. TablesOK' /\ SpentInvitesAreGone' /\ RootedTrust' /\ Grows
  BY TablesKept, Zenon
<1>2. HandlersOK'
  BY <1>1, HandlersKept, Zenon DEF tables, history
<1>3. TypeOK'
  BY Zenon DEF MembershipInv, TypeOK, tables, history
<1> QED
  BY <1>1, <1>2, <1>3, Zenon DEF MembershipInv

\* The values the handlers write have their types.
LEMMA Literals ==
    /\ {"idle", "seed_lookup", "seed_upsert", "join_invite", "join_lookup", "join_upsert",
        "join_delete", "leave_lookup", "leave_upsert", "invite_lookup", "invite_insert"} = Pcs
    /\ "owner" \in Roles /\ "member" \in Roles
    /\ 0 \in Time
BY ConstantsAssumption DEF Pcs, SeedPcs, JoinPcs, LeavePcs, InvitePcs, Roles, Time

\* A membership that is written is a row, of its role, status and date.
LEMMA RowWritten ==
    ASSUME NEW role \in Roles, NEW status \in {"active", "left"}, NEW c \in Time, NEW u \in Time
    PROVE  \E row \in Row : /\ row = [role |-> role, status |-> status,
                                     created_at |-> c, updated_at |-> u]
                            /\ row.role = role /\ row.status = status /\ row.created_at = c
<1> DEFINE new == [role |-> role, status |-> status, created_at |-> c, updated_at |-> u]
<1>1. new \in Row /\ new.role = role /\ new.status = status /\ new.created_at = c
  BY Zenon DEF Row
<1> HIDE DEF new
<1>2. \E row \in Row : row = new /\ row.role = role /\ row.status = status /\ row.created_at = c
  BY <1>1, Zenon
<1> QED
  BY <1>2, Zenon DEF new

\* A handler that has been answered relies on nothing.
LEMMA IdleOK ==
    ASSUME NEW I, NEW C, NEW M, NEW t
    PROVE  HandlerOK(I, C, M, Idle, t) /\ Idle \in Op
BY Literals, Zenon DEF HandlerOK, Idle, Op, SeedPcs, JoinPcs, LeavePcs, InvitePcs

\* A step that changes no handler: the control plane and the clock.
LEMMA QuietStep ==
    ASSUME MembershipInv, UNCHANGED <<session, op>>, Grows
    PROVE  HandlersOK'
BY HandlerKept, Zenon DEF MembershipInv, HandlersOK

\* Writing a legitimate row keeps what the tables satisfy.
LEMMA UpsertKeeps ==
    ASSUME MembershipInv, NEW t \in Tenants, NEW p \in Pubkeys, NEW row \in Row,
           upsert_membership(t, p, row), RowOK(issued', claims', t, p, row),
           UNCHANGED <<tenants, invites, issued, welcomed>>,
           claims \subseteq claims', claims' \subseteq Codes \X Clients,
           \A c \in claims' : \E i \in issued : i.code = c[1]
    PROVE  TablesOK' /\ SpentInvitesAreGone' /\ RootedTrust' /\ Grows
<1>1. /\ memberships' = [memberships EXCEPT ![t][p] = row]
      /\ memberships \in [Tenants -> [Pubkeys -> Row \union {NoRow}]]
  BY Zenon DEF upsert_membership, MembershipInv, TypeOK
<1>2. /\ memberships'[t][p] = row
      /\ \A u \in Tenants, q \in Pubkeys :
            <<u, q>> # <<t, p>> => memberships'[u][q] = memberships[u][q]
  BY <1>1, Zenon
<1>3. row # NoRow
  BY NoRowAssumption, Zenon
<1>4. Grows
  BY <1>2, <1>3, Zenon DEF Grows
<1>5. ASSUME NEW u \in Tenants, NEW q \in Pubkeys
      PROVE  RowOK(issued', claims', u, q, memberships'[u][q])
  <2>1. CASE <<u, q>> = <<t, p>>
    BY <2>1, <1>2, Zenon
  <2>2. CASE <<u, q>> # <<t, p>>
    <3>1. RowOK(issued, claims, u, q, memberships[u][q])
      BY Zenon DEF MembershipInv, TablesOK
    <3> QED
      BY <2>2, <3>1, <1>2, Zenon DEF RowOK
  <2> QED
    BY <2>1, <2>2, Zenon
<1>6. \A i \in issued' : i.role = "member" /\ memberships'[i.tenant][i.inviter] # NoRow
  BY <1>4, Zenon DEF Grows, MembershipInv, TablesOK, TypeOK, Invite
<1>7. TablesOK'
  BY <1>5, <1>6, Zenon DEF MembershipInv, TablesOK, Seeds
<1>8. SpentInvitesAreGone'
  BY Zenon DEF MembershipInv, SpentInvitesAreGone
<1>9. RootedTrust'
  <2> SUFFICES ASSUME NEW u \in Tenants, NEW S \in SUBSET Pubkeys, ClosedUnderInvites(S, u)'
               PROVE  Members(u)' \subseteq S
    BY Zenon DEF RootedTrust
  <2>1. ClosedUnderInvites(S, u)
    BY Zenon DEF ClosedUnderInvites, Seeds
  <2>2. Members(u) \subseteq S
    BY <2>1, Zenon DEF MembershipInv, RootedTrust
  <2>3. Members(u)' \subseteq Members(u) \union (IF u = t THEN {p} ELSE {})
    BY <1>2, Zenon DEF Members
  <2>4. u = t => p \in S
    <3>1. CASE p \in Seeds(t)
      BY <3>1, <2>1, Zenon DEF ClosedUnderInvites
    <3>2. CASE p \notin Seeds(t)
      <4>1. PICK i \in issued : i.tenant = t /\ <<i.code, p>> \in claims'
        BY <3>2, <1>3, Zenon DEF RowOK
      <4>2. i.inviter \in Members(t) /\ p \in Clients
        BY <4>1, Zenon DEF Members, MembershipInv, TablesOK, TypeOK, Invite
      <4> QED
        BY <4>1, <4>2, <2>2, Zenon DEF ClosedUnderInvites
    <3> QED
      BY <3>1, <3>2, Zenon
  <2> QED
    BY <2>2, <2>3, <2>4, Zenon
<1> QED
  BY <1>4, <1>7, <1>8, <1>9, Zenon
-----------------------------------------------------------------------------
\* The control plane keeps the invariant: the keys it writes are seeds.
LEMMA ControlKeeps ==
    ASSUME MembershipInv, NEW r \in Requests, ControlStep(r)
    PROVE  MembershipInv'
<1> USE ConstantsAssumption
<1>1. CASE CreateBegin(r) \/ CreateLookup(r) \/ CreateFail(r)
  <2>1. UNCHANGED <<tables, history, session, op>>
    BY <1>1, Zenon DEF CreateBegin, CreateLookup, CreateFail
  <2>2. TypeOK'
    <3>1. request' \in [Requests -> [pc : RequestPcs, at : Time]]
      <4>1. CASE CreateBegin(r)
        BY <4>1, Zenon DEF CreateBegin, RequestPcs, MembershipInv, TypeOK
      <4>2. CASE CreateLookup(r)
        BY <4>2 DEF CreateLookup, RequestPcs, MembershipInv, TypeOK
      <4>3. CASE CreateFail(r)
        BY <4>3, Zenon DEF CreateFail, RequestPcs, MembershipInv, TypeOK
      <4> QED
        BY <1>1, <4>1, <4>2, <4>3, Zenon
    <3> QED
      BY <1>1, <3>1, Zenon DEF CreateBegin, CreateLookup, CreateFail, MembershipInv, TypeOK, tables, history
  <2> QED
    BY <2>1, <2>2, TablesKept, QuietStep, Zenon DEF MembershipInv
<1>2. CASE CreateTenant(r)
  <2>1. TypeOK'
    BY <1>2, Zenon DEF CreateTenant, MembershipInv, TypeOK, RequestPcs, RelayKeys, history
  <2>2. TablesOK'
    <3>1. /\ tenants \in [Tenants -> RelayKeys \union {NoKey}] /\ Host[r] \in Tenants
          /\ tenants' = [tenants EXCEPT ![Host[r]] = RelayKey[r]]
          /\ UNCHANGED <<memberships, issued, claims>>
      BY <1>2, Zenon DEF CreateTenant, MembershipInv, TypeOK, history
    <3>2. RelayKey[r] \in Seeds(Host[r])
      BY Zenon DEF Seeds, Pubkeys, RelayKeys
    <3>3. \A t \in Tenants : tenants'[t] # NoKey => tenants'[t] \in Seeds(t)
      BY <3>1, <3>2, Zenon DEF MembershipInv, TablesOK
    <3> QED
      BY <3>1, <3>3, Zenon DEF MembershipInv, TablesOK
  <2>3. SpentInvitesAreGone' /\ RootedTrust' /\ Grows
    BY <1>2, Zenon DEF CreateTenant, MembershipInv, SpentInvitesAreGone, RootedTrust,
                ClosedUnderInvites, Members, Seeds, Grows, history
  <2> QED
    BY <1>2, <2>1, <2>2, <2>3, QuietStep, Zenon DEF MembershipInv, CreateTenant
<1>3. CASE CreateOwner(r)
  <2>1. PICK row \in Row :
          upsert_membership(Host[r], Caller[r], row) /\ row.role = "owner"
    BY <1>3, Literals, RowWritten DEF CreateOwner, MembershipInv, TypeOK
  <2>2. Caller[r] \in Pubkeys /\ Caller[r] \in Seeds(Host[r])
    BY Zenon DEF Pubkeys, Seeds
  <2>3. TypeOK'
    <3>1. memberships' \in [Tenants -> [Pubkeys -> Row \union {NoRow}]]
      BY <2>1, <2>2, Zenon DEF upsert_membership, MembershipInv, TypeOK
    <3>2. request' \in [Requests -> [pc : RequestPcs, at : Time]]
      BY <1>3, Zenon DEF CreateOwner, MembershipInv, TypeOK, RequestPcs
    <3> QED
      BY <1>3, <3>1, <3>2, Zenon DEF CreateOwner, MembershipInv, TypeOK, history
  <2>4. TablesOK' /\ SpentInvitesAreGone' /\ RootedTrust' /\ Grows
    <3>1. UNCHANGED <<tenants, invites, issued, welcomed>> /\ claims' = claims
      BY <1>3, Zenon DEF CreateOwner, history
    <3>2. RowOK(issued', claims', Host[r], Caller[r], row)
      BY <2>2, Zenon DEF RowOK
    <3>3. \A c \in claims : \E i \in issued : i.code = c[1]
      BY Zenon DEF MembershipInv, TablesOK
    <3>4. claims' \subseteq Codes \X Clients
      BY <2>3, Zenon DEF TypeOK
    <3> QED
      BY <2>1, <2>2, <3>1, <3>2, <3>3, <3>4, UpsertKeeps, Zenon
  <2> QED
    BY <1>3, <2>3, <2>4, QuietStep, Zenon DEF MembershipInv, CreateOwner
<1> QED
  BY <1>1, <1>2, <1>3, Zenon DEF ControlStep

\* The facts about session s that every step of it uses.
SessionFacts(s) ==
    /\ op \in [Sessions -> Op]
    /\ session \in [Sessions -> [tenant : Tenants \union {NoTenant},
                                 auth : Clients \union {NoKey}]]
    /\ now \in Time
    /\ HandlerOK(issued, claims, memberships, op[s], session[s].tenant)
    /\ Clients \subseteq Pubkeys

\* The invariant gives the types of what a session and its handler hold.
LEMMA FactsOfSession ==
    ASSUME MembershipInv, NEW s \in Sessions
    PROVE  SessionFacts(s)
BY Zenon DEF MembershipInv, TypeOK, HandlersOK, SessionFacts, Pubkeys

\* A connection starts by seeding the key its tenant was created with.
LEMMA ConnectKeeps ==
    ASSUME MembershipInv, NEW s \in Sessions, NEW t \in Tenants, Connect(s, t)
    PROVE  MembershipInv'
<1>0. SessionFacts(s)
  BY FactsOfSession, Zenon
<1>1. tenants[t] \in Seeds(t) /\ tenants[t] \in Pubkeys
  BY Zenon DEF Connect, MembershipInv, TablesOK, Seeds
<1>2. op'[s] = [Idle EXCEPT !.pc = "seed_lookup", !.pubkey = tenants[t]]
      /\ session'[s].tenant = t
  BY <1>0, Zenon DEF Connect, SessionFacts
<1>3. op'[s] \in Op /\ op'[s].pc = "seed_lookup" /\ op'[s].pubkey \in Seeds(t)
  BY <1>1, <1>2, Literals, Zenon DEF Idle, Op
<1>4. op' \in [Sessions -> Op]
  BY <1>0, <1>3, Zenon DEF Connect, SessionFacts
<1>5. session' \in [Sessions -> [tenant : Tenants \union {NoTenant},
                                auth : Clients \union {NoKey}]]
  BY <1>0, Zenon DEF Connect, SessionFacts
<1>6. HandlerOK(issued, claims, memberships, op'[s], session'[s].tenant)
  BY <1>2, <1>3, Zenon DEF HandlerOK, SeedPcs, JoinPcs, LeavePcs, InvitePcs
<1>7. \A x \in Sessions \ {s} : op'[x] = op[x] /\ session'[x] = session[x]
  BY <1>0, Zenon DEF Connect, SessionFacts
<1> QED
  BY <1>4, <1>5, <1>6, <1>7, LocalStep, Zenon DEF Connect

\* The same for a step that leaves the connection of s as it is.
LEMMA HandlerStep ==
    ASSUME MembershipInv, NEW s \in Sessions,
           UNCHANGED <<tables, now, session, request, history>>,
           op' \in [Sessions -> Op], \A x \in Sessions \ {s} : op'[x] = op[x],
           HandlerOK(issued, claims, memberships, op'[s], session[s].tenant)
    PROVE  MembershipInv'
BY FactsOfSession, LocalStep, Zenon DEF SessionFacts

\* Answering the client keeps the invariant.
LEMMA ReplyStep ==
    ASSUME MembershipInv, NEW s \in Sessions,
           UNCHANGED <<tables, now, session, request, history>>, Reply(s)
    PROVE  MembershipInv'
BY FactsOfSession, IdleOK, HandlerStep, Zenon DEF SessionFacts, Reply

\* Entering a handler: a message carries a key and a code, the clock a time.
LEMMA BeginKeeps ==
    ASSUME MembershipInv, NEW s \in Sessions,
           \/ \E p \in Clients, c \in Codes : JoinBegin(s, p, c)
           \/ \E p \in Clients : LeaveBegin(s, p)
           \/ InviteBegin(s)
    PROVE  MembershipInv'
<1>0. SessionFacts(s) /\ now \in Time /\ Clients \subseteq Pubkeys
  BY FactsOfSession, Zenon DEF SessionFacts
<1>1. session[s].tenant \in Tenants
  BY <1>0, Zenon DEF JoinBegin, LeaveBegin, InviteBegin, SessionFacts
<1>2. ASSUME NEW p \in Clients, NEW c \in Codes, JoinBegin(s, p, c)
      PROVE  MembershipInv'
  <2>1. op'[s] = [Idle EXCEPT !.pc = "join_invite", !.pubkey = p, !.code = c, !.at = now]
    BY <1>0, <1>2, Zenon DEF JoinBegin, SessionFacts
  <2>2. /\ op'[s] \in Op /\ op'[s].pc = "join_invite" /\ op'[s].pubkey = p
        /\ op'[s].code = c /\ op'[s].role = "member"
    BY <1>0, <2>1, Literals, Zenon DEF Idle, Op
  <2>3. op' \in [Sessions -> Op] /\ \A x \in Sessions \ {s} : op'[x] = op[x]
    BY <1>0, <1>2, <2>2, Zenon DEF JoinBegin, SessionFacts
  <2>4. HandlerOK(issued, claims, memberships, op'[s], session[s].tenant)
    BY <1>1, <2>2, Zenon DEF HandlerOK, SeedPcs, JoinPcs, LeavePcs, InvitePcs
  <2> QED
    BY <1>2, <2>3, <2>4, HandlerStep, Zenon DEF JoinBegin
<1>3. ASSUME NEW p \in Clients, LeaveBegin(s, p)
      PROVE  MembershipInv'
  <2>1. op'[s] = [Idle EXCEPT !.pc = "leave_lookup", !.pubkey = p, !.at = now]
    BY <1>0, <1>3, Zenon DEF LeaveBegin, SessionFacts
  <2>2. op'[s] \in Op /\ op'[s].pc = "leave_lookup" /\ op'[s].pubkey = p
    BY <1>0, <2>1, Literals, Zenon DEF Idle, Op
  <2>3. op' \in [Sessions -> Op] /\ \A x \in Sessions \ {s} : op'[x] = op[x]
    BY <1>0, <1>3, <2>2, Zenon DEF LeaveBegin, SessionFacts
  <2>4. HandlerOK(issued, claims, memberships, op'[s], session[s].tenant)
    BY <1>1, <2>2, Zenon DEF HandlerOK, SeedPcs, JoinPcs, LeavePcs, InvitePcs
  <2> QED
    BY <1>3, <2>3, <2>4, HandlerStep, Zenon DEF LeaveBegin
<1>4. CASE InviteBegin(s)
  <2>1. op'[s] = [Idle EXCEPT !.pc = "invite_lookup", !.pubkey = session[s].auth, !.at = now]
    BY <1>0, <1>4, Zenon DEF InviteBegin, SessionFacts
  <2>2. op'[s] \in Op /\ op'[s].pc = "invite_lookup" /\ op'[s].pubkey \in Clients
    <3>1. session[s].auth \in Clients
      BY <1>0, <1>4, Zenon DEF InviteBegin, SessionFacts
    <3> QED
      BY <1>0, <2>1, <3>1, Literals, Zenon DEF Idle, Op
  <2>3. op' \in [Sessions -> Op] /\ \A x \in Sessions \ {s} : op'[x] = op[x]
    BY <1>0, <1>4, <2>2, Zenon DEF InviteBegin, SessionFacts
  <2>4. HandlerOK(issued, claims, memberships, op'[s], session[s].tenant)
    BY <1>1, <2>2, Zenon DEF HandlerOK, SeedPcs, JoinPcs, LeavePcs, InvitePcs
  <2> QED
    BY <1>4, <2>3, <2>4, HandlerStep, Zenon DEF InviteBegin
<1> QED
  BY <1>2, <1>3, <1>4, Zenon

\* A handler's record is updated field by field.
LEMMA PcUpdate ==
    ASSUME NEW o \in Op, NEW pc \in Pcs
    PROVE  [o EXCEPT !.pc = pc] \in Op
BY Zenon DEF Op

\* A record given new values for some fields has those, and keeps the others.
LEMMA RecordUpdate ==
    ASSUME NEW P, NEW K, NEW C, NEW T, NEW R, NEW X,
           NEW o \in [pc : P, pubkey : K, code : C, at : T, role : R, existing : X],
           NEW pc \in P, NEW n \in T, NEW role \in R, NEW row \in X
    PROVE  /\ [o EXCEPT !.pc = pc, !.role = role]
                \in [pc : P, pubkey : K, code : C, at : T, role : R, existing : X]
           /\ [o EXCEPT !.pc = pc, !.at = n, !.existing = row]
                \in [pc : P, pubkey : K, code : C, at : T, role : R, existing : X]
           /\ [o EXCEPT !.pc = pc, !.existing = row]
                \in [pc : P, pubkey : K, code : C, at : T, role : R, existing : X]
BY Zenon

\* JoinInvite moves a handler on with the role the invite grants.
LEMMA RoleUpdate ==
    ASSUME NEW o \in Op, NEW pc \in Pcs
    PROVE  [o EXCEPT !.pc = pc, !.role = "member"] \in Op
<1>1. o.at \in Time /\ o.existing \in Row \union {NoRow}
  BY Zenon DEF Op
<1> QED
  BY <1>1, RecordUpdate, Literals, Zenon DEF Op

\* A lookup moves a handler on with the row it read.
LEMMA ExistingUpdate ==
    ASSUME NEW o \in Op, NEW pc \in Pcs, NEW row \in Row \union {NoRow}
    PROVE  [o EXCEPT !.pc = pc, !.existing = row] \in Op
<1>1. o.at \in Time /\ o.role \in Roles
  BY Zenon DEF Op
<1> QED
  BY <1>1, RecordUpdate, Literals, ZenonT(30) DEF Op

\* SeedLookup moves a handler on with the row it read and the time it read.
LEMMA SeedUpdate ==
    ASSUME NEW o \in Op, NEW pc \in Pcs, NEW n \in Time, NEW row \in Row \union {NoRow}
    PROVE  [o EXCEPT !.pc = pc, !.at = n, !.existing = row] \in Op
<1>1. o.role \in Roles
  BY Zenon DEF Op
<1> QED
  BY <1>1, RecordUpdate, Literals, ZenonT(30) DEF Op

\* Looking a row or an invite up: what was read is what the handler relies on.
LEMMA LookupKeeps ==
    ASSUME MembershipInv, NEW s \in Sessions,
           \/ SeedLookup(s) \/ JoinInvite(s) \/ JoinLookup(s)
           \/ LeaveLookup(s) \/ InviteLookup(s)
    PROVE  MembershipInv'
<1> DEFINE row == memberships[session[s].tenant][op[s].pubkey]
<1>a. SessionFacts(s) /\ op[s] \in Op /\ now \in Time
  BY FactsOfSession, Zenon DEF SessionFacts
<1>0. {"seed_upsert", "join_lookup", "join_upsert", "leave_upsert", "invite_insert"} \subseteq Pcs
  BY Literals, Zenon
<1>1. /\ session[s].tenant \in Tenants /\ op[s].pubkey \in Pubkeys
      /\ row \in Row \union {NoRow}
      /\ RowOK(issued, claims, session[s].tenant, op[s].pubkey, row)
  <2>1. session[s].tenant \in Tenants /\ op[s].pubkey \in Pubkeys
    BY <1>a, Zenon DEF SeedLookup, JoinInvite, JoinLookup, LeaveLookup, InviteLookup, IsAt, SessionFacts,
           HandlerOK, SeedPcs, JoinPcs, LeavePcs, InvitePcs, Seeds
  <2>2. row \in Row \union {NoRow}
    BY <2>1 DEF MembershipInv, TypeOK
  <2>3. \A t \in Tenants, p \in Pubkeys : RowOK(issued, claims, t, p, memberships[t][p])
    BY Zenon DEF MembershipInv, TablesOK
  <2> QED
    BY <2>1, <2>2, <2>3, Zenon
<1>2. CASE SeedLookup(s)
  <2>1. op'[s] = [op[s] EXCEPT !.pc = "seed_upsert", !.at = now, !.existing = row]
    BY <1>a, <1>2, Zenon DEF SeedLookup, SessionFacts
  <2>2. op'[s] \in Op /\ op'[s].pc = "seed_upsert" /\ op'[s].pubkey = op[s].pubkey
    <3>1. [op[s] EXCEPT !.pc = "seed_upsert", !.at = now, !.existing = row] \in Op
      BY <1>a, <1>0, <1>1, SeedUpdate, Zenon
    <3> QED
      BY <1>a, <2>1, <3>1, Zenon DEF Op
  <2>3. op' \in [Sessions -> Op] /\ \A x \in Sessions \ {s} : op'[x] = op[x]
    BY <1>a, <1>2, <2>2, Zenon DEF SeedLookup, SessionFacts
  <2>4. HandlerOK(issued, claims, memberships, op'[s], session[s].tenant)
    BY <1>a, <1>2, <2>2, Zenon DEF SeedLookup, IsAt, SessionFacts, HandlerOK, SeedPcs, JoinPcs, LeavePcs, InvitePcs
  <2> QED
    BY <1>2, <2>3, <2>4, HandlerStep, Zenon DEF SeedLookup
<1>3. CASE JoinInvite(s)
  <2>1. PICK i \in invite_by_code(session[s].tenant, op[s].code) :
          Claimable(s, i) /\ op' = [op EXCEPT ![s].pc = "join_lookup", ![s].role = i.role]
    BY <1>3, Zenon DEF JoinInvite
  <2>2. i \in issued /\ i.tenant = session[s].tenant /\ i.code = op[s].code
    BY <2>1, Zenon DEF invite_by_code, MembershipInv, TypeOK
  <2>3. i.role = "member" /\ op[s].at <= i.expires_at
    <3>1. i.expires_at \in Nat /\ op[s].at \in Time
      BY <2>2, Zenon DEF MembershipInv, TypeOK, Invite, Op
    <3> QED
      BY <3>1, <2>1, <2>2, ConstantsAssumption, Zenon DEF Claimable, MembershipInv, TablesOK, Time
  <2>4. op'[s] = [op[s] EXCEPT !.pc = "join_lookup", !.role = "member"]
    BY <1>a, <2>1, <2>3, Zenon DEF SessionFacts
  <2>5. /\ op'[s] \in Op /\ op'[s].pc = "join_lookup" /\ op'[s].pubkey = op[s].pubkey
        /\ op'[s].role = "member" /\ op'[s].code = op[s].code /\ op'[s].at = op[s].at
    <3>1. [op[s] EXCEPT !.pc = "join_lookup", !.role = "member"] \in Op
      BY <1>a, <1>0, RoleUpdate, Zenon
    <3> QED
      BY <1>a, <2>4, <3>1, Zenon DEF Op
  <2>6. op' \in [Sessions -> Op] /\ \A x \in Sessions \ {s} : op'[x] = op[x]
    BY <1>a, <2>1, <2>5, Zenon DEF SessionFacts
  <2>7. Vouched(issued, op'[s], session[s].tenant)
    BY <2>2, <2>3, <2>5, Zenon DEF Vouched
  <2>8. HandlerOK(issued, claims, memberships, op'[s], session[s].tenant)
    BY <1>a, <1>3, <2>5, <2>7, Zenon DEF JoinInvite, IsAt, SessionFacts, HandlerOK, SeedPcs, JoinPcs, LeavePcs,
                            InvitePcs
  <2> QED
    BY <1>3, <2>6, <2>8, HandlerStep, Zenon DEF JoinInvite
<1>4. CASE JoinLookup(s)
  <2>1. CASE IsActive(row)
    BY <1>4, <2>1, ReplyStep, Zenon DEF JoinLookup
  <2>2. CASE ~IsActive(row)
    <3>1. op' = [op EXCEPT ![s].pc = "join_upsert", ![s].existing = row]
      BY <1>4, <2>2, Zenon DEF JoinLookup
    <3>2. op'[s] = [op[s] EXCEPT !.pc = "join_upsert", !.existing = row]
      BY <1>a, <3>1, Zenon DEF SessionFacts
    <3>3. /\ op'[s] \in Op /\ op'[s].pc = "join_upsert" /\ op'[s].pubkey = op[s].pubkey
          /\ op'[s].role = op[s].role /\ op'[s].code = op[s].code /\ op'[s].at = op[s].at
          /\ op'[s].existing = row
      <4>1. [op[s] EXCEPT !.pc = "join_upsert", !.existing = row] \in Op
        BY <1>a, <1>0, <1>1, ExistingUpdate, Zenon
      <4> QED
        BY <1>a, <3>2, <4>1, Zenon DEF Op
    <3>4. op' \in [Sessions -> Op] /\ \A x \in Sessions \ {s} : op'[x] = op[x]
      BY <1>a, <3>1, <3>3, Zenon DEF SessionFacts
    <3>5. Vouched(issued, op[s], session[s].tenant) => Vouched(issued, op'[s], session[s].tenant)
      BY <3>3, Zenon DEF Vouched
    <3>6. HandlerOK(issued, claims, memberships, op'[s], session[s].tenant)
      BY <1>a, <1>1, <1>4, <3>3, <3>5, Zenon DEF JoinLookup, IsAt, SessionFacts, HandlerOK, SeedPcs, JoinPcs,
                                    LeavePcs, InvitePcs
    <3> QED
      BY <1>4, <3>4, <3>6, HandlerStep, Zenon DEF JoinLookup
  <2> QED
    BY <2>1, <2>2, Zenon
<1>5. CASE LeaveLookup(s)
  <2>1. CASE ~IsActive(row)
    BY <1>5, <2>1, ReplyStep, Zenon DEF LeaveLookup
  <2>2. CASE IsActive(row)
    <3>1. op' = [op EXCEPT ![s].pc = "leave_upsert", ![s].existing = row]
      BY <1>5, <2>2, Zenon DEF LeaveLookup
    <3>2. op'[s] = [op[s] EXCEPT !.pc = "leave_upsert", !.existing = row]
      BY <1>a, <3>1, Zenon DEF SessionFacts
    <3>3. /\ op'[s] \in Op /\ op'[s].pc = "leave_upsert" /\ op'[s].pubkey = op[s].pubkey
          /\ op'[s].existing = row
      <4>1. [op[s] EXCEPT !.pc = "leave_upsert", !.existing = row] \in Op
        BY <1>a, <1>0, <1>1, ExistingUpdate, Zenon
      <4> QED
        BY <1>a, <3>2, <4>1, Zenon DEF Op
    <3>4. op' \in [Sessions -> Op] /\ \A x \in Sessions \ {s} : op'[x] = op[x]
      BY <1>a, <3>1, <3>3, Zenon DEF SessionFacts
    <3>5. HandlerOK(issued, claims, memberships, op'[s], session[s].tenant)
      BY <1>a, <1>1, <1>5, <2>2, <3>3, Zenon DEF LeaveLookup, IsAt, IsActive, SessionFacts, HandlerOK, SeedPcs,
                                    JoinPcs, LeavePcs, InvitePcs
    <3> QED
      BY <1>5, <3>4, <3>5, HandlerStep, Zenon DEF LeaveLookup
  <2> QED
    BY <2>1, <2>2, Zenon
<1>6. CASE InviteLookup(s)
  <2>1. CASE ~IsActive(row)
    BY <1>6, <2>1, ReplyStep, Zenon DEF InviteLookup
  <2>2. CASE IsActive(row)
    <3>1. op' = [op EXCEPT ![s].pc = "invite_insert"]
      BY <1>6, <2>2, Zenon DEF InviteLookup, Continue
    <3>2. op'[s] \in Op /\ op'[s].pc = "invite_insert" /\ op'[s].pubkey = op[s].pubkey
      <4>1. op'[s] = [op[s] EXCEPT !.pc = "invite_insert"]
        BY <1>a, <3>1, Zenon DEF SessionFacts
      <4>2. op'[s] \in Op
        BY <1>a, <1>0, <4>1, PcUpdate
      <4> QED
        BY <1>a, <4>1, <4>2, Zenon DEF Op, SessionFacts
    <3>3. op' \in [Sessions -> Op] /\ \A x \in Sessions \ {s} : op'[x] = op[x]
      BY <1>a, <3>1, <3>2, Zenon DEF SessionFacts
    <3>4. HandlerOK(issued, claims, memberships, op'[s], session[s].tenant)
      BY <1>a, <1>1, <1>6, <2>2, <3>2, Zenon DEF InviteLookup, IsAt, IsActive, SessionFacts, HandlerOK, SeedPcs,
                                    JoinPcs, LeavePcs, InvitePcs
    <3> QED
      BY <1>6, <3>3, <3>4, HandlerStep, Zenon DEF InviteLookup
  <2> QED
    BY <2>1, <2>2, Zenon
<1> QED
  BY <1>2, <1>3, <1>4, <1>5, <1>6, Zenon

\* A handler that writes a legitimate row and then continues as o.
LEMMA WriterStep ==
    ASSUME MembershipInv, NEW s \in Sessions, NEW row \in Row,
           session[s].tenant \in Tenants, op[s].pubkey \in Pubkeys,
           upsert_membership(session[s].tenant, op[s].pubkey, row),
           RowOK(issued, claims', session[s].tenant, op[s].pubkey, row),
           UNCHANGED <<tenants, invites, now, session, request, issued, welcomed>>,
           claims \subseteq claims', claims' \subseteq Codes \X Clients,
           \A c \in claims' : \E i \in issued : i.code = c[1],
           op' \in [Sessions -> Op], \A x \in Sessions \ {s} : op'[x] = op[x],
           HandlerOK(issued, claims', memberships', op'[s], session[s].tenant)
    PROVE  MembershipInv'
<1>1. TablesOK' /\ SpentInvitesAreGone' /\ RootedTrust' /\ Grows
  BY UpsertKeeps, Zenon
<1>2. HandlersOK'
  BY <1>1, HandlersKept, Zenon
<1>3. TypeOK'
  <2>1. memberships' \in [Tenants -> [Pubkeys -> Row \union {NoRow}]]
    BY Zenon DEF upsert_membership, MembershipInv, TypeOK
  <2> QED
    BY <2>1, Zenon DEF MembershipInv, TypeOK
<1> QED
  BY <1>1, <1>2, <1>3, Zenon DEF MembershipInv

\* seed_owner_membership writes the row of a relay key, which is a seed.
LEMMA SeedUpsertKeeps ==
    ASSUME MembershipInv, NEW s \in Sessions, SeedUpsert(s)
    PROVE  MembershipInv'
<1>1. SessionFacts(s) /\ op[s] \in Op
  BY FactsOfSession, Zenon DEF SessionFacts
<1>2. session[s].tenant \in Tenants /\ op[s].pubkey \in Seeds(session[s].tenant)
  BY <1>1, Zenon DEF SeedUpsert, IsAt, SessionFacts, HandlerOK, SeedPcs
<1>3. PICK row \in Row : upsert_membership(session[s].tenant, op[s].pubkey, row)
  <2>1. CreatedAt(op[s].existing, op[s].at) \in Time /\ op[s].at \in Time
    BY <1>1, Zenon DEF CreatedAt, Op, Row
  <2> QED
    BY <2>1, Literals, RowWritten DEF SeedUpsert
<1>4. RowOK(issued, claims', session[s].tenant, op[s].pubkey, row)
  BY <1>2, Zenon DEF RowOK
<1>5. /\ UNCHANGED <<tenants, invites, now, session, request, issued, welcomed>>
      /\ claims' = claims
  BY Zenon DEF SeedUpsert, history
<1>6. claims \subseteq Codes \X Clients /\ \A c \in claims : \E i \in issued : i.code = c[1]
  BY Zenon DEF MembershipInv, TypeOK, TablesOK
<1>7. op' \in [Sessions -> Op] /\ op'[s] = Idle /\ \A x \in Sessions \ {s} : op'[x] = op[x]
  BY <1>1, IdleOK, Zenon DEF SeedUpsert, Reply, SessionFacts
<1>8. HandlerOK(issued, claims', memberships', op'[s], session[s].tenant)
  BY <1>7, IdleOK, Zenon
<1> QED
  BY <1>2, <1>3, <1>4, <1>5, <1>6, <1>7, <1>8, WriterStep, Zenon DEF Seeds

\* A join writes the row of a key that claimed an invite of the tenant in time.
LEMMA JoinUpsertKeeps ==
    ASSUME MembershipInv, NEW s \in Sessions, JoinUpsert(s)
    PROVE  MembershipInv'
<1> DEFINE t == session[s].tenant
           p == op[s].pubkey
<1>1. SessionFacts(s) /\ op[s] \in Op
  BY FactsOfSession, Zenon DEF SessionFacts
<1>2. /\ t \in Tenants /\ p \in Clients /\ p \in Pubkeys /\ op[s].code \in Codes
      /\ op[s].role = "member" /\ Vouched(issued, op[s], t)
      /\ RowOK(issued, claims, t, p, op[s].existing)
  BY <1>1, Zenon DEF JoinUpsert, IsAt, SessionFacts, HandlerOK, JoinPcs
<1>3. CreatedAt(op[s].existing, op[s].at) \in Time /\ op[s].at \in Time
  BY <1>1, Zenon DEF CreatedAt, Op, Row
<1>4. PICK row \in Row :
        /\ upsert_membership(t, p, row)
        /\ row.role = "member" /\ row.created_at = CreatedAt(op[s].existing, op[s].at)
  <2> DEFINE new == [role |-> "member", status |-> "active",
              created_at |-> CreatedAt(op[s].existing, op[s].at), updated_at |-> op[s].at]
  <2>1. upsert_membership(t, p, new)
    BY <1>2, Zenon DEF JoinUpsert
  <2>2. new \in Row /\ new.role = "member" /\ new.created_at = CreatedAt(op[s].existing, op[s].at)
    BY <1>3, Literals, Zenon DEF Row
  <2> HIDE DEF new
  <2> QED
    BY <2>1, <2>2, Zenon
<1>5. PICK i \in issued : i.tenant = t /\ i.code = op[s].code /\ op[s].at <= i.expires_at
  BY <1>2, Zenon DEF Vouched
<1>6. /\ claims' = claims \union {<<op[s].code, p>>}
      /\ UNCHANGED <<tenants, invites, now, session, request, issued, welcomed>>
  BY Zenon DEF JoinUpsert
<1>7. RowOK(issued, claims', t, p, row)
  <2>1. CASE op[s].existing = NoRow
    BY <2>1, <1>4, <1>5, <1>6, Zenon DEF RowOK, CreatedAt
  <2>2. CASE op[s].existing # NoRow
    BY <2>2, <1>2, <1>4, <1>6, Zenon DEF RowOK, CreatedAt
  <2> QED
    BY <2>1, <2>2, Zenon
<1>8. /\ claims' \subseteq Codes \X Clients
      /\ \A c \in claims' : \E j \in issued : j.code = c[1]
  <2>1. claims \subseteq Codes \X Clients /\ \A c \in claims : \E j \in issued : j.code = c[1]
    BY Zenon DEF MembershipInv, TypeOK, TablesOK
  <2>2. <<op[s].code, p>> \in Codes \X Clients /\ <<op[s].code, p>>[1] = i.code
    BY <1>2, <1>5, Zenon
  <2> QED
    BY <1>5, <1>6, <2>1, <2>2, Zenon
<1>9. op'[s] = [op[s] EXCEPT !.pc = "join_delete"]
  BY <1>1, Zenon DEF JoinUpsert, Continue, SessionFacts
<1>10. op'[s] \in Op
  BY <1>1, <1>9, Literals, PcUpdate, Zenon
<1>11. /\ op'[s].pc = "join_delete" /\ op'[s].pubkey = p /\ op'[s].code = op[s].code
       /\ op'[s].role = op[s].role /\ op'[s].at = op[s].at
  BY <1>1, <1>9, <1>10, Zenon DEF Op
<1>12. op' \in [Sessions -> Op] /\ \A x \in Sessions \ {s} : op'[x] = op[x]
  BY <1>1, <1>10, Zenon DEF JoinUpsert, Continue, SessionFacts
<1>13. HandlerOK(issued, claims', memberships', op'[s], t)
  BY <1>2, <1>6, <1>11, Zenon DEF HandlerOK, Vouched, SeedPcs, JoinPcs, LeavePcs, InvitePcs
<1> QED
  BY <1>2, <1>4, <1>6, <1>7, <1>8, <1>12, <1>13, WriterStep, Zenon

\* A leave writes back the row it read, which was legitimate then and still is.
LEMMA LeaveUpsertKeeps ==
    ASSUME MembershipInv, NEW s \in Sessions, LeaveUpsert(s)
    PROVE  MembershipInv'
<1> DEFINE t == session[s].tenant
           p == op[s].pubkey
<1>1. SessionFacts(s) /\ op[s] \in Op
  BY FactsOfSession, Zenon DEF SessionFacts
<1>2. /\ t \in Tenants /\ p \in Pubkeys /\ op[s].existing \in Row
      /\ RowOK(issued, claims, t, p, op[s].existing)
  BY <1>1, Zenon DEF LeaveUpsert, IsAt, SessionFacts, HandlerOK, LeavePcs
<1>3. PICK row \in Row :
        /\ upsert_membership(t, p, row)
        /\ row.role = op[s].existing.role /\ row.created_at = op[s].existing.created_at
  <2>1. op[s].at \in Time
    BY <1>1, Zenon DEF Op
  <2>2. [op[s].existing EXCEPT !.status = "left", !.updated_at = op[s].at] \in Row
    BY <1>2, <2>1, Zenon DEF Row
  <2> QED
    BY <1>2, <2>2, Zenon DEF LeaveUpsert, Row
<1>4. /\ UNCHANGED <<tenants, invites, now, session, request, issued, welcomed>>
      /\ claims' = claims
  BY Zenon DEF LeaveUpsert, history
<1>5. RowOK(issued, claims', t, p, row)
  BY <1>2, <1>3, <1>4, NoRowAssumption, Zenon DEF RowOK
<1>6. claims \subseteq Codes \X Clients /\ \A c \in claims : \E i \in issued : i.code = c[1]
  BY Zenon DEF MembershipInv, TypeOK, TablesOK
<1>7. op' \in [Sessions -> Op] /\ op'[s] = Idle /\ \A x \in Sessions \ {s} : op'[x] = op[x]
  BY <1>1, IdleOK, Zenon DEF LeaveUpsert, Reply, SessionFacts
<1>8. HandlerOK(issued, claims', memberships', op'[s], t)
  BY <1>7, IdleOK, Zenon
<1> QED
  BY <1>2, <1>3, <1>4, <1>5, <1>6, <1>7, <1>8, WriterStep, Zenon

\* A join that deletes its invite and is answered "welcome" leaves no claimable copy.
LEMMA JoinDeleteKeeps ==
    ASSUME MembershipInv, NEW s \in Sessions, JoinDelete(s)
    PROVE  MembershipInv'
<1> DEFINE t == session[s].tenant
           claim == <<op[s].code, op[s].pubkey>>
<1>1. SessionFacts(s)
  BY FactsOfSession, Zenon
<1>2. claim \in claims /\ Vouched(issued, op[s], t)
  BY <1>1, Zenon DEF JoinDelete, IsAt, SessionFacts, HandlerOK, JoinPcs
<1>3. /\ invites' = invites \ invite_by_code(t, op[s].code)
      /\ welcomed' = welcomed \union {claim}
      /\ UNCHANGED <<tenants, memberships, now, session, request, issued, claims>>
  BY Zenon DEF JoinDelete
<1>4. op' \in [Sessions -> Op] /\ op'[s] = Idle /\ \A x \in Sessions \ {s} : op'[x] = op[x]
  BY <1>1, IdleOK, Zenon DEF JoinDelete, Reply, SessionFacts
<1>5. TypeOK'
  BY <1>2, <1>3, <1>4, Zenon DEF MembershipInv, TypeOK
<1>6. TablesOK' /\ RootedTrust' /\ Grows
  <2>1. TablesOK'
    BY <1>3 DEF MembershipInv, TablesOK, Seeds, RowOK
  <2>2. RootedTrust'
    BY <1>3, Zenon DEF MembershipInv, RootedTrust, ClosedUnderInvites, Members, Seeds
  <2>3. Grows
    BY <1>3, Zenon DEF Grows
  <2> QED
    BY <2>1, <2>2, <2>3, Zenon
<1>7. HandlersOK'
  BY <1>3, <1>4, <1>6, IdleOK, HandlersKept, Zenon
<1>8. SpentInvitesAreGone'
  <2> SUFFICES ASSUME NEW i \in invites', NEW p \in Clients  PROVE <<i.code, p>> \notin welcomed'
    BY Zenon DEF SpentInvitesAreGone
  <2>1. i \in invites /\ i \in issued /\ <<i.code, p>> \notin welcomed
    BY <1>3, Zenon DEF MembershipInv, TypeOK, SpentInvitesAreGone
  <2>2. i.code # op[s].code
    <3>1. PICK j \in issued : j.tenant = t /\ j.code = op[s].code
      BY <1>2, Zenon DEF Vouched
    <3>2. i.code = op[s].code => i = j
      BY <2>1, <3>1, Zenon DEF MembershipInv, TablesOK
    <3> QED
      BY <1>3, <2>1, <3>1, <3>2, Zenon DEF invite_by_code
  <2> QED
    BY <1>3, <2>1, <2>2, Zenon
<1> QED
  BY <1>5, <1>6, <1>7, <1>8, Zenon DEF MembershipInv

\* A new invite carries a fresh code and is issued by a key the tenant knows.
LEMMA InviteInsertKeeps ==
    ASSUME MembershipInv, NEW s \in Sessions, InviteInsert(s)
    PROVE  MembershipInv'
<1> DEFINE t == session[s].tenant
<1>1. SessionFacts(s) /\ op[s] \in Op
  BY FactsOfSession, Zenon DEF SessionFacts
<1>2. t \in Tenants /\ op[s].pubkey \in Pubkeys /\ memberships[t][op[s].pubkey] # NoRow
  BY <1>1, Zenon DEF InviteInsert, IsAt, SessionFacts, HandlerOK, InvitePcs
<1>3. PICK c \in generate_invite_code :
        LET i == [tenant |-> t, code |-> c, role |-> "member",
                  inviter |-> op[s].pubkey, expires_at |-> op[s].at + InviteTTL]
        IN  invites' = invites \union {i} /\ issued' = issued \union {i}
  BY Zenon DEF InviteInsert
<1>4. c \in Codes /\ \A j \in issued : j.code # c
  BY <1>3, Zenon DEF generate_invite_code
<1>5. PICK i \in Invite : /\ invites' = invites \union {i} /\ issued' = issued \union {i}
                         /\ i.tenant = t /\ i.code = c /\ i.role = "member"
                         /\ i.inviter = op[s].pubkey
  <2> DEFINE new == [tenant |-> t, code |-> c, role |-> "member",
                     inviter |-> op[s].pubkey, expires_at |-> op[s].at + InviteTTL]
  <2>1. op[s].at + InviteTTL \in Nat
    BY <1>1, ConstantsAssumption DEF Op, Time
  <2>2. new \in Invite
    BY <1>2, <1>4, <2>1, Literals, Zenon DEF Invite
  <2>3. /\ new.tenant = t /\ new.code = c /\ new.role = "member"
        /\ new.inviter = op[s].pubkey
    OBVIOUS
  <2>4. invites' = invites \union {new} /\ issued' = issued \union {new}
    BY <1>3, Zenon
  <2> HIDE DEF new
  <2> QED
    BY <2>2, <2>3, <2>4, Zenon
<1>6. UNCHANGED <<tenants, memberships, now, session, request, claims, welcomed>>
  BY Zenon DEF InviteInsert
<1>7. op' \in [Sessions -> Op] /\ op'[s] = Idle /\ \A x \in Sessions \ {s} : op'[x] = op[x]
  BY <1>1, IdleOK, Zenon DEF InviteInsert, Reply, SessionFacts
<1>8. TypeOK'
  BY <1>5, <1>6, <1>7, Zenon DEF MembershipInv, TypeOK
<1>9. Grows
  BY <1>5, <1>6, Zenon DEF Grows
<1>10. TablesOK'
  <2>1. \A u \in Tenants, p \in Pubkeys : RowOK(issued', claims', u, p, memberships'[u][p])
    BY <1>5, <1>6, Zenon DEF MembershipInv, TablesOK, RowOK
  <2>2. \A j \in issued' : j.role = "member" /\ memberships'[j.tenant][j.inviter] # NoRow
    BY <1>2, <1>5, <1>6, Zenon DEF MembershipInv, TablesOK
  <2>3. \A j, k \in issued' : j.code = k.code => j = k
    BY <1>4, <1>5, Zenon DEF MembershipInv, TablesOK
  <2>4. \A d \in claims' : \E j \in issued' : j.code = d[1]
    BY <1>5, <1>6, Zenon DEF MembershipInv, TablesOK
  <2> QED
    BY <1>6, <2>1, <2>2, <2>3, <2>4, Zenon DEF MembershipInv, TablesOK, Seeds
<1>11. SpentInvitesAreGone'
  <2>1. \A p \in Clients : <<c, p>> \notin claims
    BY <1>4, Zenon DEF MembershipInv, TablesOK
  <2> QED
    BY <1>5, <1>6, <2>1, Zenon DEF MembershipInv, TypeOK, SpentInvitesAreGone
<1>12. RootedTrust'
  BY <1>5, <1>6, Zenon DEF MembershipInv, RootedTrust, ClosedUnderInvites, Members, Seeds
<1>13. HandlersOK'
  BY <1>7, <1>6, <1>9, IdleOK, HandlersKept, Zenon
<1> QED
  BY <1>8, <1>10, <1>11, <1>12, <1>13, Zenon DEF MembershipInv

\* Leaving a connection or proving a key touches no handler.
LEMMA ConnectionKeeps ==
    ASSUME MembershipInv, NEW s \in Sessions, Disconnect(s) \/ \E p \in Clients : Auth(s, p)
    PROVE  MembershipInv'
<1>1. SessionFacts(s)
  BY FactsOfSession, Zenon
<1>2. /\ op[s].pc = "idle" /\ op' = op
      /\ UNCHANGED <<tables, now, request, history>>
  BY Zenon DEF Disconnect, Auth, IsAt
<1>3. HandlerOK(issued, claims, memberships, op'[s], session'[s].tenant)
  BY <1>2, Zenon DEF HandlerOK, SeedPcs, JoinPcs, LeavePcs, InvitePcs
<1>4. /\ session' \in [Sessions -> [tenant : Tenants \union {NoTenant},
                                  auth : Clients \union {NoKey}]]
      /\ \A x \in Sessions \ {s} : session'[x] = session[x]
  BY <1>1 DEF Disconnect, Auth, SessionFacts
<1> QED
  BY <1>1, <1>2, <1>3, <1>4, LocalStep, Zenon DEF SessionFacts
-----------------------------------------------------------------------------
\* The invariant holds initially: the tables are empty and nothing is in flight.
LEMMA InitInv == Init => MembershipInv
<1> SUFFICES ASSUME Init  PROVE MembershipInv
  OBVIOUS
<1>1. TypeOK
  <2>1. 0 \in Time /\ now \in Time
    BY ConstantsAssumption DEF Init, Time
  <2>2. op \in [Sessions -> Op]
    BY IdleOK, Zenon DEF Init
  <2>3. request \in [Requests -> [pc : RequestPcs, at : Time]]
    BY <2>1, Zenon DEF Init, RequestPcs
  <2>4. session \in [Sessions -> [tenant : Tenants \union {NoTenant},
                                 auth : Clients \union {NoKey}]]
    BY Zenon DEF Init
  <2>5. /\ tenants \in [Tenants -> RelayKeys \union {NoKey}]
        /\ memberships \in [Tenants -> [Pubkeys -> Row \union {NoRow}]]
        /\ invites \subseteq issued /\ issued \subseteq Invite
        /\ claims \subseteq Codes \X Clients /\ welcomed \subseteq claims
    BY Zenon DEF Init
  <2> QED
    BY <2>1, <2>2, <2>3, <2>4, <2>5, Zenon DEF TypeOK
<1>2. HandlersOK
  BY IdleOK, Zenon DEF Init, HandlersOK
<1>3. TablesOK /\ SpentInvitesAreGone
  BY Zenon DEF Init, TablesOK, RowOK, SpentInvitesAreGone
<1>4. RootedTrust
  BY Zenon DEF Init, RootedTrust, Members
<1> QED
  BY <1>1, <1>2, <1>3, <1>4, Zenon DEF MembershipInv

\* Every step of the control plane, of a session and of the environment keeps
\* the invariant.
LEMMA NextInv == MembershipInv /\ [Next]_vars => MembershipInv'
<1> SUFFICES ASSUME MembershipInv, [Next]_vars  PROVE MembershipInv'
  OBVIOUS
<1>1. ASSUME NEW r \in Requests, ControlStep(r)  PROVE MembershipInv'
  BY <1>1, ControlKeeps, Zenon
<1>2. ASSUME NEW s \in Sessions, SessionStep(s)  PROVE MembershipInv'
  <2>1. CASE JoinInvalid(s) \/ StorageError(s)
    BY <2>1, ReplyStep, Zenon DEF JoinInvalid, StorageError
  <2> QED
    BY <1>2, <2>1, ConnectKeeps, ConnectionKeeps, BeginKeeps, LookupKeeps, SeedUpsertKeeps, Zenon,
       JoinUpsertKeeps, JoinDeleteKeeps, LeaveUpsertKeeps, InviteInsertKeeps DEF SessionStep
<1>3. CASE Crash
  <2>1. TypeOK'
    BY <1>3, IdleOK, Zenon DEF Crash, MembershipInv, TypeOK, tables, history
  <2>2. HandlersOK'
    BY <1>3, IdleOK, Zenon DEF Crash, HandlersOK
  <2> QED
    BY <1>3, <2>1, <2>2, TablesKept, Zenon DEF Crash, MembershipInv
<1>4. CASE Tick
  <2>1. TypeOK'
    BY <1>4, ConstantsAssumption DEF Tick, MembershipInv, TypeOK, Time, tables, history
  <2> QED
    BY <1>4, <2>1, TablesKept, QuietStep, Zenon DEF Tick, MembershipInv
<1>5. CASE UNCHANGED vars
  <2>1. TypeOK'
    BY <1>5, Zenon DEF vars, MembershipInv, TypeOK
  <2> QED
    BY <1>5, <2>1, TablesKept, QuietStep, Zenon DEF vars, tables, history, MembershipInv
<1> QED
  BY <1>1, <1>2, <1>3, <1>4, <1>5, Zenon DEF Next, Step

\* Every reachable state of the membership handlers satisfies the inductive
\* invariant: types, what each handler in flight relies on, legitimate rows.
THEOREM MembershipInvariant == Spec => []MembershipInv
BY InitInv, NextInv, PTL DEF Spec

\* The tables, sessions and handlers keep their shape; in particular a join
\* never reports success for a membership it did not write (TypeOK's last line).
THEOREM TypeCorrect == Spec => []TypeOK
BY MembershipInvariant, PTL DEF MembershipInv

\* For any number of tenants, sessions and invites, every membership goes back
\* to a seeded owner (handle_membership_event, build_invite_event).
THEOREM TrustIsRooted == Spec => []RootedTrust
BY MembershipInvariant, PTL DEF MembershipInv

\* A code answered "welcome" is not claimable again, whatever else is in flight.
THEOREM InvitesAreSpent == Spec => []SpentInvitesAreGone
BY MembershipInvariant, PTL DEF MembershipInv

\* Leaving, rejoining and joining at once never make a guest an owner.
THEOREM OnlySeedsAreOwners == Spec => []OwnersAreSeeded
<1>1. MembershipInv => OwnersAreSeeded
  BY Zenon DEF MembershipInv, TablesOK, RowOK, OwnersAreSeeded
<1> QED
  BY <1>1, MembershipInvariant, PTL

\* Whoever was not seeded claimed an invite of the tenant before it expired.
THEOREM GuestsCameInTime == Spec => []InvitedInTime
<1>1. MembershipInv => InvitedInTime
  BY Zenon DEF MembershipInv, TablesOK, RowOK, InvitedInTime
<1> QED
  BY <1>1, MembershipInvariant, PTL
-----------------------------------------------------------------------------
(***************************************************************************)
(* One invite, one welcome.  A join past its lookup of the invite (Late)   *)
(* found it there, so nobody had been welcomed with the code then; whoever *)
(* is welcomed while it is under way was in flight with it.                *)
(***************************************************************************)
Late == JoinPcs \ {"join_invite"}

TogetherInv ==
    /\ \A s, v \in Sessions :
          /\ op[s].pc \in JoinPcs /\ op[v].pc \in JoinPcs
          /\ op[s].code = op[v].code /\ op[s].pubkey # op[v].pubkey
          => op[s].code \in together
    /\ \A s \in Sessions, p \in Clients :
          op[s].pc \in Late /\ <<op[s].code, p>> \in welcomed /\ p # op[s].pubkey
          => op[s].code \in together
    /\ OneWelcomeUnlessTogether

\* A handler is in the late part of a join only if it was there before, with the same
\* code and key, or has just found an invite of its code.
LEMMA LateBefore ==
    ASSUME op \in [Sessions -> Op], Step \/ UNCHANGED vars, NEW s \in Sessions, op'[s].pc \in Late
    PROVE  \/ op[s].pc \in Late /\ op'[s].code = op[s].code /\ op'[s].pubkey = op[s].pubkey
           \/ /\ \E i \in invites : i.code = op[s].code
              /\ op'[s].code = op[s].code /\ welcomed' = welcomed
<1> DEFINE Goal == \/ op[s].pc \in Late /\ op'[s].code = op[s].code /\ op'[s].pubkey = op[s].pubkey
                   \/ /\ \E i \in invites : i.code = op[s].code
                      /\ op'[s].code = op[s].code /\ welcomed' = welcomed
<1>0. op[s] \in Op
  BY Zenon
<1>1. CASE op'[s] = op[s]
  BY <1>1, Zenon
<1>2. ASSUME NEW r \in Requests, ControlStep(r)  PROVE op' = op
  BY <1>2, Zenon DEF ControlStep, CreateBegin, CreateLookup, CreateTenant, CreateOwner, CreateFail
<1>3. CASE Tick \/ UNCHANGED vars
  BY <1>1, <1>3, Zenon DEF Tick, vars
<1>4. CASE Crash
  BY <1>4, Zenon DEF Crash, Idle, Late, JoinPcs
<1>5. ASSUME NEW v \in Sessions, SessionStep(v)  PROVE Goal
  <2>1. CASE v # s
    <3>1. op'[s] = op[s]
      BY <1>5, <2>1, Zenon DEF SessionStep, Connect, SeedLookup, SeedUpsert, Disconnect, Auth, LeaveBegin,
         JoinBegin, JoinInvite, JoinInvalid, JoinLookup, JoinUpsert, JoinDelete, LeaveLookup,
         LeaveUpsert, InviteBegin, InviteLookup, InviteInsert, StorageError, Reply, Continue
    <3> QED
      BY <1>1, <3>1, Zenon
  <2>2. CASE v = s
    <3>1. CASE Reply(s)
      BY <3>1, Zenon DEF Reply, Idle, Late, JoinPcs
    <3>2. CASE Disconnect(s) \/ \E p \in Clients : Auth(s, p)
      BY <1>1, <3>2, Zenon DEF Disconnect, Auth
    <3>3. CASE JoinInvite(s)
      BY <1>0, <3>3, Zenon DEF JoinInvite, invite_by_code, Op, history
    <3>4. CASE JoinLookup(s)
      <4>1. ASSUME NEW row, op' = [op EXCEPT ![s].pc = "join_upsert", ![s].existing = row]
            PROVE  op'[s].code = op[s].code /\ op'[s].pubkey = op[s].pubkey
        BY <1>0, <4>1, Zenon DEF Op
      <4>2. op[s].pc \in Late
        BY <3>4, Zenon DEF JoinLookup, IsAt, Late, JoinPcs
      <4> QED
        BY <3>1, <3>4, <4>1, <4>2, Zenon DEF JoinLookup
    <3>5. CASE JoinUpsert(s)
      BY <1>0, <3>5, Zenon DEF JoinUpsert, Continue, IsAt, Op, Late, JoinPcs
    <3>6. ASSUME NEW t \in Tenants, Connect(s, t)  PROVE Goal
      <4>1. op'[s] = [Idle EXCEPT !.pc = "seed_lookup", !.pubkey = tenants[t]]
        BY <3>6, Zenon DEF Connect
      <4>2. op'[s].pc = "seed_lookup"
        BY <4>1, Zenon DEF Idle
      <4> QED
        BY <4>2, Zenon DEF Late, JoinPcs
    <3>10. CASE SeedLookup(s)
      <4>1. op'[s].pc = "seed_upsert"
        BY <1>0, <3>10, Zenon DEF SeedLookup, Op
      <4> QED
        BY <4>1, Zenon DEF Late, JoinPcs
    <3>11. CASE InviteBegin(s)
      <4>1. op'[s] = [Idle EXCEPT !.pc = "invite_lookup", !.pubkey = session[s].auth, !.at = now]
        BY <3>11, Zenon DEF InviteBegin
      <4>2. op'[s].pc = "invite_lookup"
        BY <4>1, Zenon DEF Idle
      <4> QED
        BY <4>2, Zenon DEF Late, JoinPcs
    <3>7. CASE InviteLookup(s) \/ LeaveLookup(s)
      <4>1. Reply(s) \/ op'[s].pc \in {"invite_insert", "leave_upsert"}
        BY <1>0, <3>7, ZenonT(30) DEF InviteLookup, LeaveLookup, Continue, Op
      <4> QED
        BY <3>1, <4>1, Zenon DEF Late, JoinPcs
    <3>8. ASSUME NEW p \in Clients, LeaveBegin(s, p)  PROVE Goal
      <4>1. op'[s] = [Idle EXCEPT !.pc = "leave_lookup", !.pubkey = p, !.at = now]
        BY <3>8, Zenon DEF LeaveBegin
      <4>2. op'[s].pc = "leave_lookup"
        BY <4>1, Zenon DEF Idle
      <4> QED
        BY <4>2, Zenon DEF Late, JoinPcs
    <3>12. ASSUME NEW p \in Clients, NEW c \in Codes, JoinBegin(s, p, c)  PROVE Goal
      <4>1. op'[s] = [Idle EXCEPT !.pc = "join_invite", !.pubkey = p, !.code = c, !.at = now]
        BY <3>12, Zenon DEF JoinBegin
      <4>2. op'[s].pc = "join_invite"
        BY <4>1, Zenon DEF Idle
      <4> QED
        BY <4>2, Zenon DEF Late, JoinPcs
    <3>9. CASE \/ SeedUpsert(s) \/ JoinInvalid(s) \/ JoinDelete(s) \/ LeaveUpsert(s) \/ InviteInsert(s)
               \/ StorageError(s)
      BY <3>1, <3>9, Zenon DEF SeedUpsert, JoinInvalid, JoinDelete, LeaveUpsert, InviteInsert, StorageError
    <3> QED
      BY <1>5, <2>2, <3>2, <3>3, <3>4, <3>5, <3>6, <3>7, <3>8, <3>9, <3>10, <3>11, <3>12, Zenon
         DEF SessionStep
  <2> QED
    BY <2>1, <2>2, Zenon
<1> QED
  BY <1>1, <1>2, <1>3, <1>4, <1>5, Zenon DEF Step

\* Only the deletion of an invite welcomes anybody.
LEMMA WelcomedBy ==
    ASSUME Step \/ UNCHANGED vars
    PROVE  \/ welcomed' = welcomed
           \/ \E v \in Sessions : JoinDelete(v)
<1>1. ASSUME NEW r \in Requests, ControlStep(r)  PROVE welcomed' = welcomed
  BY <1>1, Zenon DEF ControlStep, CreateBegin, CreateLookup, CreateTenant, CreateOwner, CreateFail, history
<1>2. ASSUME NEW v \in Sessions, SessionStep(v), ~JoinDelete(v)  PROVE welcomed' = welcomed
  BY <1>2, Zenon DEF SessionStep, Connect, SeedLookup, SeedUpsert, Disconnect, Auth, LeaveBegin,
     JoinBegin, JoinInvite, JoinInvalid, JoinLookup, JoinUpsert, LeaveLookup,
     LeaveUpsert, InviteBegin, InviteLookup, InviteInsert, StorageError, history
<1>3. CASE Crash \/ Tick \/ UNCHANGED vars
  BY <1>3, Zenon DEF Crash, Tick, vars, history
<1> QED
  BY <1>1, <1>2, <1>3, Zenon DEF Step

LEMMA TogetherStep == MembershipInv /\ MembershipInv' /\ TogetherInv /\ [Next]_vars => TogetherInv'
<1> SUFFICES ASSUME MembershipInv, MembershipInv', TogetherInv, [Next]_vars  PROVE TogetherInv'
  OBVIOUS
<1>1. /\ op \in [Sessions -> Op] /\ SpentInvitesAreGone /\ HandlersOK
      /\ welcomed \subseteq Codes \X Clients /\ welcomed' \subseteq Codes \X Clients
  BY Zenon DEF MembershipInv, TypeOK
<1>2. Step \/ UNCHANGED vars
  BY Zenon DEF Next
<1>3. together \subseteq together'
  BY Zenon DEF Next, vars
<1>4. ASSUME NEW s \in Sessions, op[s].pc \in JoinPcs  PROVE op[s].code \in Codes /\ op[s].pubkey \in Clients
  BY <1>1, <1>4, Zenon DEF HandlersOK, HandlerOK
<1>5. ASSUME NEW s \in Sessions, op'[s].pc \in JoinPcs  PROVE op'[s].code \in Codes /\ op'[s].pubkey \in Clients
  <2>1. HandlerOK(issued', claims', memberships', op'[s], session'[s].tenant)
    BY Zenon DEF MembershipInv, HandlersOK
  <2> QED
    BY <1>5, <2>1, Zenon DEF HandlerOK
<1>6. ASSUME NEW s \in Sessions, NEW v \in Sessions, op'[s].pc \in JoinPcs, op'[v].pc \in JoinPcs,
             op'[s].code = op'[v].code, op'[s].pubkey # op'[v].pubkey
      PROVE  op'[s].code \in together'
  <2>1. CASE Step /\ together' = together \union {c \in Codes : Contended(c)'}
    BY <1>5, <1>6, <2>1, Zenon DEF Contended, Joining
  <2>2. CASE UNCHANGED vars
    BY <1>6, <2>2, Zenon DEF vars, TogetherInv
  <2> QED
    BY <2>1, <2>2, Zenon DEF Next
<1>7. ASSUME NEW v \in Sessions, JoinDelete(v)
      PROVE  /\ welcomed' = welcomed \union {<<op[v].code, op[v].pubkey>>}
             /\ op[v].pc \in Late /\ op'[v].pc \notin Late
             /\ \A s \in Sessions : s # v => op'[s] = op[s]
  BY <1>1, <1>7, Zenon DEF JoinDelete, IsAt, Reply, Idle, Late, JoinPcs
<1>8. ASSUME NEW s \in Sessions, NEW p \in Clients, op'[s].pc \in Late,
             <<op'[s].code, p>> \in welcomed', p # op'[s].pubkey
      PROVE  op'[s].code \in together'
  <2>1. CASE welcomed' = welcomed
    <3>1. CASE op[s].pc \in Late /\ op'[s].code = op[s].code /\ op'[s].pubkey = op[s].pubkey
      BY <1>3, <1>8, <2>1, <3>1, Zenon DEF TogetherInv
    <3>2. CASE (\E i \in invites : i.code = op[s].code) /\ op'[s].code = op[s].code
      BY <1>1, <1>8, <2>1, <3>2, Zenon DEF SpentInvitesAreGone
    <3> QED
      BY <1>1, <1>2, <1>8, <3>1, <3>2, LateBefore, Zenon
  <2>2. ASSUME NEW v \in Sessions, JoinDelete(v)  PROVE op'[s].code \in together'
    <3>1. s # v /\ op'[s] = op[s]
      BY <1>7, <1>8, <2>2, Zenon
    <3>2. CASE <<op[s].code, p>> \in welcomed
      BY <1>3, <1>8, <3>1, <3>2, Zenon DEF TogetherInv
    <3>3. CASE op[s].code = op[v].code /\ p = op[v].pubkey
      <4>1. op[s].pc \in JoinPcs /\ op[v].pc \in JoinPcs
        BY <1>7, <1>8, <2>2, <3>1, Zenon DEF Late
      <4>2. op[s].code \in together
        BY <1>8, <3>1, <3>3, <4>1, Zenon DEF TogetherInv
      <4> QED
        BY <1>3, <3>1, <4>2, Zenon
    <3>4. <<op[s].code, p>> = <<op[v].code, op[v].pubkey>> => op[s].code = op[v].code /\ p = op[v].pubkey
      BY Zenon
    <3> QED
      BY <1>7, <1>8, <2>2, <3>1, <3>2, <3>3, <3>4, Zenon
  <2> QED
    BY <1>2, <2>1, <2>2, WelcomedBy, Zenon
<1>9. OneWelcomeUnlessTogether'
  <2>1. CASE welcomed' = welcomed
    BY <1>3, <2>1, Zenon DEF TogetherInv, OneWelcomeUnlessTogether
  <2>2. ASSUME NEW v \in Sessions, JoinDelete(v)  PROVE OneWelcomeUnlessTogether'
    <3> DEFINE new == <<op[v].code, op[v].pubkey>>
    <3>1. new[1] = op[v].code /\ new[2] = op[v].pubkey
      BY Zenon
    <3>2. ASSUME NEW w \in welcomed, w[1] = new[1], w # new  PROVE w[1] \in together
      <4>1. w = <<w[1], w[2]>> /\ w[2] \in Clients
        BY <1>1, <3>2
      <4>2. w[2] # op[v].pubkey
        BY <3>1, <3>2, <4>1, Zenon
      <4>3. <<op[v].code, w[2]>> \in welcomed
        BY <3>1, <3>2, <4>1, Zenon
      <4> QED
        BY <1>7, <2>2, <3>1, <3>2, <4>1, <4>2, <4>3, Zenon DEF TogetherInv
    <3> HIDE DEF new
    <3>3. welcomed' = welcomed \union {new}
      BY <1>7, <2>2, Zenon DEF new
    <3> QED
      BY <1>3, <3>2, <3>3, Zenon DEF TogetherInv, OneWelcomeUnlessTogether
  <2> QED
    BY <1>2, <2>1, <2>2, WelcomedBy, Zenon
<1> QED
  BY <1>6, <1>8, <1>9, Zenon DEF TogetherInv

\* An invite welcomes a second key only if the two joins were in flight together:
\* after a welcome nobody finds the invite any more.
THEOREM WelcomesAreSingle == Spec => []OneWelcomeUnlessTogether
<1>1. Init => TogetherInv
  <2> SUFFICES ASSUME Init  PROVE TogetherInv
    OBVIOUS
  <2>1. \A s \in Sessions : op[s].pc \notin JoinPcs
    BY Zenon DEF Init, Idle, JoinPcs
  <2>2. welcomed = {}
    BY Zenon DEF Init
  <2> QED
    BY <2>1, <2>2, Zenon DEF TogetherInv, OneWelcomeUnlessTogether
<1>2. MembershipInv /\ MembershipInv' /\ TogetherInv /\ [Next]_vars => TogetherInv'
  BY TogetherStep
<1>3. TogetherInv => OneWelcomeUnlessTogether
  BY Zenon DEF TogetherInv
<1> QED
  BY <1>1, <1>2, <1>3, MembershipInvariant, PTL DEF Spec
-----------------------------------------------------------------------------
\* Writing an active row admits its key, writing a row that is not revokes it.
LEMMA UpsertIsTableStep ==
    ASSUME MembershipInv, NEW t \in Tenants, NEW p \in Pubkeys, NEW row \in Row,
           upsert_membership(t, p, row),
           \/ row.status = "active" /\ (p \in Seeds(t) \/ Members(t) # {})
           \/ row.status = "left" /\ memberships[t][p] # NoRow
    PROVE  Table!TableNext
<1> DEFINE A == [u \in Tenants |-> {q \in Pubkeys : IsActive(memberships[u][q])}]
           K == [u \in Tenants |-> Members(u)]
           A2 == [u \in Tenants |-> {q \in Pubkeys : IsActive(memberships'[u][q])}]
           K2 == [u \in Tenants |-> {q \in Pubkeys : memberships'[u][q] # NoRow}]
<1>1. /\ memberships'[t][p] = row /\ row # NoRow
      /\ \A u \in Tenants, q \in Pubkeys :
            <<u, q>> # <<t, p>> => memberships'[u][q] = memberships[u][q]
  BY NoRowAssumption, Zenon DEF upsert_membership, MembershipInv, TypeOK
<1>2. CASE row.status = "active"
  <2>1. A2 = [A EXCEPT ![t] = @ \union {p}]
    <3>1. {q \in Pubkeys : IsActive(memberships'[t][q])}
            = {q \in Pubkeys : IsActive(memberships[t][q])} \union {p}
      BY <1>1, <1>2, Zenon DEF IsActive
    <3>2. ASSUME NEW u \in Tenants \ {t}
          PROVE  {q \in Pubkeys : IsActive(memberships'[u][q])} = {q \in Pubkeys : IsActive(memberships[u][q])}
      BY <1>1, Zenon
    <3> QED
      BY <3>1, <3>2, Zenon
  <2>2. K2 = [K EXCEPT ![t] = @ \union {p}]
    <3>1. {q \in Pubkeys : memberships'[t][q] # NoRow}
            = {q \in Pubkeys : memberships[t][q] # NoRow} \union {p}
      BY <1>1, Zenon
    <3>2. ASSUME NEW u \in Tenants \ {t}
          PROVE  {q \in Pubkeys : memberships'[u][q] # NoRow} = {q \in Pubkeys : memberships[u][q] # NoRow}
      BY <1>1, Zenon
    <3> QED
      BY <3>1, <3>2, Zenon DEF Members
  <2>3. p \in Seeds(t) \/ K[t] # {}
    BY <1>2, <1>1, Zenon
  <2> QED
    BY <2>1, <2>2, <2>3, Zenon DEF Table!TableNext, Table!Admit, Members
<1>3. CASE row.status = "left"
  <2>1. A2 = [A EXCEPT ![t] = @ \ {p}]
    <3>1. {q \in Pubkeys : IsActive(memberships'[t][q])}
            = {q \in Pubkeys : IsActive(memberships[t][q])} \ {p}
      BY <1>1, <1>3, Zenon DEF IsActive
    <3>2. ASSUME NEW u \in Tenants \ {t}
          PROVE  {q \in Pubkeys : IsActive(memberships'[u][q])} = {q \in Pubkeys : IsActive(memberships[u][q])}
      BY <1>1, Zenon
    <3> QED
      BY <3>1, <3>2, Zenon
  <2>2. K2 = K /\ p \in K[t]
    BY <1>1, <1>3, Zenon DEF Members
  <2> QED
    BY <2>1, <2>2, Zenon DEF Table!TableNext, Table!Revoke, Members
<1> QED
  BY <1>2, <1>3, Zenon

\* A step that writes no membership is a stutter of the table.
LEMMA NoTableStep ==
    ASSUME memberships' = memberships
    PROVE  UNCHANGED Table!tableVars
BY Zenon DEF Table!tableVars, Members, IsActive

\* Every step of the handlers is a step of the abstract table, or a stutter.
LEMMA StepRefines == MembershipInv /\ [Next]_vars => [Table!TableNext]_(Table!tableVars)
<1> SUFFICES ASSUME MembershipInv, [Next]_vars
             PROVE  Table!TableNext \/ UNCHANGED Table!tableVars
  OBVIOUS
<1>1. ASSUME NEW r \in Requests, ControlStep(r)
      PROVE  Table!TableNext \/ UNCHANGED Table!tableVars
  <2>1. CASE CreateOwner(r)
    <3>1. PICK row \in Row :
            upsert_membership(Host[r], Caller[r], row) /\ row.status = "active"
      BY <2>1, Literals, RowWritten DEF CreateOwner, MembershipInv, TypeOK
    <3>2. Host[r] \in Tenants /\ Caller[r] \in Pubkeys /\ Caller[r] \in Seeds(Host[r])
      BY ConstantsAssumption, Zenon DEF Pubkeys, Seeds
    <3> QED
      BY <3>1, <3>2, UpsertIsTableStep, Zenon
  <2>2. CASE ~CreateOwner(r)
    <3>1. memberships' = memberships
      BY <1>1, <2>2, Zenon DEF ControlStep, CreateBegin, CreateLookup, CreateTenant, CreateFail, tables
    <3> QED
      BY <3>1, NoTableStep, Zenon
  <2> QED
    BY <2>1, <2>2, Zenon
<1>2. ASSUME NEW s \in Sessions, SessionStep(s)
      PROVE  Table!TableNext \/ UNCHANGED Table!tableVars
  <2> DEFINE t == session[s].tenant
             p == op[s].pubkey
  <2>0. SessionFacts(s) /\ op[s] \in Op
    BY FactsOfSession, Zenon DEF SessionFacts
  <2>1. CASE SeedUpsert(s)
    <3>1. t \in Tenants /\ p \in Seeds(t) /\ p \in Pubkeys
      BY <2>0, <2>1, Zenon DEF SeedUpsert, IsAt, SessionFacts, HandlerOK, SeedPcs, Seeds
    <3>2. CreatedAt(op[s].existing, op[s].at) \in Time /\ op[s].at \in Time
      BY <2>0, Zenon DEF CreatedAt, Op, Row
    <3>3. PICK row \in Row : upsert_membership(t, p, row) /\ row.status = "active"
      <4> DEFINE new == [role |-> "owner", status |-> "active",
                created_at |-> CreatedAt(op[s].existing, op[s].at), updated_at |-> op[s].at]
      <4>1. upsert_membership(t, p, new)
        BY <2>1, Zenon DEF SeedUpsert
      <4>2. new \in Row /\ new.status = "active"
        BY <3>2, Literals, Zenon DEF Row
      <4> HIDE DEF new
      <4> QED
        BY <4>1, <4>2, Zenon
    <3> QED
      BY <3>1, <3>3, UpsertIsTableStep, Zenon
  <2>2. CASE JoinUpsert(s)
    <3>1. /\ t \in Tenants /\ p \in Pubkeys /\ op[s].role = "member"
          /\ Vouched(issued, op[s], t)
      BY <2>0, <2>2, Zenon DEF JoinUpsert, IsAt, SessionFacts, HandlerOK, JoinPcs
    <3>2. Members(t) # {}
      <4>1. PICK i \in issued : i.tenant = t
        BY <3>1, Zenon DEF Vouched
      <4> QED
        BY <4>1 DEF Members, MembershipInv, TablesOK, TypeOK, Invite
    <3>3. CreatedAt(op[s].existing, op[s].at) \in Time /\ op[s].at \in Time
      BY <2>0, Zenon DEF CreatedAt, Op, Row
    <3>4. PICK row \in Row : upsert_membership(t, p, row) /\ row.status = "active"
      <4> DEFINE new == [role |-> "member", status |-> "active",
                created_at |-> CreatedAt(op[s].existing, op[s].at), updated_at |-> op[s].at]
      <4>1. upsert_membership(t, p, new)
        BY <2>2, <3>1, Zenon DEF JoinUpsert
      <4>2. new \in Row /\ new.status = "active"
        BY <3>3, Literals, Zenon DEF Row
      <4> HIDE DEF new
      <4> QED
        BY <4>1, <4>2, Zenon
    <3> QED
      BY <3>1, <3>2, <3>4, UpsertIsTableStep, Zenon
  <2>3. CASE LeaveUpsert(s)
    <3>1. /\ t \in Tenants /\ p \in Pubkeys /\ op[s].existing \in Row
          /\ memberships[t][p] # NoRow /\ op[s].at \in Time
      BY <2>0, <2>3, Zenon DEF LeaveUpsert, IsAt, SessionFacts, HandlerOK, LeavePcs, Op
    <3>2. [op[s].existing EXCEPT !.status = "left", !.updated_at = op[s].at] \in Row
      BY <3>1, Zenon DEF Row
    <3>3. PICK row \in Row : upsert_membership(t, p, row) /\ row.status = "left"
      BY <2>3, <3>1, <3>2, Zenon DEF LeaveUpsert, Row
    <3> QED
      BY <3>1, <3>3, UpsertIsTableStep, Zenon
  <2>4. CASE ~(SeedUpsert(s) \/ JoinUpsert(s) \/ LeaveUpsert(s))
    <3>1. memberships' = memberships
      BY <1>2, <2>4, Zenon DEF SessionStep, Connect, SeedLookup, Disconnect, Auth, JoinBegin, JoinInvite,
         JoinInvalid, JoinLookup, JoinDelete, LeaveBegin, LeaveLookup, InviteBegin, InviteLookup,
         InviteInsert, StorageError, tables
    <3> QED
      BY <3>1, NoTableStep, Zenon
  <2> QED
    BY <2>1, <2>2, <2>3, <2>4, Zenon
<1>3. CASE Crash \/ Tick \/ UNCHANGED vars
  <2>1. memberships' = memberships
    BY <1>3, Zenon DEF Crash, Tick, vars, tables
  <2> QED
    BY <2>1, NoTableStep, Zenon
<1> QED
  BY <1>1, <1>2, <1>3, Zenon DEF Next, Step

\* The handlers of the relay and of the control plane, with all their awaits,
\* failures and restarts, implement the abstract membership table that the
\* session model is built on.
THEOREM TableRefinement == Spec => ImplementsTable
<1>1. Init => Table!TableInit
  BY DEF Init, Table!TableInit, Members, IsActive
<1> QED
  BY <1>1, MembershipInvariant, StepRefines, PTL DEF Spec, ImplementsTable, Table!TableSpec
=============================================================================
