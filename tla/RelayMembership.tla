--------------------------- MODULE RelayMembership ---------------------------
(***************************************************************************)
(* Tenants, memberships and invites of the relay: the control plane's      *)
(* create_tenant_handler, and the handlers of the relay sessions that      *)
(* write the relay_membership and relay_invite tables.                     *)
(*                                                                         *)
(* Every database call of a handler is one atomic step; between two calls  *)
(* the handler is suspended at an await and other sessions run.  What a    *)
(* handler read before an await is kept in its op record and used after.   *)
(* A handler whose call fails gives up with a notice (StorageError); a     *)
(* relay process that dies drops all its handlers (Crash).                 *)
(***************************************************************************)
EXTENDS Integers, FiniteSets

CONSTANTS
    Tenants,     \* hosts; a tenant's id is its normalised host
    Clients,     \* public keys of people
    Codes,       \* invite codes the relay may draw (random in the code)
    Sessions,    \* websocket connections
    Requests,    \* POST /v1/relay/tenants requests
    Host,        \* Requests -> Tenants: the host a request names
    Caller,      \* Requests -> Clients: the key that signed the request
    RelayKey,    \* Requests -> the relay key pair a request draws
    InviteTTL,   \* INVITE_TTL_SECS, in ticks of the clock
    MaxTime,     \* bound on the clock
    NoKey, NoTenant, NoCode, NoRow

RelayKeys == {RelayKey[r] : r \in Requests}
Pubkeys == Clients \union RelayKeys

ASSUME ConstantsAssumption ==
    /\ Host \in [Requests -> Tenants]
    /\ Caller \in [Requests -> Clients]
    /\ Clients \intersect RelayKeys = {}
    /\ NoKey \notin Pubkeys
    /\ NoTenant \notin Tenants
    /\ NoCode \notin Codes
    /\ InviteTTL \in Nat
    /\ MaxTime \in Nat

Time == 0 .. MaxTime

Roles == {"owner", "member"}

Row == [role : Roles, status : {"active", "left"},
        created_at : Time, updated_at : Time]

ASSUME NoRowAssumption == NoRow \notin Row

Invite == [tenant : Tenants, code : Codes, role : Roles,
           inviter : Pubkeys, expires_at : Nat]

VARIABLES
    tenants,      \* relay_tenant: host -> relay_pubkey, or NoKey
    memberships,  \* relay_membership: tenant, pubkey -> row, or NoRow
    invites,      \* relay_invite
    now,          \* the wall clock
    session,      \* per connection: the tenant it serves, the key it proved
    op,           \* per connection: the handler in flight
    request,      \* per create_tenant request: where its handler is
    issued,       \* history: every invite ever inserted
    claims,       \* history: <<code, pubkey>> of every join that wrote a row
    welcomed,     \* history: <<code, pubkey>> of every join answered welcome
    together      \* history: codes for which two keys' joins were in flight at once

vars == <<tenants, memberships, invites, now, session, op, request,
          issued, claims, welcomed, together>>
tables == <<tenants, memberships, invites>>
history == <<issued, claims, welcomed>>

(***************************************************************************)
(* A handler in flight: the call it is about to make, and what it carries. *)
(***************************************************************************)
Idle == [pc |-> "idle", pubkey |-> NoKey, code |-> NoCode, at |-> 0,
         role |-> "member", existing |-> NoRow]

SeedPcs == {"seed_lookup", "seed_upsert"}
JoinPcs == {"join_invite", "join_lookup", "join_upsert", "join_delete"}
LeavePcs == {"leave_lookup", "leave_upsert"}
InvitePcs == {"invite_lookup", "invite_insert"}

Pcs == {"idle"} \union SeedPcs \union JoinPcs \union LeavePcs \union InvitePcs

Op == [pc : Pcs,
       pubkey : Pubkeys \union {NoKey}, code : Codes \union {NoCode}, at : Time,
       role : Roles, existing : Row \union {NoRow}]

RequestPcs == {"new", "lookup", "upsert_tenant", "upsert_owner", "created", "refused", "failed"}

Init ==
    /\ tenants = [t \in Tenants |-> NoKey]
    /\ memberships = [t \in Tenants |-> [p \in Pubkeys |-> NoRow]]
    /\ invites = {}
    /\ now = 0
    /\ session = [s \in Sessions |-> [tenant |-> NoTenant, auth |-> NoKey]]
    /\ op = [s \in Sessions |-> Idle]
    /\ request = [r \in Requests |-> [pc |-> "new", at |-> 0]]
    /\ issued = {}
    /\ claims = {}
    /\ welcomed = {}
    /\ together = {}

(***************************************************************************)
(* Database calls shared by the handlers.                                  *)
(***************************************************************************)
upsert_membership(t, p, row) ==
    memberships' = [memberships EXCEPT ![t][p] = row]

IsActive(row) == row # NoRow /\ row.status = "active"

CreatedAt(existing, default) ==
    IF existing = NoRow THEN default ELSE existing.created_at

\* Mutant: the query forgets the tenant.
invite_by_code_any_tenant(t, c) == {i \in invites : i.code = c}

invite_by_code(t, c) == {i \in invites : i.tenant = t /\ i.code = c}

Continue(s, pc) == op' = [op EXCEPT ![s].pc = pc]
Reply(s) == op' = [op EXCEPT ![s] = Idle]
IsAt(s, pc) == op[s].pc = pc

(***************************************************************************)
(* The control plane's create_tenant_handler.  The request's signature and *)
(* body are checked before anything is read; a refused one changes nothing.*)
(***************************************************************************)
CreateBegin(r) ==
    /\ request[r].pc = "new"
    /\ request' = [request EXCEPT ![r] = [pc |-> "lookup", at |-> now]]
    /\ UNCHANGED <<tables, now, session, op, history>>

CreateLookup(r) ==
    /\ request[r].pc = "lookup"
    /\ request' = [request EXCEPT ![r].pc =
           IF tenants[Host[r]] = NoKey THEN "upsert_tenant" ELSE "refused"]
    /\ UNCHANGED <<tables, now, session, op, history>>

CreateTenant(r) ==
    /\ request[r].pc = "upsert_tenant"
    /\ tenants' = [tenants EXCEPT ![Host[r]] = RelayKey[r]]
    /\ request' = [request EXCEPT ![r].pc = "upsert_owner"]
    /\ UNCHANGED <<memberships, invites, now, session, op, history>>

CreateOwner(r) ==
    /\ request[r].pc = "upsert_owner"
    /\ upsert_membership(Host[r], Caller[r],
           [role |-> "owner", status |-> "active",
            created_at |-> request[r].at, updated_at |-> request[r].at])
    /\ request' = [request EXCEPT ![r].pc = "created"]
    /\ UNCHANGED <<tenants, invites, now, session, op, history>>

\* One of the handler's calls fails, or the control process stops.
CreateFail(r) ==
    /\ request[r].pc \in {"lookup", "upsert_tenant", "upsert_owner"}
    /\ request' = [request EXCEPT ![r].pc = "failed"]
    /\ UNCHANGED <<tables, now, session, op, history>>

(***************************************************************************)
(* Connecting: the host is resolved to a tenant, an unknown one is a 404;  *)
(* seed_owner_membership then writes the row of the tenant's relay key.    *)
(***************************************************************************)
Connect(s, t) ==
    /\ IsAt(s, "idle")
    /\ session[s].tenant = NoTenant
    /\ tenants[t] # NoKey
    /\ session' = [session EXCEPT ![s].tenant = t]
    /\ op' = [op EXCEPT ![s] = [Idle EXCEPT !.pc = "seed_lookup", !.pubkey = tenants[t]]]
    /\ UNCHANGED <<tables, now, request, history>>

SeedLookup(s) ==
    /\ IsAt(s, "seed_lookup")
    /\ op' = [op EXCEPT ![s].pc = "seed_upsert", ![s].at = now,
           ![s].existing = memberships[session[s].tenant][op[s].pubkey]]
    /\ UNCHANGED <<tables, now, session, request, history>>

SeedUpsert(s) ==
    /\ IsAt(s, "seed_upsert")
    /\ upsert_membership(session[s].tenant, op[s].pubkey,
           [role |-> "owner", status |-> "active",
            created_at |-> CreatedAt(op[s].existing, op[s].at), updated_at |-> op[s].at])
    /\ Reply(s)
    /\ UNCHANGED <<tenants, invites, now, session, request, history>>

Disconnect(s) ==
    /\ IsAt(s, "idle")
    /\ session[s].tenant # NoTenant
    /\ session' = [session EXCEPT ![s] = [tenant |-> NoTenant, auth |-> NoKey]]
    /\ UNCHANGED <<tables, now, op, request, history>>

\* AUTH: a client proves a key of its own; a later AUTH replaces the key.
Auth(s, p) ==
    /\ IsAt(s, "idle")
    /\ session[s].tenant # NoTenant
    /\ session' = [session EXCEPT ![s].auth = p]
    /\ UNCHANGED <<tables, now, op, request, history>>

(***************************************************************************)
(* EVENT with a join request: handle_membership_event, NIP43_JOIN_KIND.    *)
(* The clock is read once, before the first call.                          *)
(***************************************************************************)
JoinBegin(s, p, c) ==
    /\ IsAt(s, "idle")
    /\ session[s].tenant # NoTenant
    /\ op' = [op EXCEPT ![s] = [Idle EXCEPT !.pc = "join_invite", !.pubkey = p,
                                            !.code = c, !.at = now]]
    /\ UNCHANGED <<tables, now, session, request, history>>

\* Mutant: the expiry check is dropped.
ClaimableForever(s, i) == TRUE

Claimable(s, i) == i.expires_at >= op[s].at

\* Mutant: a missing invite is not noticed.
JoinInviteUnchecked(s) ==
    /\ IsAt(s, "join_invite")
    /\ Continue(s, "join_lookup")
    /\ UNCHANGED <<tables, now, session, request, history>>

JoinInvite(s) ==
    /\ IsAt(s, "join_invite")
    /\ \E i \in invite_by_code(session[s].tenant, op[s].code) :
          /\ Claimable(s, i)
          /\ op' = [op EXCEPT ![s].pc = "join_lookup", ![s].role = i.role]
    /\ UNCHANGED <<tables, now, session, request, history>>

\* No such code, or an expired one: the join is answered OK false.
JoinInvalid(s) ==
    /\ IsAt(s, "join_invite")
    /\ \A i \in invite_by_code(session[s].tenant, op[s].code) : ~Claimable(s, i)
    /\ Reply(s)
    /\ UNCHANGED <<tables, now, session, request, history>>

\* A member already active is answered "duplicate" and the invite is kept.
JoinLookup(s) ==
    LET row == memberships[session[s].tenant][op[s].pubkey] IN
    /\ IsAt(s, "join_lookup")
    /\ IF IsActive(row) THEN Reply(s)
       ELSE op' = [op EXCEPT ![s].pc = "join_upsert", ![s].existing = row]
    /\ UNCHANGED <<tables, now, session, request, history>>

JoinUpsert(s) ==
    /\ IsAt(s, "join_upsert")
    /\ upsert_membership(session[s].tenant, op[s].pubkey,
           [role |-> op[s].role, status |-> "active",
            created_at |-> CreatedAt(op[s].existing, op[s].at), updated_at |-> op[s].at])
    /\ claims' = claims \union {<<op[s].code, op[s].pubkey>>}
    /\ Continue(s, "join_delete")
    /\ UNCHANGED <<tenants, invites, now, session, request, issued, welcomed>>

\* Mutant: the invite is not deleted.
JoinDeleteForgotten(s) ==
    /\ IsAt(s, "join_delete")
    /\ welcomed' = welcomed \union {<<op[s].code, op[s].pubkey>>}
    /\ Reply(s)
    /\ UNCHANGED <<tenants, memberships, invites, now, session, request, issued, claims>>

JoinDelete(s) ==
    /\ IsAt(s, "join_delete")
    /\ invites' = invites \ invite_by_code(session[s].tenant, op[s].code)
    /\ welcomed' = welcomed \union {<<op[s].code, op[s].pubkey>>}
    /\ Reply(s)
    /\ UNCHANGED <<tenants, memberships, now, session, request, issued, claims>>

(***************************************************************************)
(* EVENT with a leave request: the row that was read is written back.      *)
(***************************************************************************)
LeaveBegin(s, p) ==
    /\ IsAt(s, "idle")
    /\ session[s].tenant # NoTenant
    /\ op' = [op EXCEPT ![s] = [Idle EXCEPT !.pc = "leave_lookup", !.pubkey = p, !.at = now]]
    /\ UNCHANGED <<tables, now, session, request, history>>

LeaveLookup(s) ==
    LET row == memberships[session[s].tenant][op[s].pubkey] IN
    /\ IsAt(s, "leave_lookup")
    /\ IF IsActive(row) THEN op' = [op EXCEPT ![s].pc = "leave_upsert", ![s].existing = row]
       ELSE Reply(s)
    /\ UNCHANGED <<tables, now, session, request, history>>

LeaveUpsert(s) ==
    /\ IsAt(s, "leave_upsert")
    /\ upsert_membership(session[s].tenant, op[s].pubkey,
           [op[s].existing EXCEPT !.status = "left", !.updated_at = op[s].at])
    /\ Reply(s)
    /\ UNCHANGED <<tenants, invites, now, session, request, history>>

(***************************************************************************)
(* REQ naming NIP43_INVITE_KIND: build_invite_event issues a new invite to *)
(* the authenticated member; its code is drawn at random, so it is fresh.  *)
(***************************************************************************)
InviteBegin(s) ==
    /\ IsAt(s, "idle")
    /\ session[s].tenant # NoTenant
    /\ session[s].auth # NoKey
    /\ op' = [op EXCEPT ![s] = [Idle EXCEPT !.pc = "invite_lookup",
                                            !.pubkey = session[s].auth, !.at = now]]
    /\ UNCHANGED <<tables, now, session, request, history>>

InviteLookup(s) ==
    /\ IsAt(s, "invite_lookup")
    /\ IF IsActive(memberships[session[s].tenant][op[s].pubkey])
       THEN Continue(s, "invite_insert")
       ELSE Reply(s)
    /\ UNCHANGED <<tables, now, session, request, history>>

generate_invite_code == Codes \ {i.code : i \in issued}

\* Mutant: the invite passes on the inviter's own role.
InviteInsertOwnRole(s) ==
    /\ IsAt(s, "invite_insert")
    /\ \E c \in generate_invite_code :
          LET i == [tenant |-> session[s].tenant, code |-> c,
                    role |-> memberships[session[s].tenant][op[s].pubkey].role,
                    inviter |-> op[s].pubkey, expires_at |-> op[s].at + InviteTTL]
          IN  /\ invites' = invites \union {i}
              /\ issued' = issued \union {i}
    /\ Reply(s)
    /\ UNCHANGED <<tenants, memberships, now, session, request, claims, welcomed>>

InviteInsert(s) ==
    /\ IsAt(s, "invite_insert")
    /\ \E c \in generate_invite_code :
          LET i == [tenant |-> session[s].tenant, code |-> c, role |-> "member",
                    inviter |-> op[s].pubkey, expires_at |-> op[s].at + InviteTTL]
          IN  /\ invites' = invites \union {i}
              /\ issued' = issued \union {i}
    /\ Reply(s)
    /\ UNCHANGED <<tenants, memberships, now, session, request, claims, welcomed>>

(***************************************************************************)
(* The environment: a database call that fails, a relay process that dies, *)
(* the clock.                                                              *)
(***************************************************************************)
StorageError(s) ==
    /\ op[s].pc # "idle"
    /\ Reply(s)
    /\ UNCHANGED <<tables, now, session, request, history>>

Crash ==
    /\ \E s \in Sessions : session[s].tenant # NoTenant
    /\ session' = [s \in Sessions |-> [tenant |-> NoTenant, auth |-> NoKey]]
    /\ op' = [s \in Sessions |-> Idle]
    /\ UNCHANGED <<tables, now, request, history>>

Tick ==
    /\ now < MaxTime
    /\ now' = now + 1
    /\ UNCHANGED <<tables, session, op, request, history>>

ControlStep(r) ==
    \/ CreateBegin(r) \/ CreateLookup(r) \/ CreateTenant(r)
    \/ CreateOwner(r) \/ CreateFail(r)

SessionStep(s) ==
    \/ \E t \in Tenants : Connect(s, t)
    \/ SeedLookup(s) \/ SeedUpsert(s) \/ Disconnect(s)
    \/ \E p \in Clients : Auth(s, p) \/ LeaveBegin(s, p)
    \/ \E p \in Clients, c \in Codes : JoinBegin(s, p, c)
    \/ JoinInvite(s) \/ JoinInvalid(s) \/ JoinLookup(s) \/ JoinUpsert(s) \/ JoinDelete(s)
    \/ LeaveLookup(s) \/ LeaveUpsert(s)
    \/ InviteBegin(s) \/ InviteLookup(s) \/ InviteInsert(s)
    \/ StorageError(s)

Step ==
    \/ \E r \in Requests : ControlStep(r)
    \/ \E s \in Sessions : SessionStep(s)
    \/ Crash
    \/ Tick

Joining(c, p) == \E s \in Sessions : op[s].pc \in JoinPcs /\ op[s].code = c /\ op[s].pubkey = p

\* Two keys' joins with the code c are in flight.
Contended(c) == \E p, q \in Clients : p # q /\ Joining(c, p) /\ Joining(c, q)

Next == Step /\ together' = together \union {c \in Codes : Contended(c)'}

Spec == Init /\ [][Next]_vars
-----------------------------------------------------------------------------
(***************************************************************************)
(* Properties.                                                             *)
(***************************************************************************)
\* Every table, session and handler in flight has the shape the code gives it.
TypeOK ==
    /\ tenants \in [Tenants -> RelayKeys \union {NoKey}]
    /\ memberships \in [Tenants -> [Pubkeys -> Row \union {NoRow}]]
    /\ invites \subseteq issued
    /\ issued \subseteq Invite
    /\ now \in Time
    /\ session \in [Sessions -> [tenant : Tenants \union {NoTenant},
                                 auth : Clients \union {NoKey}]]
    /\ op \in [Sessions -> Op]
    /\ request \in [Requests -> [pc : RequestPcs, at : Time]]
    /\ claims \subseteq Codes \X Clients
    /\ welcomed \subseteq claims

Members(t) == {p \in Pubkeys : memberships[t][p] # NoRow}

\* The keys that creating or serving a tenant writes as its owners.
Seeds(t) == {p \in Pubkeys : \E r \in Requests :
                Host[r] = t /\ (p = Caller[r] \/ p = RelayKey[r])}

\* S holds the seeds of t and everybody who joined t on the word of a key in S.
ClosedUnderInvites(S, t) ==
    /\ Seeds(t) \subseteq S
    /\ \A i \in issued, p \in Clients :
          (i.tenant = t /\ <<i.code, p>> \in claims /\ i.inviter \in S) => p \in S

\* Every membership of a tenant goes back to the tenant's creation: following
\* the invites its members really issued, from inviter to inviter, ends at a
\* seeded owner.  No interleaving of joins, leaves, invites and restarts, and
\* no invite of another tenant, admits anybody else (handle_membership_event,
\* build_invite_event, seed_owner_membership).
RootedTrust ==
    \A t \in Tenants : \A S \in SUBSET Pubkeys :
        ClosedUnderInvites(S, t) => Members(t) \subseteq S

\* Whoever is not a seeded owner became a member of the tenant on a claimed
\* invite of that very tenant, no later than the invite expired
\* (session.rs, the expiry check of a join against the clock read at its start).
InvitedInTime ==
    \A t \in Tenants, p \in Pubkeys :
        (memberships[t][p] # NoRow /\ p \notin Seeds(t)) =>
            \E i \in issued :
                /\ i.tenant = t
                /\ <<i.code, p>> \in claims
                /\ memberships[t][p].created_at <= i.expires_at

\* Only the keys seeded by the control plane or by a connection are owners:
\* leaving, rejoining and concurrent joins never hand the role to a guest.
OwnersAreSeeded ==
    \A t \in Tenants, p \in Pubkeys :
        (memberships[t][p] # NoRow /\ memberships[t][p].role = "owner") => p \in Seeds(t)

\* A join answered "welcome" has consumed its invite for good: whatever else
\* was in flight, the code is not claimable again (delete_invite before the OK).
SpentInvitesAreGone ==
    \A i \in invites, p \in Clients : <<i.code, p>> \notin welcomed

\* A join looks its invite up, writes the membership and deletes the invite in three
\* calls: an invite welcomes two keys only if their joins were in flight together.
OneWelcomeUnlessTogether ==
    \A w, v \in welcomed : w[1] = v[1] /\ w # v => w[1] \in together

\* The handlers implement the abstract membership table.
Table == INSTANCE MembershipTable WITH
    SeedKeys <- [t \in Tenants |-> Seeds(t)],
    active <- [t \in Tenants |-> {p \in Pubkeys : IsActive(memberships[t][p])}],
    known <- [t \in Tenants |-> Members(t)]

ImplementsTable == Table!TableSpec
=============================================================================
