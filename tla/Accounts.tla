------------------------------ MODULE Accounts ------------------------------
(***************************************************************************)
(* The auth service: signup, the owner's profile and its update, for one   *)
(* pubkey (rows of different pubkeys share nothing).                       *)
(*                                                                         *)
(* A handler awaits each Forgejo or database call, so the handlers of one  *)
(* pubkey's requests interleave between calls; there is no transaction.    *)
(* A request is one run of its handler.  A profile field holds the request *)
(* that gave it its value, or "default".  A call that fails, or a handler  *)
(* dropped because its client went away, ends the request where it is.     *)
(***************************************************************************)
EXTENDS Naturals, FiniteSets

CONSTANTS
    Requests,       \* requests the clients make
    Kind,           \* Kind[r]: "signup", "get" or "patch"
    Fields,         \* fields of a profile
    Sets,           \* Sets[r]: the fields a patch gives a value
    MaxRequests,    \* bound on the requests of a run
    MaxTime,        \* bound on the clock
    MaxFaults       \* bound on failed calls and dropped handlers

ASSUME AccountsAssumption ==
    /\ Kind \in [Requests -> {"signup", "get", "patch"}]
    /\ Sets \in [Requests -> SUBSET Fields]
    /\ "default" \notin Requests
    /\ MaxRequests \in Nat
    /\ MaxTime \in Nat
    /\ MaxFaults \in Nat

VARIABLES
    now,            \* the service's clock, in seconds
    forgejo,        \* the Forgejo user exists
    account,        \* the gittree_account row exists
    profile,        \* the gittree_profile row, or NoProfile
    task,           \* each request's handler
    faults,         \* failed calls and dropped handlers so far
    wrote           \* history: requests whose profile write was applied

vars == <<now, forgejo, account, profile, task, faults, wrote>>

NoProfile == [fields |-> "none"]
Values == Requests \union {"default"}
Profiles == [fields : [Fields -> Values], created_at : Nat, updated_at : Nat]

\* A request that was answered, with an error or not.
Answers == {"existing", "created", "ok", "bad_request", "refused", "error"}
Awaits == {"account_read", "user_read", "user_create", "account_write",
           "profile_read", "repair", "profile_write"}

Init ==
    /\ now = 0
    /\ forgejo = FALSE
    /\ account = FALSE
    /\ profile = NoProfile
    /\ task = [r \in Requests |-> [pc |-> "idle", now |-> 0, row |-> NoProfile, after |-> {}]]
    /\ faults = 0
    /\ wrote = {}

At(r, pc) == task[r].pc = pc
Goto(r, pc) == task' = [task EXCEPT ![r].pc = pc]
Carry(r, pc, row) == task' = [task EXCEPT ![r].pc = pc, ![r].row = row]
Begun(r) == ~At(r, "idle")
Answered == {r \in Requests : task[r].pc \in Answers}

\* The private profile of a new account: its display name is the user name.
NewProfile(t) == [fields |-> [f \in Fields |-> "default"], created_at |-> t, updated_at |-> t]

\* Mutant: the update starts from a new row instead of the one that was read.
apply_profile_update_fresh(r, row) ==
    [fields |-> [f \in Fields |-> IF f \in Sets[r] THEN r ELSE "default"],
     created_at |-> row.created_at, updated_at |-> task[r].now]

apply_profile_update(r, row) ==
    [fields |-> [f \in Fields |-> IF f \in Sets[r] THEN r ELSE row.fields[f]],
     created_at |-> row.created_at, updated_at |-> task[r].now]

\* Mutant: the dates may not be equal.
valid_strict(row) == row.updated_at > row.created_at

\* ProfileRecord::new refuses an updated_at before created_at.
valid(row) == row.updated_at >= row.created_at

(***************************************************************************)
(* A request arrives.  Its clock is read once, before the first await.     *)
(***************************************************************************)
Begin(r) ==
    /\ At(r, "idle")
    /\ Cardinality({q \in Requests : Begun(q)}) < MaxRequests
    /\ task' = [task EXCEPT ![r] = [pc |-> "account_read", now |-> now,
                                    row |-> NoProfile, after |-> Answered]]
    /\ UNCHANGED <<now, forgejo, account, profile, faults, wrote>>

\* account_by_pubkey.  An existing account ends a signup at once, whether or not it
\* has a profile; the profile routes refuse a pubkey without an account.
ReadAccount(r) ==
    /\ At(r, "account_read")
    /\ Goto(r, IF Kind[r] = "signup" THEN IF account THEN "existing" ELSE "user_read"
               ELSE IF account THEN "profile_read" ELSE "bad_request")
    /\ UNCHANGED <<now, forgejo, account, profile, faults, wrote>>

(***************************************************************************)
(* Signup: ensure_user, upsert_account, upsert_profile.                    *)
(***************************************************************************)
GetUser(r) ==
    /\ At(r, "user_read")
    /\ Goto(r, IF forgejo THEN "account_write" ELSE "user_create")
    /\ UNCHANGED <<now, forgejo, account, profile, faults, wrote>>

\* Forgejo refuses a name that is taken: the signup that lost the race fails.
CreateUser(r) ==
    /\ At(r, "user_create")
    /\ Goto(r, IF forgejo THEN "error" ELSE "account_write")
    /\ forgejo' = TRUE
    /\ UNCHANGED <<now, account, profile, faults, wrote>>

\* Mutant: the account is answered for before its profile is stored.
UpsertAccountOnly(r) ==
    /\ At(r, "account_write")
    /\ account' = TRUE
    /\ Goto(r, "created")
    /\ UNCHANGED <<now, forgejo, profile, faults, wrote>>

UpsertAccount(r) ==
    /\ At(r, "account_write")
    /\ account' = TRUE
    /\ Carry(r, "profile_write", NewProfile(task[r].now))
    /\ UNCHANGED <<now, forgejo, profile, faults, wrote>>

(***************************************************************************)
(* upsert_profile: a conflict keeps the stored created_at, and the table   *)
(* refuses a row whose updated_at is before it.                            *)
(***************************************************************************)
\* The row the upsert leaves.
Merged(row) ==
    IF profile = NoProfile THEN row ELSE [row EXCEPT !.created_at = profile.created_at]

\* The handler goes on at pc, keeping a row of its own.
Upsert(r, row, pc, kept) ==
    IF valid(Merged(row))
    THEN /\ profile' = Merged(row)
         /\ wrote' = wrote \union {r}
         /\ Carry(r, pc, kept)
    ELSE Goto(r, "refused") /\ UNCHANGED <<profile, wrote>>

\* The end of a handler that has the row: a get answers it, a patch writes its
\* update of it.
pc_after_ensure(r, row) ==
    IF Kind[r] = "get" THEN "ok"
    ELSE IF valid(apply_profile_update(r, row)) THEN "profile_write" ELSE "refused"

row_after_ensure(r, row) ==
    IF Kind[r] = "get" THEN row ELSE apply_profile_update(r, row)

\* Mutant: a missing profile is answered for, not repaired.
ReadProfileOnly(r) ==
    /\ At(r, "profile_read")
    /\ IF profile = NoProfile THEN Goto(r, "bad_request")
       ELSE Carry(r, pc_after_ensure(r, profile), row_after_ensure(r, profile))
    /\ UNCHANGED <<now, forgejo, account, profile, faults, wrote>>

\* ensure_profile, its read.
ReadProfile(r) ==
    /\ At(r, "profile_read")
    /\ IF profile = NoProfile THEN Goto(r, "repair")
       ELSE Carry(r, pc_after_ensure(r, profile), row_after_ensure(r, profile))
    /\ UNCHANGED <<now, forgejo, account, profile, faults, wrote>>

\* ensure_profile, its write for an account without a profile.
Repair(r) ==
    /\ At(r, "repair")
    /\ LET row == NewProfile(task[r].now)
       IN  Upsert(r, row, pc_after_ensure(r, row), row_after_ensure(r, row))
    /\ UNCHANGED <<now, forgejo, account, faults>>

\* The last call of a signup and of a patch.
WriteProfile(r) ==
    /\ At(r, "profile_write")
    /\ Upsert(r, task[r].row, IF Kind[r] = "signup" THEN "created" ELSE "ok", task[r].row)
    /\ UNCHANGED <<now, forgejo, account, faults>>

\* A call fails, or the handler is dropped at an await.
Abandon(r) ==
    /\ task[r].pc \in Awaits
    /\ faults < MaxFaults
    /\ faults' = faults + 1
    /\ Goto(r, "error")
    /\ UNCHANGED <<now, forgejo, account, profile, wrote>>

Tick ==
    /\ now < MaxTime
    /\ now' = now + 1
    /\ UNCHANGED <<forgejo, account, profile, task, faults, wrote>>

Step(r) ==
    \/ ReadAccount(r) \/ GetUser(r) \/ CreateUser(r) \/ UpsertAccount(r)
    \/ ReadProfile(r) \/ Repair(r) \/ WriteProfile(r)

Next ==
    \/ \E r \in Requests : Begin(r) \/ Step(r) \/ Abandon(r)
    \/ Tick

Spec == Init /\ [][Next]_vars

\* A handler that has begun runs on: tokio polls it whenever its call completes.
FairSpec == Spec /\ \A r \in Requests : WF_vars(Step(r))

(***************************************************************************)
(* Properties                                                              *)
(***************************************************************************)
Handlers == [pc : Awaits \union Answers \union {"idle"}, now : 0..MaxTime,
             row : Profiles \union {NoProfile}, after : SUBSET Requests]

\* Type invariant.
TypeOK ==
    /\ now \in 0..MaxTime
    /\ forgejo \in BOOLEAN
    /\ account \in BOOLEAN
    /\ profile \in Profiles \union {NoProfile}
    /\ task \in [Requests -> Handlers]
    /\ faults \in 0..MaxFaults
    /\ wrote \subseteq Requests

\* Two requests overlap when neither was answered before the other began.
Overlap(p, q) ==
    p # q /\ Begun(p) /\ Begun(q) /\ p \notin task[q].after /\ q \notin task[p].after

\* A signup stores the Forgejo user, the account and the profile in that order: a
\* profile belongs to an account, an account to a Forgejo user, and a request answered
\* with a profile leaves one stored, whatever fails or interleaves on the way.
RowsAreRooted ==
    /\ profile # NoProfile => account
    /\ account => forgejo
    /\ \A r \in Requests : task[r].pc \in {"created", "ok"} => profile # NoProfile

\* signup_handler stores the account before the profile and a later signup does not
\* look at the profile: an account lacks its profile only while a signup is about to
\* store it, or after a failed call.
ProfilelessByFaults ==
    account /\ profile = NoProfile =>
        faults > 0 \/ \E r \in Requests : Kind[r] = "signup" /\ At(r, "profile_write")

\* profile_patch_handler writes the whole row it read back: a value a patch stored
\* is replaced only by a later patch of that field, or lost to a writer that
\* overlapped the patch (another patch, or a signup or repair storing a new row).
LostOnlyByOverlap ==
    \A p \in wrote : Kind[p] = "patch" /\ At(p, "ok") =>
        \A f \in Sets[p] : LET w == profile.fields[f] IN
            \/ w = p
            \/ w \in Requests /\ p \in task[w].after
            \/ \E q \in wrote : Overlap(p, q)

\* ProfileRecord::new and the table's CHECK compare updated_at with created_at: a
\* write is refused for its date only when an overlapping request created the row.
RefusedByOverlap ==
    \A r \in Requests : At(r, "refused") =>
        \E q \in wrote : Overlap(r, q) /\ task[q].now = profile.created_at
                                     /\ task[q].now > task[r].now

\* A get or patch that repairs the profile answers its own created_at: the answer
\* differs from the stored date only when an overlapping request created the row.
AnsweredDateIsStored ==
    \A r \in Requests : At(r, "ok") =>
        \/ task[r].row.created_at = profile.created_at
        \/ \E q \in wrote : Overlap(r, q) /\ task[q].now = profile.created_at

\* ensure_profile repairs an account whose signup stopped half-way: the owner's next
\* read or patch that gets past the account ends with a profile stored, unless one of
\* its own calls fails.
RepairedByOwner ==
    \A r \in Requests : At(r, "profile_read") ~> (profile # NoProfile \/ At(r, "error"))

\* upsert_profile and profile_patch_handler date a row by clocks read before their calls:
\* a stored row keeps its created_at for good, its updated_at is never before it, and
\* goes back only past a request that overlaps the one that writes.
DatesAreKept ==
    [][profile # NoProfile =>
          /\ profile' # NoProfile /\ profile'.created_at = profile.created_at
          /\ profile'.updated_at >= profile'.created_at
          /\ profile'.updated_at < profile.updated_at =>
                \E r \in Requests, q \in wrote :
                    task'[r] # task[r] /\ Overlap(r, q) /\ task[q].now = profile.updated_at]_vars
=============================================================================
