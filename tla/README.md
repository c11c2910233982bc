# A TLA+ verification of gittree

gittree serves git repositories that are announced, owned and controlled through
signed Nostr events (NIP-34), behind a multi-tenant Nostr relay. This directory
models the parts of it in which several tasks, processes or services touch the
same state, model-checks them with TLC on small instances and proves with TLAPS,
for every instance, all the safety properties, action properties and refinements
that the passing runs check. Only liveness is left to TLC alone.

Contents: [the system](#the-system) · [modules](#modules) · [runs](#runs) ·
[proofs](#proofs) · [observations](#observations) · [limits](#what-is-only-model-checked-and-what-is-not-modelled) · [how to run](#how-to-run)

## The system

### Parts

| part | source | state | operations |
|---|---|---|---|
| relay sessions | `services/relay/src/{session,driver,server,subscription}.rs` | connections, authenticated key, subscription registry, broadcast channel, two message channels | AUTH, REQ, COUNT, CLOSE, EVENT, live delivery, retention |
| relay membership | `session.rs`, `server.rs`, `storage/src/relay_membership.rs` | `relay_membership`, `relay_invite` | join, leave, invite (NIP-43), owner seeding |
| relay tenants | `services/control`, `server.rs`, `storage/src/relay_tenant.rs` | `relay_tenant` | create, resolve by host |
| relay event store | `services/relay/src/store.rs`, `storage/src/event.rs` | `nostr_event`, or an in-memory map and index | insert with replacement and deletion, query, delete |
| control | `services/control` | none of its own | create tenants and repositories, signed control actions |
| publish outbox and provisioning | `services/control`, `services/coordinator`, `storage/src/outbox.rs`, `crates/forgejo` | `relay_publish_outbox`, `repo_announcement`, `repo_mapping`, Forgejo, disk | enqueue, claim, publish, mark, finalize |
| command dispatcher | `services/dispatch`, `storage/src/command_state.rs` | command log, accounts, profiles, repositories, maintainers | ingest from several relays, apply |
| storage cache, admission | `storage/src/cache.rs`, `services/admission`, `core/src/admission.rs`, `relay/src/admission_client.rs` | row caches, decision cache | decide, read through, expire, evict |
| git front end | `services/git-http`, `services/git-hook`, `core/src/{git_receive,git_refs}.rs` | bare repositories | resolve maintainers, authorise a push, evaluate it against the state event |
| state service | `services/state` | none of its own | resolve maintainers, views |
| sync | `services/sync` | active repositories, refs | limit, plan, update refs |
| auth | `services/auth`, `storage/src/profile.rs`, `crates/forgejo` | account, profile, Forgejo user | sign up, read and update the own profile |
| webhook, relay adapter and probe | `services/webhook`, `crates/relay-adapter` | none | forward, publish |
| ui, app, admin, config, migrate, observability | | none shared | presentation, start-up, logging |

### How they interact

The control service stores tenants and owner memberships that every relay
connection reads. A relay connection is one task: it handles a client message to
the end before it takes the next message or the next broadcast event, but each
handler awaits the database or the admission service several times, and other
connections run at each await. No handler has a database transaction around two
repository calls: `insert_event` uses one for an event and its tags, and
`claim_relay_publish` is one statement with `FOR UPDATE SKIP LOCKED`. A repository request goes from the control service
through the outbox table to the loop of some coordinator, from there to the
relays and, when the last row of the repository is published, to Forgejo and the
disk; `POST /announcement` enters the second half of the same path directly.

A relay connection asks the admission service before it stores an event; the
service answers from a decision cache, or from rows it reads through a second
cache, while other services write those rows. Between the socket and the handlers
of a connection are two tasks and two bounded channels. A push goes through the git front end, which resolves the
repository's maintainers announcement by announcement, to git, whose pre-receive
hook compares it with the repository's state event; the sync makes the refs
follow that event.

### What makes it hard

- A value checked before an await is used after it: membership before a query or
  an insert, the subscription limit before the registration, an invite before its
  deletion, a rival event before its replacement.
- Several statements that belong together and fail in between: tenant and owner,
  membership and invite, replaced and new event, claim and mark, bare repository
  and hooks.
- Restarts in the middle of a claim, or between logging a command and applying it.
- The same command from several relays, again after each reconnect, and rows that
  are read, changed and written as a whole by tasks in parallel.
- A bounded broadcast channel whose slow receivers lose events, next to a
  snapshot query whose result must join up with it without a gap.
- Several coordinators, several relays, several routes to one repository.
- Two caches whose lifetimes add up, filled by reads that may be older than a write.
- Two tasks that each wait for room in a channel the other one empties.
- A graph of announcements and a state event that change while they are read.

`PROJECT.json` lists these as hazards, each with its line and the properties
that would catch it.

## Modules

| module | models | kind |
|---|---|---|
| `MembershipTable` | who is known to a tenant and who is active | abstract specification |
| `RelayMembership` | the handlers that write memberships and invites | detailed, one action per database call |
| `RelayMembershipProofs` | theorems about `RelayMembership` | TLAPS |
| `RelaySession`, `RelaySessionProofs` | connections, subscriptions, event handler, broadcast channel | detailed, extends `MembershipTable`; TLAPS |
| `MemoryStore` | the in-memory event store, atomic under its lock | abstract specification of the store |
| `RepositoryStore` | the database event store, statement by statement | detailed |
| `PublishOutbox`, `PublishOutboxProofs` | from `POST /v1/repos` to a provisioned repository | detailed; TLAPS |
| `CommandDispatch`, `CommandDispatchProofs` | the tasks that log and apply commands from the relays | detailed; TLAPS |
| `SocketPump` | the two tasks of a websocket and their channels | detailed |
| `ConnectionProofs` | theorems about `SocketPump` and `RepositoryStore` | TLAPS |
| `Admission`, `AdmissionProofs` | the admission handler over the two caches | detailed; TLAPS |
| `Maintainers` | `resolve_maintainers` of the git front end and of the state service | detailed |
| `GitPush`, `GitPushProofs` | pushes, hooks and the sync over the refs of a repository | detailed, extends `Maintainers`; TLAPS |
| `Accounts`, `AccountsProofs` | signup, profile read and profile update | detailed; TLAPS |
| `MC*` | constants of the instances TLC checks, and the choice of what runs together | instances |

### RelayMembership and MembershipTable

`tenants`, `memberships` and `invites` are the three tables, as functions and a
set. `op[s]` is the handler in flight on connection `s`: a program counter naming
the next database call, and the values the handler has read so far. An action is
one database call and everything the handler does until the next; the first
action of a handler also has its early returns. `request[r]` is the same for
`create_tenant_handler`. `issued`, `claims`, `welcomed` and `together` are history
variables (`together`: the codes for which the joins of two keys were in flight at
once, which `Next` adds to every step): no guard reads them, except that a drawn code is one not drawn before, which
stands for 16 random bytes.

`StorageError` gives a handler up at any call; `Crash` gives all of them up.
Nothing that was written is taken back in either case. A call that succeeds and
whose answer is lost is the same as one that succeeds followed by a failure at
the next call. The clock `now` advances at any moment; a handler keeps the value
it read at its start (`op[s].at`), as the code does.

`MembershipTable` only says that keys are seeded, are admitted once the tenant
knows anybody who could have invited them, leave and come back. `RelayMembership` implements it (checked in
`membership`, proved in `TableRefinement`), and `RelaySession` extends it: so
sessions are checked against every membership history the handlers can produce,
without their program counters.

### RelaySession

`conn[s]` is the connection (open, authenticated key, registry of
subscriptions), `op[s]` its handler in flight, `queue[s]` the part of the
broadcast channel it has not read, `home` the event table (event id to tenant:
the primary key of `nostr_event` is the id alone). A REQ is three calls
(membership, query, registration), an EVENT up to ten (membership, admission,
related events, lookup, rivals, replacement, insert, retention, dispatch and
broadcast). `RecvBroadcast` is possible only when no handler is in flight, which
is the `tokio::select!` of `run_with_broadcast`. `broadcast` drops the oldest
unread message of a full receiver and remembers it in `lagged`.

The answer of the admission service, and which related filters it asks for, are
inputs; the filters themselves are sets of events. What replaces what is a
constant relation here and computed in `RepositoryStore`. COUNT makes the checks
of REQ and registers nothing, so it has no action of its own.

### MemoryStore and RepositoryStore

`MemoryStore` is the store under one write lock: a table and an index of the
current replaceable event per key. It is at once a model of the code's
`MemoryStore` and the specification of what a store does. `RepositoryStore`
inserts with separate statements: `GetEvent`, then for a deletion event `DeleteId`
and `QueryAddress`/`DeleteFound`, for a replaceable event `QueryKey`/`DeleteFound`,
then `InsertRow`. `serial` is chosen at the start of a behaviour and never changes:
when it holds, operations do not overlap and none fails. The refinement mapping
then shows the table as it was before the insert until the insert returns, and
computes the index from the table (`Index`); otherwise it claims nothing and the other
properties say what overlapping and failing leave of it. `raced` remembers which
inserts of one key were in flight together.

### PublishOutbox

`outbox` is a sequence of rows (`pending` from a date on, `publishing`,
`published`); a failed publish makes its row `pending` again, later. `task[p]` is an outbox loop or a `POST /announcement`
handler: the loop part goes through `Poll`, `Claim`, `PublishOk`/`PublishErr`,
`MarkSucceeded`/`MarkFailed`, `Count`; the provisioning part, which both share,
through `Announce`, `EnsureRepo`, `ListHooks`, `CreateHook`, `UpsertMapping`,
`InitRepo`, `InstallHooks`. The two routes derive different Forgejo names for one
repository, so Forgejo repositories and mappings carry the route. `delivered`,
`forgejo`, `webhooks` and `disk` are outside services as the code uses them.
`Interrupt` is a failed call or a restart: the loop is back at its top, nothing
is undone, and nothing looks for rows left `publishing`.

### CommandDispatch

`log` is the command log, `accounts`, `profiles`, `repos` and `maintainers` the
four state tables, `task[r]` the command that the task of relay `r` is executing:
the next store call, the row read so far and the outcome. `Execute` is the
delivery of a command up to `insert_command_log`, whose conflict on the event id
makes a command a duplicate; nothing shared is read before it, so it is one step.
Any relay may deliver any command at any time, because each reconnect asks for
everything stored. Then come one or two reads, up to two writes and
`UpdateOutcome`. A row keeps for each field the command that gave it its value,
in place of the value; a stored account keeps its `created_at` in an upsert, as
the statement does. `update`, `archive` and `unarchive` are one verb that sets
fields, `set` and `visibility` another. An event id names one command: what a
relay sends under an id is taken as always the same. `Fail` is a failed call,
`Restart` the end of all tasks wherever they are. `effected` and `overlap` are
history variables that no guard reads.

### SocketPump

`pump` is what `pump_socket_io` waits for: the select, room in the inbound
channel, or the socket. `driver` is `SessionDriver`: in its select, or with a
number of responses left to send. Channels and socket are counters, because only
the numbers of messages and responses decide who waits. The select of the pump is
biased, so a frame goes before a response. The definitions are named `PumpInit`,
`PumpNext` and so on, because `ConnectionProofs` extends two components. `window` is how many messages the
client leaves unhandled at a time, a fixed trait of the client.

### Admission

`db` holds the compatibility record of a relay and the latest announcement and
state of a repository, `rows` the maps of `CachedRepositories`, `decisions` the
`AdmissionCache`. A handler looks a row up (`ReadCached`, or `ReadStored` and then
`Fill`: reading the database and storing the result are two steps), goes on to the
next row or concludes. `evaluate` is the handler's decision tree; `Warn` is `Allow`
with a line on stderr, so there are two modes. A request is answered within the
relay's timeout or given up by it, which bounds how old a value in a handler's
hand can be. `held` and `failed` are history: when a row last had a value it has
no longer, and when a read last failed.

### Maintainers and GitPush

`announced` and `lists` are the latest announcements, `walk[w]` a run of
`resolve_maintainers`: the keys pending and seen. `Visit` is one turn of the loop.
The two services differ in `Counted`: git-http counts a key before it looks for
its announcement, the state service only after finding one. The stack is a set:
the order of visits is left open, which includes the order of the code. `ever`
and `always` are history: what each key listed at some time, and all the time,
since the walk began.

`push[p]` goes from `InfoRefs`, where git tells the client the refs, through
`ReceivePack`, the walk, `Authorize` and `PreReceive` to one `ReplaceRef` per ref
and `PostReceive`. `ReplaceRef` is git's own compare and swap. `chain` is the
sequence of state events in the order they became the latest. `sync[y]` is a sync:
`StartSync` takes the limiter and the state, `PlanSync` reads the refs, then the
updates and after them the deletions are made in any order and one by one. What
starts a sync is outside the repository. Ref names are classes (branch or tag,
`refs/heads/pr`, `refs/nostr`, others), and a state event is a function from names
to commits, symbolic names or nothing.

### Accounts

`task[r]` is the handler of request `r` for one pubkey: the next call, the clock it
read at its start and the profile row it carries. `forgejo`, `account` and
`profile` are the three things a signup stores. A field of a profile holds the
request that gave it its value. `Merged` is the upsert, which keeps the stored
`created_at`; `valid` is the check of `ProfileRecord::new` and of the table. `Abandon`
is a failed call or a dropped handler. `after` is history: the requests answered
before this one began, from which `Overlap` is defined.

## Runs

A run explores its whole state space with two workers in under four minutes. For
each property `PROJECT.json` has a mutant: a plausible mistake in the code that
the property catches. Several instances that cannot influence each other share a
run: the MC module chooses one in its initial state and keeps it (`deployment` in
`membership`, `serial` in `event_store`, `scenario` in `git`).

| run | expected | instance | shows |
|---|---|---|---|
| `membership` | pass | 2 clients, 1 code, 2 create requests; either 2 connections to 1 tenant with failures and restarts, or 1 connection at a time, 2 tenants, clock 0..1, lifetime of an invite 0 | trust stays rooted in the tenant's creation, owners are seeded ones, spent invites stay spent, an invite keeps to its tenant, time and key and welcomes a second key only if the two joins were in flight together, the handlers implement `MembershipTable` |
| `outbox_workers` | pass | 2 coordinators, 2 requests for one repository, 2 relays, clock 0..1, 1 fault | a row is held by one loop, published means delivered, faults strand at most one row each, a mapped repository is set up, one lacks hooks only during its set-up or after a fault |
| `outbox_live` | pass | 1 coordinator, 1 `POST /announcement`, 2 requests, 1 relay, no fault | an answered request ends in a provisioned repository, both routes together |
| `session_gap` | pass | 2 connections, public tenant, e2 replacing e1, admission by related event, retention, channel of 1, 2 subscription ids with a limit of 1 | no subscription misses a stored event, except by lagging; the limit holds; what is acknowledged was stored |
| `session_private` | pass | 2 connections, 2 keys, private tenant, 1 event, channel of 1 | stored reads and writes are for admitted keys although every check is stale when used; a broadcast event reaches each matching subscription that stays |
| `session_left` | violation | 2 connections, 1 key, private tenant | a subscription outlives the membership of its key |
| `event_store` | pass | 2 writers; three versions of one replaceable event (two of one date), another replaceable event, a deletion; either one operation at a time or overlapping with 1 failed statement | one at a time the database store implements the in-memory store; in any case the newest version keeps its place, and two versions stay only if their inserts overlapped |
| `dispatch` | pass | 2 relays, any 3 of 15 commands of one actor, 1 fault | a command is executed once, its logged outcome is true, a new repository has its owner as maintainer, only faults strand a command, a field loses its value only to an overlapping command on the same row |
| `admission` | pass | 2 requests, 2 events, 1 relay URL, lifetime 2, timeout 1, 1 entry per cache, clock 0..5, 1 write | how old the rows behind an answer can be, how long a storage error is answered |
| `socket` | pass | channels of 2, client windows 1..4, 4 messages, 2 live events, up to 3 responses per message | the two tasks wait for each other only when the client floods; otherwise everything is delivered and both tasks end |
| `accounts` | pass | any 3 of 2 signups, a profile read and 2 patches of 2 fields, clock 0..1, 1 fault | an account lacks its profile only during a signup or after a fault; lost values and refused writes are due to overlap only; a missing profile is repaired by its owner's next request |
| `git` | pass | 3 keys, 4 refs, 3 commits, 3 state events of which 2 are published; either 3 walks and a changing announcement, or 2 pushes, or a push and 2 syncs under a limit of 1 with 1 failure | a walk returns only keys that were listed and forgets no standing maintainer, refs only have values that states named, a completed sync matches its state, a push never takes a branch back |

### Why the bounds are enough

- Two connections, loops, writers, requests or pushes: the races are between a
  handler that holds a stale value and one that changes it; a third only repeats
  the second. For everything but liveness the theorems remove this bound and the
  others.
- One invite code in `membership`: a race needs two claims of the same invite. The
  second deployment has two tenants, so a code can be tried at the wrong one.
- A clock of 0..1 with an invite lifetime of 0: before, at and after expiry. In
  the outbox, a retry becomes due at the next tick.
- A broadcast channel of one slot and two events: the first overflow already loses
  an event. A larger channel only loses later.
- Three commands: one to create what the other two change at the same time. All
  ways of choosing them are explored.
- One fault: what it strands is counted against `faults`, so the invariants
  bound each further fault as well.
- Three versions, two of them dated alike, and a deletion: the outcomes of a date
  comparison, and both orders of deletion and insert.
- Admission: lifetime 2 and timeout 1 make the bound on the age of a row four
  ticks, and the clock runs to 5, so a row can be too old. One entry per cache
  makes every second insert evict.
- Socket: windows from 1 to 4 over channels of 2 lie on both sides of the flood.
- Accounts: a lost update needs two writers and one request to create the row.
- Git: a stale walk needs one announcement that changes between two visits; going
  back needs three values, one of them passed over.

### Symmetry

Loops, writers, relays, the requests of `admission`, the connections of `membership`,
in `session_gap` connections and subscription ids, and in `git` the keys other than
the owner are interchangeable: no constant tells them
apart. Symmetry is used only where a run has no liveness property.

### Deadlock

Deadlock is not checked in `membership`, `admission`, `socket`, `accounts` and
`git`: there all requests may be answered, all messages sent and the clock at its
bound. That the tasks of a socket do wait for each other is a property there
(`StuckByFlood`), as is that they end (`EndsWhenClosed`).

### Fairness

- `PublishOutbox`: weak fairness of each loop, of each provisioning task, of the
  enqueue steps of a request and of the clock. The runtime polls every spawned
  task and calls return. Requests need not arrive. `PublishErr` is bounded by the
  clock, as a retry waits for a later time, so `outbox_live` assumes that a relay
  accepts in the end: a relay that never answers keeps a request unprovisioned by
  design.
- `RelaySession`: weak fairness of the handlers, and strong fairness of
  `RecvBroadcast`: `tokio::select!` picks a ready branch at random, so a busy
  client cannot keep a connection from its queue for ever, but the branch is not
  continuously enabled because handlers run in between.
- `SocketPump`: weak fairness of the pump and of the driver, two tasks the runtime
  polls. The client owes nothing: it need not send, nor close.
- `Accounts`: weak fairness of the steps of a handler that has begun. Requests
  need not arrive and the clock need not run.

## Proofs

Eight modules hold theorems. Each is for every value of the constants that
satisfies the named assumption of the component's module; TLC evaluates these
assumptions in the runs. They are typings of the constants, with three worth
naming: `GitAssumption` takes commits and ref names to be different and a client to
push commits, `DispatchAssumption` takes the relays to be finitely many and the
mark of a missing row to be no row, and
`AdmissionAssumption` takes lifetimes and limits to be positive, as the
configuration does.

The third column is what is shown to hold always, unless it says otherwise; in
the last, a run is named where TLC checks the same definition on an instance. What
has no run there is shown by the proof alone.

| module | theorem | statement | run |
|---|---|---|---|
| `RelayMembershipProofs` | `TypeCorrect` | `TypeOK` | |
| | `TrustIsRooted` | `RootedTrust` | `membership` |
| | `InvitesAreSpent` | `SpentInvitesAreGone` | `membership` |
| | `OnlySeedsAreOwners` | `OwnersAreSeeded` | `membership` |
| | `GuestsCameInTime` | `InvitedInTime` | `membership` |
| | `WelcomesAreSingle` | `OneWelcomeUnlessTogether` | `membership` |
| | `TableRefinement` | implements `MembershipTable` | `membership` |
| `RelaySessionProofs` | `SessionsKeepTheirShape` | `TypeOK`, with the limits on subscriptions and channels | `session_gap` |
| | `SubscriptionsHaveNoGap` | `NoGap` | `session_gap` |
| | `AcknowledgedEventsAreStored` | `AcknowledgedIsStored` | `session_gap` |
| | `PrivateReadsAreByMembers` | `StoredReadsByMembers` (of every step) | `session_private` |
| | `PrivateWritesAreByMembers` | `WritesByMembers` (of every step) | `session_private` |
| | `TenantsKeepTheirRows` | `RowsStayInTheirTenant` (of every step) | |
| `ConnectionProofs` | `MessagesAreKept` | `NothingIsLost` | |
| | `OnlyAFloodSticks` | `StuckByFlood` | `socket` |
| | `WithinTheChannelNeverStuck` | never stuck when every window fits the channel | |
| | `RemovalsAreDue` | `TypeOK` of `RepositoryStore`, with what an insert may remove | |
| | `DoublesAreRaced` | `TwoCurrentByOverlap` | `event_store` |
| | `NewestEventsStay` | `NewestIsKept` (of every step) | `event_store` |
| | `StoreRefinement` | implements `MemoryStore` | `event_store` |
| | `KeysHaveOneEvent` | `IndexAgrees` | |
| | `NewerEventsWin` | `NewestWins` (of every step) | |
| `PublishOutboxProofs` | `OutboxTypes` | `TypeOK` | |
| | `RowsAreClaimedByOne` | `ClaimedByOne` | `outbox_workers` |
| | `PublishedRowsWereDelivered` | `PublishedWasDelivered` | `outbox_workers` |
| | `PublishedStaysPublished` | `PublishedIsFinal` (of every step) | |
| | `StrandedRowsAreFaults` | `StrandedByFaults` | `outbox_workers` |
| | `AnnouncementsAreOwned` | `AnnouncedWasDelivered`, `ProvisionedByOne` | |
| | `MappingsAreSetUp` | `MappedIsSetUp` | `outbox_workers` |
| | `HooklessRepositories` | `HooklessByFaults` | `outbox_workers` |
| | `AnsweredRequestsAreEnqueued` | `AnsweredIsEnqueued` | |
| | `HooksAreCounted` | `OneHookPerAnnouncement` | |
| `CommandDispatchProofs` | `DispatchTypes` | `TypeOK` | |
| | `CommandsAreAppliedOnce` | `AppliedOnce` | `dispatch` |
| | `OutcomesAreTrue` | `OutcomeIsTrue` | `dispatch` |
| | `OwnersAreMaintainers` | `OwnerIsMaintainer` | `dispatch` |
| | `StrandedCommandsAreFaults` | `StrandedByFaults` | `dispatch` |
| | `ValuesAreLostByOverlap` | `LostOnlyByOverlap` (of every step) | `dispatch` |
| | `OutcomesStay` | `OutcomesAreFinal` (of every step) | |
| | `CreatesAreReplacedByOverlap` | `CreatedOverByOverlap` (of every step) | |
| | `OnlyMaintainersUpdate` | `UpdatesAreByMaintainers` (of every step) | |
| `AdmissionProofs` | `AdmissionTypes` | `TypeOK` | |
| | `DecisionsAreRecent` | `DecisionIsRecent` | `admission` |
| | `ErrorsAreForgotten` | `ErrorIsRecent` | `admission` |
| | `CachesKeepToLimit` | `CachesAreBounded` | |
| `GitPushProofs` | `GitTypes` | `TypeOK` | |
| | `NobodyUnlisted` | `ResolvedWasListed` | `git` |
| | `NobodyForgotten` | `ResolvedIsComplete` | `git` |
| | `WalksEnd` | `NeverRevisits` | |
| | `QuietWalks` | `QuietWalksAreExact` | |
| | `PushesAreAuthorised` | `PushedByMaintainer` | |
| | `RefsAreNamed` | `RefsFollowStates` | `git` |
| | `SyncsMatch` | `SyncedMatches` | `git` |
| | `SyncSlots` | `SyncsAreLimited` | |
| | `LaterSyncsRest` | `SyncsSettle` | |
| | `SyncsAreCurrent` | `SyncsWriteTheLatest` (of every step) | |
| | `PushesGoForward` | `PushNeverGoesBack` (of every step) | `git` |
| `AccountsProofs` | `AccountTypes` | `TypeOK` | |
| | `RowsStayRooted` | `RowsAreRooted` | |
| | `OnlyFaultsLoseProfiles` | `ProfilelessByFaults` | `accounts` |
| | `UpdatesAreLostByOverlap` | `LostOnlyByOverlap` | `accounts` |
| | `RefusalsAreByOverlap` | `RefusedByOverlap` | `accounts` |
| | `AnswersAreStored` | `AnsweredDateIsStored` | |
| | `DatesStay` | `DatesAreKept` (of every step) | |

None of the statements about handlers is inductive: a handler writes on the
strength of what it read some calls before, so each invariant says what a handler
at each call still may rely on, and why the steps of others leave that true.

- `RelayMembershipProofs`: `HandlerOK` is that part (a handler seeding an owner
  carries a seed key; a joining one past its check carries an invite that was
  issued by that tenant and is not older than the handler's clock; the row it
  found was legitimate; the inviter of an invite about to be inserted has a row).
  It survives because rows are never deleted, only overwritten, and `issued` and
  `claims` only grow (`Grows`, `HandlerKept`). `TablesOK` gives each row its reason
  and makes codes unique. `MembershipInv` is both with `TypeOK`,
  `SpentInvitesAreGone` and `RootedTrust`; there is one lemma per group of actions,
  `NextInv` puts them together. `RootedTrust` quantifies over all sets closed under
  invites rather than over paths, so no induction over the length of a chain is
  needed. `TogetherInv` adds, for `WelcomesAreSingle`, that `together` has the codes that
  two keys' joins hold at once and those that a join past its lookup holds after
  another key's welcome: after a welcome nobody finds the invite any more. `TableRefinement` follows from the same
  invariant: the four writing calls are steps of the table (`UpsertIsTableStep`), all
  others leave it alone.
- `RelaySessionProofs`: between the query of a REQ and the registration of its
  filters, `NoGap` depends on an answer that has not been sent. `Gap` says that what
  is stored meanwhile is in the connection's part of the channel, which is not read
  in between. `OpOK` says what a handler may rely on at each await: the key of the
  connection, which only its own driver changes, and the membership it checked,
  where `known` only grows. The subscription limit is checked some awaits before
  the registration, and holds because the registry has one writer. `RowsMove` lists
  what a step can do to the table of events, and for which tenant it does it.
- `ConnectionProofs`, the socket: `NothingIsLost` is inductive with `PumpTypeOK` once
  a driver that waits or is gone is known to hold no message (`DriverIdle`). In a
  stuck state the inbound channel is full, the pump holds a message and so does the
  driver: counting them gives the flood.
- `ConnectionProofs`, the store: in `StoreInv`, `OpOK` says of an insert past its
  query that every rival in the table is one it will delete or one that raced with
  it, and `Racing` that two inserts of one key in flight are in `raced`. Without
  these `TwoCurrentByOverlap` is lost at the step from the query to the insert. For
  the refinement, `SerialInv` describes the one insert in flight: the table is what
  it was when the insert began, without what it has removed of what it will remove
  in all (`Doomed`). Its last statement is then the atomic `Insert` of `MemoryStore`
  (`InsertIsAtomic`), and every other statement a stutter. `KeysHaveOneEvent` and
  `NewerEventsWin` are shown of `MemoryStore` and carried over by the refinement.
- `PublishOutboxProofs`: `TaskOK` is what a task at each call relies on, `Apart` that
  no two tasks hold one row or provision one event. They survive because rows keep
  their event and relay, what was delivered, announced or created stays (`Grows`),
  and nobody changes the status of a row another task holds. For the stranded rows,
  each action either keeps the set (`Stranded`) from growing or is an interruption,
  which adds one row and one fault. `Enqueued` says how far the loop over the relay
  urls has come; `RowsStay` keeps the rows behind it. For the webhooks, `HookInv`
  counts only the announcements whose task has left the three calls that set the
  repository up (`Hooked`): creating a webhook puts the task's own announcement into
  that set, which no other task can have put there (`Apart`), and no step takes one
  out, since a task comes to those calls only with an announcement nobody had stored.
- `CommandDispatchProofs`: `Working` is about one task (its command is logged as
  accepted and not yet effected, the outcome it is about to log is true, the row it
  has read is the stored one but for what overlapping commands wrote), `Beside`
  about two. For the stranded commands: all tasks together hold no more commands
  than there are relays, so a restart adds at most that many; this is where the
  relays have to be finite. `AllFound` adds what the answers a task
  got still say when it writes: one about to create finds no row, or one that an
  overlapping create made; one about to update finds the row and its owner.
- `AdmissionProofs`: ages add up along the path of a row. A cached row was current
  at most a timeout before it was stored (`CachedRows`), what a handler relies on
  at most a lifetime and a timeout before it started (`Handlers`), and a cached
  decision follows from rows one timeout older than that (`CachedDecisions`). The
  work is in `HeldStays` and `FollowsStays`: a write moves a value from the
  table to the history and never makes it younger or older.
- `GitPushProofs`, the walk: of the keys seen or pending, `Upper` says that they lie
  in every set closed under what was listed during the walk, `Lower` that they
  contain what a seen key has listed all along. With nothing pending they are the
  two properties, and when nothing was replaced meanwhile they coincide
  (`QuietWalks`). Closed sets again take the place of induction. The push invariant
  adds that a push past `Authorize` carries a result of its own walk.
- `GitPushProofs`, the refs: `RefsInv` names for each value in flight, in a ref, in a
  push or in a plan, the state that named it, and for an accepted push also that
  this state is not older than the one of the value the client was told.
  `SyncInv` is about one sync (`QuietInv`: what a quiet one has not still to change is
  as its state says) and about two (`PairInv`: the limiter lets one at a time run
  for a repository, and the one after a quiet sync plans from the same state and
  finds nothing to change). For the limiter, `Slots` says that the slots taken are
  the repositories of the running syncs, no two of one repository. So there are as
  many syncs as slots, and the limit on slots (`WithinLimit`) is one on syncs.
- `AccountsProofs`: `Rows` is about the tables, `One(r)` about a handler: which rows
  exist at its place (`Place`), what had been answered before it began (`Past`) and
  what the row it is about to write keeps of them (`Carried`). `Others` shows that a
  handler's step keeps `One` for all the others, `QuietRows` and `WriteRows` that it
  keeps the tables; the lemmas of the actions then speak of one handler only.
  For the dates, `Dated` adds that a stored `updated_at` is the clock some writer had
  read. A row is only ever stored with the clock of the handler that stores it
  (`Redates`), so it goes back only when that handler had read its clock first and
  the two overlap.

Most leaves name Zenon: they are about sets, functions and equality, where it is the
faster of the two provers and its result does not depend on the load of the machine.
The ones that count or compare go to the SMT solver, in steps of their own.

## Observations

What the code does that its documentation, messages or tests describe
differently, or that a reader would not expect. The first is a run that TLC must
find violated; the others are built into the modules, and where a property is
named it says how far they go.

- `session_left`: `dispatch_event` (`session.rs:415`) does not look at
  membership; the README asks for membership for reads of a private tenant.
- A row claimed as `publishing` is released only by the loop that claimed it
  (`coordinator/src/lib.rs:446`). After a restart in between,
  `pending_relay_publishes` never reaches zero for that repository and its answered
  request is never provisioned (`StrandedByFaults`: only a fault leads there).
- `apply_replaceable_repo` (`store.rs:372`) queries, deletes and inserts in
  separate statements, so two versions inserted at once both stay; the test
  `repository_store_replaces_replaceable_events`, which inserts one after the
  other, expects one (`TwoCurrentByOverlap`).
- `group_tags` (`store.rs:486`) merges the tags of one name into one, which is not
  modelled.
- `create_tenant_handler` (`control/src/lib.rs:725`) looks a host up and upserts
  it in two statements: two requests for a host can both be answered as created,
  and the relay key of the first is replaced. The owner membership is a third
  statement (line 784): when it fails, the tenant stays without it, and a retry is
  refused because the host exists. The theorems hold in spite of both.
- The process has one broadcast channel (`server.rs:120`) and delivery does not
  compare tenants, so live events are not separated by host. `RelaySession` keeps
  the tenant in the message and delivers like the code.
- `insert_event` is `ON CONFLICT DO NOTHING` on the id alone
  (`postgres.rs:1332`): an event that another tenant has is answered as inserted
  and is not stored for this one. `home` in `RelaySession` has this.
- A repository whose hooks were not installed because of a failure is not
  completed later: the next attempt finds the bare repository and skips it
  (`HooklessByFaults`).
- The webhooks of a Forgejo repository are listed and created in two calls, so the
  tasks of two announcements of it can each create one (`OneHookPerAnnouncement`:
  there are never more than that).
- A command is logged as `accepted` before it is applied
  (`dispatch/src/handlers.rs:149`). After a restart in between it is answered
  "already processed" (line 154) and never applied (`StrandedByFaults`). Likewise a
  repository whose first maintainer was not written stays without one.
- Commands are applied in the order of arrival: dates are not compared, so an
  older command that arrives later wins.
- The decision cache is keyed by the event alone (`admission/src/lib.rs:229`): a
  decision made for one relay URL is answered for another. A missing row is not
  cached by the storage cache, but the decision that follows from it is cached by
  the decision cache, as is a rejection because of a storage error
  (`ErrorIsRecent`: for one lifetime).
- The pump and the driver of a socket wait for each other for ever when the client
  has more messages unhandled than the inbound channel holds and the outbound
  channel is full (`StuckByFlood`).
- Of two signups at once the second can be answered `existing` before the first
  has stored the profile. Profile updates read, change and write the whole row, so
  overlapping ones lose values (`LostOnlyByOverlap`), a clock that was read before
  the row was created makes the write refused (`RefusedByOverlap`), and an answered
  `created_at` may not be the stored one (`AnsweredDateIsStored`).
- The git front end counts a listed key as a maintainer before it has an
  announcement, the state service only afterwards.
- The hook asks the state service for `/state/:pubkey/:identifier`, a route the
  state service does not have; `GitPush` takes the answer as an environment that
  returns the latest state event.
- A sync plan does not validate the state, writes symbolic values as they are
  (which git refuses), deletes `refs/nostr` refs when given them, and is executed
  without comparing old values: a plan made from an older state can put a ref back.
  `RefsFollowStates` is what remains true.

## What is only model-checked, and what is not modelled

Liveness under fairness (`LiveDelivery`, `AnsweredIsProvisioned`, `AllDelivered`,
`EndsWhenClosed`, `RepairedByOwner`) and anything with ENABLED is outside what TLAPS
proves and stays with TLC. So would be what a recursive definition computes for
every input: the provers cannot instantiate the induction theorems. No theorem here
needs one, because reachability is stated with closed sets. `LiveReadsByMembers` is
the property that the code does not have.

Abstracted everywhere: signatures, event contents and tags, JSON, HTTP status
codes, logging and metrics. Messages that a parser or a limiter refuses change no
state.

The modules stand for the stateful core, which is a small share of the
repository's lines. The map in `PROJECT.json` names only lines that a definition
translates, and covers about 4,300
of them: between four and five percent of all lines of the sources, and about
thirteen percent of those that are not tests. Of the others, this is not modelled,
and why:

- **user interface, app, administration CLI**: presentation, forms and single HTTP
  calls; the state they change belongs to the services above.
- **configuration, migrations, observability**: read once at start-up, run before
  the services, or without effect on them. Uniqueness constraints of the
  migrations are part of the tables' modules.
- **parsing crates (events, tags, command lines, NIP-19, URLs)**: conversions of text
  without state. As models they would repeat the code character by character.
- **webhook**: one lookup and one forwarded call per request; nothing is read
  twice.
- **relay adapter and probe**: one socket read in order. `PublishOutbox` has the
  outcome as an environment choice.
- **rate limiters**: the admission service's is not called by its handler; the
  relay's refuses messages, which changes no other state.
- **write paths of the storage cache, `StateCache`**: no route of the services calls
  them.
- **control service, other routes**: one read each, or a parse followed by
  operations that `PublishOutbox` and `RelayMembership` have.
- **query planning, filter matching, NIP-11, upload-pack, relay selection, fetches and
  backoff lengths of the sync, `command_only` mode of auth**: they change no modelled
  state.

`RelaySession` has the admission decision as an environment choice rather than a
composition with `Admission`: it already includes every decision, early or late,
and the properties of the session do not depend on which one it is.

## How to run

In this directory:

    tlc -workers 2 -config session_gap.cfg MCRelaySession
    tlapm AccountsProofs.tla

`PROJECT.json` names the module and configuration of each run. From nothing, the
proofs of a module take between two and ten minutes.
