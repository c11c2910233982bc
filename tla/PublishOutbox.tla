---------------------------- MODULE PublishOutbox ----------------------------
(***************************************************************************)
(* From POST /v1/repos to a provisioned repository.                        *)
(*                                                                         *)
(* The control plane creates the Forgejo repository and enqueues the       *)
(* signed announcement once per relay url.  The outbox loop of each        *)
(* coordinator claims rows, publishes them, marks the result, and when no  *)
(* row of the same repository is unpublished it finalizes the job: record  *)
(* the announcement, make sure the Forgejo repository and its webhook      *)
(* exist, store the mapping, create the bare repository, install its hooks.*)
(* POST /announcement runs the same provisioning without the outbox.       *)
(*                                                                         *)
(* Each database, Forgejo, relay or disk call is one atomic step.  A call  *)
(* that fails, and a process that stops, both leave the loop at its top    *)
(* with nothing undone: that is Interrupt, counted in faults.              *)
(***************************************************************************)
EXTENDS Integers, Sequences, FiniteSets

CONSTANTS
    Events,        \* signed announcements
    Repo,          \* Events -> (pubkey, identifier) of the announced repository
    Requests,      \* POST /v1/repos requests
    Posts,         \* Requests -> Events: the announcement a request carries
    RelayUrls,     \* state.relay_urls, a sequence
    Workers,       \* outbox loops, one per coordinator process
    Handlers,      \* POST /announcement requests in flight
    RetryBase, RetryMax,   \* OUTBOX_RETRY_BASE_SECS, OUTBOX_RETRY_MAX_SECS
    MaxTime,       \* bound on the clock
    MaxFaults,     \* bound on failed calls and restarts
    NoEvent

Repos == {Repo[e] : e \in Events}
Urls == {RelayUrls[n] : n \in 1 .. Len(RelayUrls)}
Tasks == Workers \union Handlers

ASSUME OutboxAssumption ==
    /\ Posts \in [Requests -> Events]
    /\ RelayUrls \in Seq(Urls)
    /\ RelayUrls # <<>>
    /\ Workers \intersect Handlers = {}
    /\ RetryBase \in Nat /\ RetryMax \in Nat
    /\ MaxTime \in Nat /\ MaxFaults \in Nat
    /\ NoEvent \notin Events

Time == 0 .. MaxTime

VARIABLES
    outbox,         \* relay_publish_outbox, in the order of its ids
    delivered,      \* <<url, event>> pairs a relay has stored
    announcements,  \* repo_announcement: event -> "none", or the route that stored it
    forgejo,        \* Forgejo repositories, <<route, repo>>
    webhooks,       \* webhooks per Forgejo repository
    mapping,        \* repo_mapping: repo -> "none", or the route whose name it holds
    disk,           \* the bare repository of each repo
    task, request,  \* the handlers in flight
    now, faults

tables == <<outbox, announcements, mapping>>
world == <<delivered, forgejo, webhooks, disk>>
vars == <<tables, world, task, request, now, faults>>

Row == [event : Events, url : Urls, status : {"pending", "publishing", "published"},
        attempt : Nat, publish_after : Nat]

\* The two callers of the provisioning code name the Forgejo repository differently.
Routes == {"outbox", "http"}
Route(p) == IF p \in Workers THEN "outbox" ELSE "http"
ForgejoRepos == Routes \X Repos

LoopPcs == {"idle", "claim", "publish", "mark_ok", "mark_failed", "count"}
ProvisionPcs == {"announce", "ensure_repo", "list_hooks", "create_hook", "map", "init", "hooks"}

Idle == [pc |-> "idle", id |-> 0, at |-> 0, event |-> NoEvent]

Init ==
    /\ outbox = <<>>
    /\ delivered = {}
    /\ announcements = [e \in Events |-> "none"]
    /\ forgejo = {}
    /\ webhooks = [f \in ForgejoRepos |-> 0]
    /\ mapping = [k \in Repos |-> "none"]
    /\ disk = [k \in Repos |-> "none"]
    /\ task = [p \in Tasks |-> Idle]
    /\ request = [r \in Requests |-> [pc |-> "new", next |-> 1]]
    /\ now = 0
    /\ faults = 0

At(p, pc) == task[p].pc = pc
Goto(p, pc) == task' = [task EXCEPT ![p].pc = pc]
Finish(p) == task' = [task EXCEPT ![p] = Idle]
Key(p) == Repo[task[p].event]
Fork(p) == <<Route(p), Key(p)>>

(***************************************************************************)
(* The control plane: create_repo_from_signed_event.  A request that fails *)
(* before the Forgejo repository exists changes nothing.                   *)
(***************************************************************************)
CreateRepo(r) ==
    /\ request[r].pc = "new"
    /\ forgejo' = forgejo \union {<<"outbox", Repo[Posts[r]]>>}
    /\ request' = [request EXCEPT ![r].pc = "enqueue"]
    /\ UNCHANGED <<tables, delivered, webhooks, disk, task, now, faults>>

enqueue_relay_publish(e, url) ==
    outbox' = Append(outbox, [event |-> e, url |-> url, status |-> "pending",
                              attempt |-> 0, publish_after |-> now])

Enqueue(r) ==
    LET n == request[r].next IN
    /\ request[r].pc = "enqueue"
    /\ enqueue_relay_publish(Posts[r], RelayUrls[n])
    /\ request' = [request EXCEPT ![r] =
           IF n = Len(RelayUrls) THEN [pc |-> "answered", next |-> n]
           ELSE [pc |-> "enqueue", next |-> n + 1]]
    /\ UNCHANGED <<announcements, mapping, world, task, now, faults>>

\* The loop over the relay urls stops half way; rows already stored remain.
EnqueueFail(r) ==
    /\ request[r].pc = "enqueue"
    /\ faults < MaxFaults
    /\ faults' = faults + 1
    /\ request' = [request EXCEPT ![r].pc = "failed"]
    /\ UNCHANGED <<tables, world, task, now>>

(***************************************************************************)
(* publish_outbox_loop.  The clock is read at the top of the loop.         *)
(***************************************************************************)
Poll(w) ==
    /\ At(w, "idle")
    /\ task' = [task EXCEPT ![w] = [Idle EXCEPT !.pc = "claim", !.at = now]]
    /\ UNCHANGED <<tables, world, request, now, faults>>

Due(id, at) == outbox[id].status = "pending" /\ outbox[id].publish_after <= at

\* Mutant: the row is read but not marked as taken.
ClaimUnmarked(w) ==
    /\ At(w, "claim")
    /\ \E id \in DOMAIN outbox :
          /\ Due(id, task[w].at)
          /\ task' = [task EXCEPT ![w].pc = "publish", ![w].id = id,
                                  ![w].event = outbox[id].event]
    /\ UNCHANGED <<tables, world, request, now, faults>>

\* FOR UPDATE SKIP LOCKED: the claim of a due row and its new status are one step.
Claim(w) ==
    /\ At(w, "claim")
    /\ \E id \in DOMAIN outbox :
          /\ Due(id, task[w].at)
          /\ \A j \in 1 .. id - 1 : ~Due(j, task[w].at)
          /\ outbox' = [outbox EXCEPT ![id].status = "publishing",
                                      ![id].attempt = @ + 1]
          /\ task' = [task EXCEPT ![w].pc = "publish", ![w].id = id,
                                  ![w].event = outbox[id].event]
    /\ UNCHANGED <<announcements, mapping, world, request, now, faults>>

\* Nothing is due: the loop sleeps and polls again.
ClaimNone(w) ==
    /\ At(w, "claim")
    /\ \A id \in DOMAIN outbox : ~Due(id, task[w].at)
    /\ Finish(w)
    /\ UNCHANGED <<tables, world, request, now, faults>>

retry_after(at, attempt) ==
    LET n == IF attempt < 1 THEN 1 ELSE attempt
        delay == IF RetryBase * n < RetryMax THEN RetryBase * n ELSE RetryMax
    IN  at + delay

Deliver(w) == delivered' = delivered \union {<<outbox[task[w].id].url, task[w].event>>}

\* The relay answers OK true.
PublishOk(w) ==
    /\ At(w, "publish")
    /\ Deliver(w)
    /\ Goto(w, "mark_ok")
    /\ UNCHANGED <<tables, forgejo, webhooks, disk, request, now, faults>>

\* Mutant: a negative answer is taken for success.
PublishErrIgnored(w) ==
    /\ At(w, "publish")
    /\ Goto(w, "mark_ok")
    /\ UNCHANGED <<tables, world, request, now, faults>>

\* No answer, or OK false: the relay may have stored the event all the same.
\* Bounded: an attempt fails only if the retry falls within MaxTime.
PublishErr(w) ==
    /\ At(w, "publish")
    /\ retry_after(task[w].at, outbox[task[w].id].attempt) <= MaxTime
    /\ Deliver(w) \/ UNCHANGED delivered
    /\ Goto(w, "mark_failed")
    /\ UNCHANGED <<tables, forgejo, webhooks, disk, request, now, faults>>

mark_relay_publish_succeeded(id) == outbox' = [outbox EXCEPT ![id].status = "published"]

\* Mutant: the retry time is set but the row is not released.
mark_relay_publish_failed_unreleased(id, retry_at) ==
    outbox' = [outbox EXCEPT ![id].publish_after = retry_at]

mark_relay_publish_failed(id, retry_at) ==
    outbox' = [outbox EXCEPT ![id].status = "pending", ![id].publish_after = retry_at]

MarkSucceeded(w) ==
    /\ At(w, "mark_ok")
    /\ mark_relay_publish_succeeded(task[w].id)
    /\ Goto(w, "count")
    /\ UNCHANGED <<announcements, mapping, world, request, now, faults>>

MarkFailed(w) ==
    /\ At(w, "mark_failed")
    /\ mark_relay_publish_failed(task[w].id,
           retry_after(task[w].at, outbox[task[w].id].attempt))
    /\ Finish(w)
    /\ UNCHANGED <<announcements, mapping, world, request, now, faults>>

\* Mutant: published rows are counted as well.
pending_relay_publishes_all(k) ==
    {id \in DOMAIN outbox : Repo[outbox[id].event] = k}

\* Rows of the same repository, of any of its announcements, not yet published.
pending_relay_publishes(k) ==
    {id \in DOMAIN outbox : Repo[outbox[id].event] = k /\ outbox[id].status # "published"}

Count(w) ==
    /\ At(w, "count")
    /\ IF pending_relay_publishes(Key(w)) = {} THEN Goto(w, "announce") ELSE Finish(w)
    /\ UNCHANGED <<tables, world, request, now, faults>>

(***************************************************************************)
(* finalize_outbox_job and handle_announcement_event_with_storage.         *)
(***************************************************************************)
\* POST /announcement enters the provisioning directly.
PostAnnouncement(h, e) ==
    /\ At(h, "idle")
    /\ task' = [task EXCEPT ![h] = [Idle EXCEPT !.pc = "announce", !.event = e]]
    /\ UNCHANGED <<tables, world, request, now, faults>>

\* repo_announcement.event_id is UNIQUE: storing an event again is an error,
\* and the error ends the provisioning.
Announce(p) ==
    /\ At(p, "announce")
    /\ IF announcements[task[p].event] = "none"
       THEN /\ announcements' = [announcements EXCEPT ![task[p].event] = Route(p)]
            /\ Goto(p, "ensure_repo")
       ELSE /\ Finish(p)
            /\ UNCHANGED announcements
    /\ UNCHANGED <<outbox, mapping, world, request, now, faults>>

\* Get, then create; a repository created meanwhile is a 409 and is fetched.
EnsureRepo(p) ==
    /\ At(p, "ensure_repo")
    /\ forgejo' = forgejo \union {Fork(p)}
    /\ Goto(p, "list_hooks")
    /\ UNCHANGED <<tables, delivered, webhooks, disk, request, now, faults>>

\* Mutant: the webhook is taken for granted.
ListHooksAssumed(p) ==
    /\ At(p, "list_hooks")
    /\ Goto(p, "map")
    /\ UNCHANGED <<tables, world, request, now, faults>>

ListHooks(p) ==
    /\ At(p, "list_hooks")
    /\ Goto(p, IF webhooks[Fork(p)] = 0 THEN "create_hook" ELSE "map")
    /\ UNCHANGED <<tables, world, request, now, faults>>

CreateHook(p) ==
    /\ At(p, "create_hook")
    /\ webhooks' = [webhooks EXCEPT ![Fork(p)] = @ + 1]
    /\ Goto(p, "map")
    /\ UNCHANGED <<tables, delivered, forgejo, disk, request, now, faults>>

\* The upsert resolves a conflict on the Forgejo name only: a repository that
\* is mapped under the other name breaks UNIQUE (pubkey, identifier).
UpsertMapping(p) ==
    /\ At(p, "map")
    /\ IF mapping[Key(p)] \in {"none", Route(p)}
       THEN /\ mapping' = [mapping EXCEPT ![Key(p)] = Route(p)]
            /\ Goto(p, "init")
       ELSE /\ Finish(p)
            /\ UNCHANGED mapping
    /\ UNCHANGED <<outbox, announcements, world, request, now, faults>>

\* Mutant: the hooks are not installed.
InitRepoOnly(p) ==
    /\ At(p, "init")
    /\ disk' = [disk EXCEPT ![Key(p)] = IF @ = "none" THEN "bare" ELSE @]
    /\ Finish(p)
    /\ UNCHANGED <<tables, delivered, forgejo, webhooks, request, now, faults>>

\* handle_announcement_event: an existing directory is taken as provisioned.
InitRepo(p) ==
    /\ At(p, "init")
    /\ IF disk[Key(p)] = "none"
       THEN /\ disk' = [disk EXCEPT ![Key(p)] = "bare"]
            /\ Goto(p, "hooks")
       ELSE /\ Finish(p)
            /\ UNCHANGED disk
    /\ UNCHANGED <<tables, delivered, forgejo, webhooks, request, now, faults>>

InstallHooks(p) ==
    /\ At(p, "hooks")
    /\ disk' = [disk EXCEPT ![Key(p)] = "hooked"]
    /\ Finish(p)
    /\ UNCHANGED <<tables, delivered, forgejo, webhooks, request, now, faults>>

(***************************************************************************)
(* A call fails or the process restarts: errors are logged, never resumed, *)
(* and nothing looks for rows left "publishing" at start-up.               *)
(***************************************************************************)
Interrupt(p) ==
    /\ task[p].pc # "idle"
    /\ faults < MaxFaults
    /\ faults' = faults + 1
    /\ Finish(p)
    /\ UNCHANGED <<tables, world, request, now>>

Tick ==
    /\ now < MaxTime
    /\ now' = now + 1
    /\ UNCHANGED <<tables, world, task, request, faults>>

RequestStep(r) == CreateRepo(r) \/ Enqueue(r) \/ EnqueueFail(r)

LoopStep(w) ==
    \/ Poll(w) \/ Claim(w) \/ ClaimNone(w) \/ PublishOk(w) \/ PublishErr(w)
    \/ MarkSucceeded(w) \/ MarkFailed(w) \/ Count(w)

ProvisionStep(p) ==
    \/ Announce(p) \/ EnsureRepo(p) \/ ListHooks(p) \/ CreateHook(p)
    \/ UpsertMapping(p) \/ InitRepo(p) \/ InstallHooks(p)

Next ==
    \/ \E r \in Requests : RequestStep(r)
    \/ \E w \in Workers : LoopStep(w)
    \/ \E h \in Handlers, e \in Events : PostAnnouncement(h, e)
    \/ \E p \in Tasks : ProvisionStep(p) \/ Interrupt(p)
    \/ Tick

Spec == Init /\ [][Next]_vars

\* The runtime keeps polling every task, calls return, and time passes.
\* A request or a POST need not arrive, and no fault has to happen.
Fairness ==
    /\ \A r \in Requests : WF_vars(Enqueue(r))
    /\ \A w \in Workers : WF_vars(LoopStep(w))
    /\ \A p \in Tasks : WF_vars(ProvisionStep(p))
    /\ WF_vars(Tick)

FairSpec == Spec /\ Fairness
-----------------------------------------------------------------------------
\* Every table and every handler in flight has the shape the code gives it.
TypeOK ==
    /\ outbox \in Seq(Row)
    /\ delivered \subseteq Urls \X Events
    /\ announcements \in [Events -> Routes \union {"none"}]
    /\ forgejo \subseteq ForgejoRepos
    /\ webhooks \in [ForgejoRepos -> Nat]
    /\ mapping \in [Repos -> Routes \union {"none"}]
    /\ disk \in [Repos -> {"none", "bare", "hooked"}]
    /\ task \in [Tasks -> [pc : LoopPcs \union ProvisionPcs, id : Nat, at : Time,
                           event : Events \union {NoEvent}]]
    /\ request \in [Requests -> [pc : {"new", "enqueue", "answered", "failed"},
                                 next : 1 .. Len(RelayUrls)]]
    /\ now \in Time
    /\ faults \in 0 .. MaxFaults

Holding == {"publish", "mark_ok", "mark_failed"}
Holds(p, id) == task[p].pc \in Holding /\ task[p].id = id

\* A row is worked on by at most one outbox loop, and it says "publishing" for
\* as long as it is: neither retries nor several coordinators publish it twice
\* at once (claim_relay_publish, mark_relay_publish_*).
ClaimedByOne ==
    \A p \in Tasks, id \in DOMAIN outbox :
        Holds(p, id) =>
            /\ outbox[id].status = "publishing"
            /\ \A q \in Tasks : Holds(q, id) => q = p

\* A row marked published is on its relay: no failure or retry marks a row
\* whose event the relay never acknowledged.
PublishedWasDelivered ==
    \A id \in DOMAIN outbox :
        outbox[id].status = "published" => <<outbox[id].url, outbox[id].event>> \in delivered

\* A published row never goes back to be published again.
PublishedIsFinal ==
    [][\A id \in DOMAIN outbox :
          outbox[id].status = "published" => outbox'[id].status = "published"]_outbox

\* Rows left "publishing" with no loop working on them are the ones that
\* failed calls and restarts stranded, one each; the loop itself loses none.
StrandedByFaults ==
    Cardinality({id \in DOMAIN outbox :
        outbox[id].status = "publishing" /\ \A p \in Tasks : ~Holds(p, id)}) <= faults

\* An announcement the outbox recorded is on at least one relay.
AnnouncedWasDelivered ==
    \A e \in Events : announcements[e] = "outbox" => \E u \in Urls : <<u, e>> \in delivered

\* One event is provisioned by one task: the UNIQUE event_id stops the others,
\* so a re-announcement or a second finalize never runs beside the first.
ProvisionedByOne ==
    \A p, q \in Tasks :
        (/\ task[p].pc \in ProvisionPcs \ {"announce"}
         /\ task[q].pc \in ProvisionPcs \ {"announce"}
         /\ task[p].event = task[q].event) => p = q

\* A stored mapping points at a Forgejo repository that exists, has the webhook,
\* and was announced: the order of the steps survives faults in between.
MappedIsSetUp ==
    \A k \in Repos : mapping[k] # "none" =>
        /\ <<mapping[k], k>> \in forgejo
        /\ webhooks[<<mapping[k], k>>] > 0
        /\ \E e \in Events : Repo[e] = k /\ announcements[e] = mapping[k]

\* Without faults a bare repository is never left without its hooks.
HooklessByFaults ==
    \A k \in Repos : disk[k] = "bare" =>
        faults > 0 \/ \E p \in Tasks : At(p, "hooks") /\ Key(p) = k

\* README: "POST /v1/repos: create a repo from a signed NIP-34 announcement".
\* Once such a request is answered, its repository is mapped and provisioned.
AnsweredIsProvisioned ==
    \A r \in Requests :
        request[r].pc = "answered" ~>
            mapping[Repo[Posts[r]]] # "none" /\ disk[Repo[Posts[r]]] = "hooked"

\* create_repo_from_signed_event answers when every relay url has its row: an answered
\* request has one for each, whatever the outbox did with the rows meanwhile.
AnsweredIsEnqueued ==
    \A r \in Requests : request[r].pc = "answered" =>
        \A u \in Urls : \E id \in DOMAIN outbox :
            outbox[id].event = Posts[r] /\ outbox[id].url = u

\* The webhooks are listed and created in two calls, so tasks of two announcements of a
\* repository can both create one; but a Forgejo repository never has more of them than
\* announcements were stored for it, whatever fails and is tried again.
OneHookPerAnnouncement ==
    \A f \in ForgejoRepos :
        webhooks[f] <= Cardinality({e \in Events : Repo[e] = f[2] /\ announcements[e] = f[1]})
=============================================================================
