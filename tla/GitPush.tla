------------------------------- MODULE GitPush -------------------------------
(***************************************************************************)
(* A repository's refs: pushes through the git front end and the           *)
(* pre-receive hook, and the sync that makes the refs follow the           *)
(* repository's state event, while state events and announcements are      *)
(* being replaced.                                                         *)
(*                                                                         *)
(* A push is authorised by the maintainers the front end resolves          *)
(* (Maintainers) and forwarded to git, which runs the hook and then        *)
(* replaces each ref that still has the value the client was told.  The    *)
(* sync plans from a state and a copy of the refs and changes the refs one *)
(* by one.  Ref names are classes of names, commits are names too.         *)
(***************************************************************************)
EXTENDS Maintainers, Sequences

CONSTANTS
    Pushes,         \* pushes; each has a walk of its own
    Refs,           \* refs of the repository besides HEAD
    Class(_),       \* "state", "pr", "nostr", "nostr_invalid" or "unsupported"
    Commits,
    States,         \* state events: functions from ref names to values
    Wants,          \* the updates a client may push: ref -> new value
    Syncs,          \* runs of the sync
    SyncRepos,      \* repositories the sync serves, Repo among them
    Repo,
    max_concurrent, \* configured bound on concurrent syncs
    MaxStates,      \* bound on the state events of a run
    MaxFailures     \* bound on failed calls

Names == Refs \union {"HEAD"}

ASSUME GitAssumption ==
    /\ Pushes \subseteq Walks
    /\ "none" \notin Commits /\ Commits \intersect Refs = {}
    /\ States \subseteq [Names -> Commits \union Refs \union {"none"}]
    /\ \A want \in Wants :
          DOMAIN want \subseteq Refs /\ \A r \in DOMAIN want : want[r] \in Commits \union {"none"}
    /\ Repo \in SyncRepos
    /\ max_concurrent \in Nat
    /\ MaxStates \in Nat
    /\ MaxFailures \in Nat

VARIABLES
    chain,          \* the repository's state events, in the order they became the latest
    refs,           \* the value of each ref, or "none"
    push,           \* each push
    active,         \* SyncLimiter.active
    sync,           \* each run of the sync
    failures        \* failed calls so far

gvars == <<chain, refs, push, active, sync, failures>>
vars == <<wvars, gvars>>

NoState == <<>>
latest == IF chain = <<>> THEN NoState ELSE chain[Len(chain)]

NoPush == [pc |-> "idle", key |-> Owner, want |-> <<>>, old |-> <<>>, left |-> {}]
NoSync == [pc |-> "idle", repo |-> Repo, state |-> NoState, updates |-> {}, deletions |-> {},
           quiet |-> FALSE]

Init ==
    /\ MInit
    /\ chain = <<>>
    /\ refs = [r \in Refs |-> "none"]
    /\ push = [p \in Pushes |-> NoPush]
    /\ active = {}
    /\ sync = [y \in Syncs |-> NoSync]
    /\ failures = 0

\* A sync is disturbed when something it works from is replaced meanwhile.
Disturbed == [y \in Syncs |-> [sync[y] EXCEPT !.quiet = FALSE]]

\* A state event becomes the latest.
Publish(s) ==
    /\ Len(chain) < MaxStates
    /\ chain' = Append(chain, s)
    /\ sync' = Disturbed
    /\ UNCHANGED <<wvars, refs, push, active, failures>>

(***************************************************************************)
(* The hook's decision: evaluate_updates of the core crate.                *)
(***************************************************************************)
\* RepoState::validate: a state that names anything names HEAD, and a symbolic HEAD
\* points at a ref it names.
validate(s) ==
    \/ \A n \in Names : s[n] = "none"
    \/ s["HEAD"] # "none" /\ (s["HEAD"] \in Refs => s[s["HEAD"]] # "none")

\* match_state_ref: a symbolic value is followed once.
resolve_ref_value(s, r) == IF s[r] \in Refs THEN s[s[r]] ELSE s[r]

evaluate_ref_update(r, new, s) ==
    \/ Class(r) = "nostr"
    \/ /\ Class(r) = "state"
       /\ s # NoState /\ validate(s)
       /\ s[r] # "none" /\ resolve_ref_value(s, r) = new

\* Mutant: one update that matches is enough.
evaluate_updates_any(want, s) ==
    /\ s # NoState => validate(s)
    /\ \E r \in DOMAIN want : evaluate_ref_update(r, want[r], s)

evaluate_updates(want, s) ==
    /\ s # NoState => validate(s)
    /\ \A r \in DOMAIN want : evaluate_ref_update(r, want[r], s)

\* evaluate_pre_receive asks for the state only when a ref needs it.
needs_state(want) == \E r \in DOMAIN want : Class(r) \notin {"nostr", "nostr_invalid"}

(***************************************************************************)
(* A push.                                                                 *)
(***************************************************************************)
PushAt(p, pc) == push[p].pc = pc
PushTo(p, pc) == push' = [push EXCEPT ![p].pc = pc]

\* info/refs: the client learns the refs' values; anyone may ask.
InfoRefs(p, k, want) ==
    /\ PushAt(p, "idle")
    /\ push' = [push EXCEPT ![p] = [pc |-> "ready", key |-> k, want |-> want, old |-> refs,
                                    left |-> DOMAIN want]]
    /\ UNCHANGED <<wvars, chain, refs, active, sync, failures>>

\* git-receive-pack: the signature is valid; the maintainers are resolved.
ReceivePack(p) ==
    /\ PushAt(p, "ready")
    /\ BeginWalk(p, "git_http")
    /\ PushTo(p, "walking")
    /\ UNCHANGED <<chain, refs, active, sync, failures>>

\* The signer must be one of them; a failed walk refuses the request.
Authorize(p) ==
    /\ PushAt(p, "walking")
    /\ walk[p].pc \in {"resolved", "failed"}
    /\ PushTo(p, IF walk[p].pc = "resolved" /\ push[p].key \in walk[p].seen
                 THEN "forwarded" ELSE "refused")
    /\ UNCHANGED <<wvars, chain, refs, active, sync, failures>>

\* The hook's own call for the state fails, which rejects the push.
HookFails(p) ==
    /\ PushAt(p, "forwarded")
    /\ needs_state(push[p].want)
    /\ failures < MaxFailures
    /\ failures' = failures + 1
    /\ PushTo(p, "refused")
    /\ UNCHANGED <<wvars, chain, refs, active, sync>>

\* Mutant: the hook decides by a state it has kept from the repository's first one.
PreReceiveKept(p) ==
    /\ PushAt(p, "forwarded")
    /\ LET s == IF chain # <<>> THEN chain[1] ELSE NoState
       IN  PushTo(p, IF evaluate_updates(push[p].want, s) THEN "accepted" ELSE "refused")
    /\ UNCHANGED <<wvars, chain, refs, active, sync, failures>>

PreReceive(p) ==
    /\ PushAt(p, "forwarded")
    /\ LET s == IF needs_state(push[p].want) THEN latest ELSE NoState
       IN  PushTo(p, IF evaluate_updates(push[p].want, s) THEN "accepted" ELSE "refused")
    /\ UNCHANGED <<wvars, chain, refs, active, sync, failures>>

\* git replaces a ref only if it still has the value the client was told.
ReplaceRef(p, r) ==
    /\ PushAt(p, "accepted")
    /\ r \in push[p].left
    /\ refs' = IF refs[r] = push[p].old[r] THEN [refs EXCEPT ![r] = push[p].want[r]] ELSE refs
    /\ push' = [push EXCEPT ![p].left = @ \ {r}]
    /\ sync' = Disturbed
    /\ UNCHANGED <<wvars, chain, active, failures>>

\* post-receive tells the sync service, which only acknowledges; an error is ignored.
PostReceive(p) ==
    /\ PushAt(p, "accepted")
    /\ push[p].left = {}
    /\ PushTo(p, "done")
    /\ UNCHANGED <<wvars, chain, refs, active, sync, failures>>

(***************************************************************************)
(* The sync: the scheduler's limiter, build_sync_plan, execute_sync_plan.  *)
(* What calls them is not in the repository.                               *)
(***************************************************************************)
SyncAt(y, pc) == sync[y].pc = pc

limit == IF max_concurrent = 0 THEN 1 ELSE max_concurrent

\* SyncLimiter::try_start.
may_start(repo) == repo \notin active /\ Cardinality(active) < limit

\* A sync starts and reads the latest state.
StartSync(y, repo) ==
    /\ SyncAt(y, "idle")
    /\ may_start(repo)
    /\ repo = Repo => latest # NoState
    /\ active' = active \union {repo}
    /\ sync' = [sync EXCEPT ![y] = [NoSync EXCEPT !.pc = IF repo = Repo THEN "plan" ELSE "finish",
                                                 !.repo = repo, !.state = latest, !.quiet = TRUE]]
    /\ UNCHANGED <<wvars, chain, refs, push, failures>>

\* Mutant: only refs that are missing are updated.
plan_updates_missing(s) == {r \in Refs : s[r] # "none" /\ refs[r] = "none"}

\* build_sync_plan: HEAD is left out, a symbolic value is not resolved, and a state the
\* hook would refuse is planned from like any other.
plan_updates(s) == {r \in Refs : s[r] # "none" /\ refs[r] # s[r]}
plan_deletions(s) == {r \in Refs : refs[r] # "none" /\ s[r] = "none"}

PlanSync(y) ==
    /\ SyncAt(y, "plan")
    /\ sync' = [sync EXCEPT ![y].pc = "run", ![y].updates = plan_updates(sync[y].state),
                            ![y].deletions = plan_deletions(sync[y].state)]
    /\ UNCHANGED <<wvars, chain, refs, push, active, failures>>

\* git update-ref: whatever the ref's value is by now; a symbolic value is no commit.
UpdateRef(y, r) ==
    /\ SyncAt(y, "run")
    /\ r \in sync[y].updates
    /\ sync[y].state[r] \in Commits
    /\ refs' = [refs EXCEPT ![r] = sync[y].state[r]]
    /\ sync' = [sync EXCEPT ![y].updates = @ \ {r}]
    /\ UNCHANGED <<wvars, chain, push, active, failures>>

\* Deletions come after the updates.
DeleteRef(y, r) ==
    /\ SyncAt(y, "run")
    /\ sync[y].updates = {}
    /\ r \in sync[y].deletions
    /\ refs' = [refs EXCEPT ![r] = "none"]
    /\ sync' = [sync EXCEPT ![y].deletions = @ \ {r}]
    /\ UNCHANGED <<wvars, chain, push, active, failures>>

\* A change that fails is reported and the others go on.
FailRef(y, r) ==
    /\ SyncAt(y, "run")
    /\ IF r \in sync[y].updates
       THEN sync' = [sync EXCEPT ![y].updates = @ \ {r}, ![y].quiet = FALSE]
       ELSE /\ sync[y].updates = {} /\ r \in sync[y].deletions
            /\ sync' = [sync EXCEPT ![y].deletions = @ \ {r}, ![y].quiet = FALSE]
    /\ IF r \in sync[y].updates /\ sync[y].state[r] \notin Commits THEN UNCHANGED failures
       ELSE failures < MaxFailures /\ failures' = failures + 1
    /\ UNCHANGED <<wvars, chain, refs, push, active>>

\* The report is made and SyncLimiter::finish frees the repository.
FinishSync(y) ==
    /\ \/ SyncAt(y, "finish")
       \/ SyncAt(y, "run") /\ sync[y].updates = {} /\ sync[y].deletions = {}
    /\ active' = active \ {sync[y].repo}
    /\ sync' = [sync EXCEPT ![y].pc = "done"]
    /\ UNCHANGED <<wvars, chain, refs, push, failures>>

(***************************************************************************)
PushStep(p) ==
    \/ ReceivePack(p) \/ Authorize(p) \/ PreReceive(p)
    \/ (\E r \in Refs : ReplaceRef(p, r)) \/ PostReceive(p)

SyncStep(y) ==
    \/ PlanSync(y) \/ FinishSync(y)
    \/ \E r \in Refs : UpdateRef(y, r) \/ DeleteRef(y, r) \/ FailRef(y, r)

Walking ==
    /\ \/ \E k \in Keys, l \in SUBSET Keys : Announce(k, l)
       \/ \E w \in Walks : WalkStep(w) \/ FailWalk(w)
       \/ \E w \in Walks \ Pushes : BeginWalk(w, "state")
    /\ UNCHANGED gvars

Next ==
    \/ Walking
    \/ \E s \in States : Publish(s)
    \/ \E p \in Pushes :
          \/ \E k \in Keys, want \in Wants : InfoRefs(p, k, want)
          \/ PushStep(p) \/ HookFails(p)
    \/ \E y \in Syncs : (\E repo \in SyncRepos : StartSync(y, repo)) \/ SyncStep(y)

Spec == Init /\ [][Next]_vars

(***************************************************************************)
(* Properties                                                              *)
(***************************************************************************)
\* Type invariant.
TypeOK ==
    /\ WalkTypeOK
    /\ chain \in Seq(States) /\ Len(chain) <= MaxStates
    /\ refs \in [Refs -> Commits \union {"none"}]
    /\ \A p \in Pushes :
          /\ push[p].pc \in {"idle", "ready", "walking", "forwarded", "accepted", "refused", "done"}
          /\ push[p].key \in Keys /\ push[p].left \subseteq Refs
    /\ active \subseteq SyncRepos
    /\ \A y \in Syncs :
          /\ sync[y].pc \in {"idle", "plan", "run", "finish", "done"}
          /\ sync[y].updates \subseteq Refs /\ sync[y].deletions \subseteq Refs
    /\ failures \in 0..MaxFailures

\* authorize_receive_pack: a push reaches git only with a key that announcements
\* current at some time during its walk lead to from the owner.
PushedByMaintainer ==
    \A p \in Pushes : push[p].pc \in {"forwarded", "accepted", "done"} =>
        \A S \in SUBSET Keys : ClosedUnder(S, walk[p].ever) => push[p].key \in S

\* The states of the chain that give r the value v.
Naming(r, v) == {i \in 1..Len(chain) : chain[i][r] # "none" /\ resolve_ref_value(chain[i], r) = v}

\* A push may mix refs that need the state with ones that do not, and the state may be
\* replaced while it is applied: a branch or tag only ever has a value that a state
\* event named, and a ref of any other kind than refs/nostr only what a state names.
RefsFollowStates ==
    \A r \in Refs : Class(r) # "nostr" /\ refs[r] # "none" => Naming(r, refs[r]) # {}

\* The hook reads the state after git told the client the refs' values, and git
\* compares them when it replaces a ref: a push never puts a branch back to a value
\* whose last state is older than the first state of the value it replaces.
PushNeverGoesBack ==
    [][\A p \in Pushes, r \in Refs :
        ReplaceRef(p, r) /\ refs'[r] # refs[r] /\ Class(r) = "state" /\ refs[r] # "none" =>
          \E i \in Naming(r, refs[r]), j \in Naming(r, refs'[r]) : i <= j]_vars

\* A sync that ran with nothing replaced meanwhile and no failure leaves the refs as its
\* state says, whatever order git changed them in: none missing, stale or left over, the
\* refs/nostr of a push included.
SyncedMatches ==
    \A y \in Syncs : sync[y].pc = "done" /\ sync[y].repo = Repo /\ sync[y].quiet =>
        \A r \in Refs : refs[r] = sync[y].state[r]

Running == {y \in Syncs : sync[y].pc \in {"plan", "run", "finish"}}

\* SyncLimiter: a sync takes a slot under its repository's name and frees it by that name
\* many steps later.  The slots taken are always those of the running syncs, so none is
\* lost and none freed for another; no repository is synced twice at once, and no more
\* syncs run than configured, one if that is zero.
SyncsAreLimited ==
    /\ active = {sync[y].repo : y \in Running}
    /\ \A y, z \in Running : sync[y].repo = sync[z].repo => y = z
    /\ Cardinality(Running) <= limit

\* build_sync_plan after execute_sync_plan: once a sync has run with nothing replaced and
\* no failure, and until something is replaced, every further sync has nothing to do.
SyncsSettle ==
    \A y, z \in Syncs :
        (sync[z].pc = "done" /\ sync[z].repo = Repo /\ sync[z].quiet /\ sync[y].pc = "run") =>
            sync[y].updates = {} /\ sync[y].deletions = {}

\* execute_sync_plan works from a state read long before: what it writes to a ref, or
\* deletes, is what the latest state says, unless something was replaced meanwhile.
SyncsWriteTheLatest ==
    [][\A y \in Syncs, r \in Refs :
        (UpdateRef(y, r) \/ DeleteRef(y, r)) /\ sync[y].quiet => refs'[r] = latest[r]]_vars
=============================================================================
