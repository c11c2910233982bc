----------------------------- MODULE Maintainers -----------------------------
(***************************************************************************)
(* Who may push: resolve_maintainers of the git front end and of the state *)
(* service, while the announcements it follows are being replaced.         *)
(*                                                                         *)
(* A repository's maintainers are its owner, the keys the owner's latest   *)
(* announcement lists, those their announcements list, and so on.  The     *)
(* walk reads one announcement per database call, so it can see a graph of *)
(* announcements that was never there at one instant.  The stack of the    *)
(* code is a set here, popped in any order: pushing a key twice only means *)
(* that its second pop is skipped.                                         *)
(***************************************************************************)
EXTENDS Naturals, FiniteSets

CONSTANTS
    Keys,           \* public keys
    Owner,          \* the repository's key
    Walks,          \* runs of resolve_maintainers
    MaxAnnounced    \* bound on the announcements published during a run

ASSUME MaintainersAssumption ==
    /\ Owner \in Keys
    /\ MaxAnnounced \in Nat

VARIABLES
    announced,      \* keys with an announcement for this repository
    lists,          \* the keys each key's latest announcement lists
    published,      \* announcements published so far
    walk            \* each run of resolve_maintainers

wvars == <<announced, lists, published, walk>>

Services == {"git_http", "state"}
Idle == [pc |-> "idle", service |-> "git_http", pending |-> {}, seen |-> {},
         known |-> {}, ever |-> [k \in Keys |-> {}], always |-> [k \in Keys |-> {}]]

MInit ==
    /\ announced \in SUBSET Keys
    /\ lists \in {l \in [Keys -> SUBSET Keys] : \A k \in Keys \ announced : l[k] = {}}
    /\ published = 0
    /\ walk = [w \in Walks |-> Idle]

\* A key's announcement is replaced.  A walk's history keeps, per key, every key it
\* has listed since the walk began and the keys it has listed all along; known are the
\* keys that had an announcement when it began.
Announce(k, l) ==
    /\ published < MaxAnnounced
    /\ published' = published + 1
    /\ announced' = announced \union {k}
    /\ lists' = [lists EXCEPT ![k] = l]
    /\ walk' = [w \in Walks |->
                  IF walk[w].pc # "walking" THEN walk[w]
                  ELSE [walk[w] EXCEPT !.ever[k] = @ \union l, !.always[k] = @ \intersect l]]

\* Mutant: the walk starts from every key that has announced the repository.
BeginWalkAnnounced(w, s) ==
    /\ walk[w].pc = "idle"
    /\ walk' = [walk EXCEPT ![w] = [pc |-> "walking", service |-> s,
                                    pending |-> {Owner} \union announced,
                                    seen |-> {}, known |-> announced,
                                    ever |-> lists, always |-> lists]]
    /\ UNCHANGED <<announced, lists, published>>

BeginWalk(w, s) ==
    /\ walk[w].pc = "idle"
    /\ walk' = [walk EXCEPT ![w] = [pc |-> "walking", service |-> s, pending |-> {Owner},
                                    seen |-> {}, known |-> announced,
                                    ever |-> lists, always |-> lists]]
    /\ UNCHANGED <<announced, lists, published>>

\* Mutant: the keys already waiting are dropped when a list is followed.
FollowAlone(w, k) == lists[k] \ (walk[w].seen \union {k})

\* The stack after the announcement of k was read: its keys not seen yet are pushed.
Follow(w, k) == (walk[w].pending \ {k}) \union (lists[k] \ (walk[w].seen \union {k}))

\* git_http counts a key before it looks for its announcement; the state service
\* counts only keys that have one.
Counted(w, k) ==
    walk[w].seen \union (IF walk[w].service = "git_http" \/ k \in announced THEN {k} ELSE {})

\* One turn of the loop: a key is popped and its latest announcement read.
Visit(w, k) ==
    /\ walk[w].pc = "walking"
    /\ k \in walk[w].pending
    /\ walk' = [walk EXCEPT ![w].pending = Follow(w, k), ![w].seen = Counted(w, k)]
    /\ UNCHANGED <<announced, lists, published>>

\* The stack is empty: the keys seen are the maintainers.
EndWalk(w) ==
    /\ walk[w].pc = "walking"
    /\ walk[w].pending = {}
    /\ walk' = [walk EXCEPT ![w].pc = "resolved"]
    /\ UNCHANGED <<announced, lists, published>>

\* A database error ends the request.
FailWalk(w) ==
    /\ walk[w].pc = "walking"
    /\ walk[w].pending # {}
    /\ walk' = [walk EXCEPT ![w].pc = "failed"]
    /\ UNCHANGED <<announced, lists, published>>

WalkStep(w) == (\E k \in Keys : Visit(w, k)) \/ EndWalk(w)

MNext ==
    \/ \E k \in Keys, l \in SUBSET Keys : Announce(k, l)
    \/ \E w \in Walks : (\E s \in Services : BeginWalk(w, s)) \/ WalkStep(w) \/ FailWalk(w)

(***************************************************************************)
(* Properties                                                              *)
(***************************************************************************)
Runs == [pc : {"idle", "walking", "resolved", "failed"}, service : Services,
         pending : SUBSET Keys, seen : SUBSET Keys, known : SUBSET Keys,
         ever : [Keys -> SUBSET Keys], always : [Keys -> SUBSET Keys]]

\* Type invariant.
WalkTypeOK ==
    /\ announced \in SUBSET Keys
    /\ lists \in [Keys -> SUBSET Keys]
    /\ published \in 0..MaxAnnounced
    /\ walk \in [Walks -> Runs]

\* S contains the owner and whatever a key in it lists.
ClosedUnder(S, g) == Owner \in S /\ \A k \in S : g[k] \subseteq S

\* resolve_maintainers reads announcements one by one: a key it returns is reached from
\* the owner along announcements each of which was the latest at some time during the
\* walk, so a key nobody listed in that time is never let in.
ResolvedWasListed ==
    \A w \in Walks : walk[w].pc = "resolved" =>
        \A S \in SUBSET Keys : ClosedUnder(S, walk[w].ever) => walk[w].seen \subseteq S

\* The keys a walk has to return when it reaches them.
Owed(w) == IF walk[w].service = "git_http" THEN Keys ELSE walk[w].known

\* A key reached from the owner along announcements that stood during the whole walk is
\* found by it, in whatever order the keys are visited: the git front end returns every
\* such key, the state service those that had an announcement.
ResolvedIsComplete ==
    \A w \in Walks : walk[w].pc = "resolved" =>
        /\ Owner \in Owed(w) => Owner \in walk[w].seen
        /\ \A k \in walk[w].seen : walk[w].always[k] \intersect Owed(w) \subseteq walk[w].seen

\* Announcements may list each other in a circle: a key the walk has counted is never
\* waiting to be looked up again, so the walk ends after at most one call per counted
\* key and one per listing of a key that has no announcement.
NeverRevisits == \A w \in Walks : walk[w].pending \intersect walk[w].seen = {}

\* While no announcement is replaced, resolve_maintainers of the git front end returns
\* exactly the keys the announcements lead to from the owner: the least set that holds
\* the owner and whatever its keys list.
QuietWalksAreExact ==
    \A w \in Walks :
        (/\ walk[w].pc = "resolved" /\ walk[w].service = "git_http"
         /\ walk[w].ever = walk[w].always) =>
            /\ ClosedUnder(walk[w].seen, walk[w].ever)
            /\ \A S \in SUBSET Keys : ClosedUnder(S, walk[w].ever) => walk[w].seen \subseteq S
=============================================================================
