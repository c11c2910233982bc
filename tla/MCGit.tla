-------------------------------- MODULE MCGit --------------------------------
(***************************************************************************)
(* Model-checking instance of GitPush.  Authorisation and the refs share   *)
(* only the step that forwards a push, so each is explored with the other  *)
(* at rest.  "walk": announcements change during one walk, no state is     *)
(* published.  "push": two pushes of the owner and no sync.  "sync": one   *)
(* push and two syncs.  In the last two a walk is not interrupted.         *)
(***************************************************************************)
EXTENDS GitPush, TLC

VARIABLE scenario

ClassOf(r) == CASE r = "n" -> "nostr" [] r = "bad" -> "nostr_invalid" [] OTHER -> "state"

StateEvent(head, main, tag) ==
    [n \in Names |-> CASE n = "HEAD" -> head [] n = "main" -> main [] n = "tag" -> tag
                       [] OTHER -> "none"]

\* The second moves the branch and adds a tag that is a symbolic name of it, the third
\* has no HEAD and moves it too.
StateEvents == {StateEvent("main", "c1", "none"), StateEvent("main", "c2", "main"),
                StateEvent("none", "c3", "none")}

\* A push of one ref, of two, of one that needs no state, of one that is never accepted.
Updates == {[main |-> "c1"], [main |-> "c2", n |-> "c1"], [tag |-> "c2"], [n |-> "c1"],
            [bad |-> "c1", n |-> "c1"]}

MCInit ==
    /\ Init
    /\ scenario \in {"walk", "push", "sync"}
    /\ scenario # "walk" => announced = {}

Walkers == {w \in Walks : walk[w].pc = "walking"}

MCNext ==
    /\ Next
    /\ UNCHANGED scenario
    /\ scenario = "walk" => /\ UNCHANGED <<chain, sync, active>>
                            /\ published' # published => Walkers # {}
                            /\ \A p \in Pushes : DOMAIN push'[p].want \subseteq {"n"}
                            /\ \A p \in Pushes \ {"p1"} : push'[p] = push[p]
                            /\ walk'["q"] = walk["q"] \/ push = [p \in Pushes |-> NoPush]
                            /\ push' = push \/ walk["q"] = Idle
    /\ scenario # "walk" => /\ UNCHANGED published
                            /\ Walkers # {} => UNCHANGED gvars
                            /\ \A p \in Pushes : push'[p].key = Owner
                            /\ walk'["q"] = walk["q"]
    /\ scenario = "push" => UNCHANGED active
    /\ scenario = "sync" => push'["p2"] = push["p2"]

MCSpec == MCInit /\ [][MCNext]_<<vars, scenario>>

KeySymmetry == Permutations(Keys \ {Owner})
=============================================================================
