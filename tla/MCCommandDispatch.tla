-------------------------- MODULE MCCommandDispatch --------------------------
(***************************************************************************)
(* Instances of CommandDispatch for TLC: the commands of one actor on an   *)
(* account, a profile and a repository.                                    *)
(***************************************************************************)
EXTENDS CommandDispatch, TLC

CONSTANTS alice, bob, name, site, repo

MCVerb == [c \in Commands |->
    CASE c = "create" -> "account_create"
      [] c = "delete" -> "account_delete"
      [] c = "status" -> "account_status"
      [] c \in {"name", "site"} -> "profile_set"
      [] c \in {"repo", "repo2"} -> "repo_create"
      [] c = "update" -> "repo_update"
      [] c = "add" -> "maintainer_add"
      [] c = "leave" -> "maintainer_remove"
      [] c = "sync" -> "accepted_only"
      [] c = "bad_account" -> "account_invalid"
      [] c = "bad_profile" -> "profile_invalid"
      [] c = "bad_maintainer" -> "maintainer_invalid"
      [] OTHER -> "repo_invalid"]
MCActor == [c \in Commands |-> alice]
MCTarget == [c \in Commands |->
    IF c \in {"repo", "repo2", "update", "add", "leave", "sync", "bad_maintainer"} THEN repo ELSE NoName]
MCSets == [c \in Commands |->
    IF c = "name" THEN {name} ELSE IF c \in {"site", "update"} THEN {site} ELSE {}]
MCWhom == [c \in Commands |-> IF c = "add" THEN bob ELSE alice]
RelaySymmetry == Permutations(Relays)
=============================================================================
