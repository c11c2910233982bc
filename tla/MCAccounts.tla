----------------------------- MODULE MCAccounts -----------------------------
(* Model-checking instance of Accounts: two signups, a read and two patches. *)
EXTENDS Accounts

KindOf == [r \in Requests |->
    CASE r \in {"s1", "s2"} -> "signup" [] r = "g" -> "get" [] OTHER -> "patch"]

\* The patches share one field.
SetsOf == [r \in Requests |->
    CASE r = "p1" -> {"bio", "visibility"} [] r = "p2" -> {"visibility"} [] OTHER -> {}]
=============================================================================
