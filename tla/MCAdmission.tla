----------------------------- MODULE MCAdmission -----------------------------
(***************************************************************************)
(* The instance of Admission that TLC checks: a patch, which needs the     *)
(* repository, and an announcement that lists the relay.                   *)
(***************************************************************************)
EXTENDS Admission, TLC

KindOf(e) == IF e = "patch" THEN "other" ELSE "announcement"
ListsHost(e, u) == TRUE

RequestSymmetry == Permutations(Requests)
=============================================================================
