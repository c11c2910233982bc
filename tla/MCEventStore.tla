----------------------------- MODULE MCEventStore -----------------------------
(***************************************************************************)
(* The instance of RepositoryStore that TLC checks.  Versions v1, v2, v3   *)
(* of one replaceable event, p of another, and a deletion d of p by its id *)
(* and of both replaceable keys, dated after v1 and p and before v2 and    *)
(* v3, which compete at one date.                                          *)
(***************************************************************************)
EXTENDS RepositoryStore, TLC

CONSTANTS v1, v2, v3, p, d, k, k2, alice

MCAuthor == [e \in Events |-> alice]
MCCreatedAt == [e \in Events |-> IF e \in {v1, p} THEN 1 ELSE IF e = d THEN 2 ELSE 3]
MCKey == [e \in Events |-> IF e \in {v1, v2, v3} THEN k ELSE IF e = p THEN k2 ELSE NoKey]
MCDeletesId == [e \in Events |-> IF e = d THEN {p} ELSE {}]
MCDeletesKey == [e \in Events |-> IF e = d THEN {k, k2} ELSE {}]

\* The connections are interchangeable.
WriterSymmetry == Permutations(Writers)
=============================================================================
