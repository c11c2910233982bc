--------------------------- MODULE MCPublishOutbox ---------------------------
(***************************************************************************)
(* Instances of PublishOutbox for TLC: one repository, announced once or   *)
(* twice, published to two relays.                                         *)
(***************************************************************************)
EXTENDS PublishOutbox, TLC

CONSTANTS repo, u1, u2, e1, r1

MCRepo == [e \in Events |-> repo]
MCPosts == [r \in Requests |-> IF r = r1 THEN e1 ELSE CHOOSE e \in Events : e # e1]
MCOneRelay == <<u1>>
MCTwoRelays == <<u1, u2>>

WorkerSymmetry == Permutations(Workers)
=============================================================================
