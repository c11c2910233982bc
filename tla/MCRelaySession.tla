---------------------------- MODULE MCRelaySession ----------------------------
(***************************************************************************)
(* Instances of RelaySession for TLC.                                      *)
(***************************************************************************)
EXTENDS RelaySession, TLC

CONSTANTS t1, alice, e1

MCOneTenant == [s \in Sessions |-> t1]
MCSeeds == [t \in Tenants |-> {alice}]
MCNoSeeds == [t \in Tenants |-> {}]
MCAuthor == [e \in Events |-> alice]
MCCreated == [e \in Events |-> IF e = e1 THEN 0 ELSE 1]
MCNothing == [e \in Events |-> {}]

\* e2 is the newer version of the replaceable event e1.
MCReplaces == [e \in Events |-> IF e = e1 THEN {} ELSE {e1}]
MCYields == [e \in Events |-> IF e = e1 THEN Events \ {e1} ELSE {}]

MCUnrelated == [e \in Events |-> <<>>]
MCRelated == [e \in Events |-> IF e = e1 THEN <<>> ELSE << {e1} >>]
MCAll == {Events}

\* For invariants only: nothing tells two sessions or two subscription ids apart.
GapSymmetry == Permutations(Sessions) \union Permutations(SubIds)
=============================================================================
