--------------------------- MODULE MembershipTable ---------------------------
(***************************************************************************)
(* What the membership tables of the relay promise, without the handlers   *)
(* that keep them: who may write to a tenant (active), and who ever had a  *)
(* row there (known).  A tenant starts with the keys its creation seeds;   *)
(* everybody else is vouched for by somebody the tenant already knows.     *)
(* RelayMembership implements this specification; RelaySession reads it.   *)
(***************************************************************************)
CONSTANTS Tenants, Pubkeys

\* Per tenant, the public keys that creating or serving it may seed.
CONSTANT SeedKeys

ASSUME SeedKeysAssumption == SeedKeys \in [Tenants -> SUBSET Pubkeys]

VARIABLES active, known

tableVars == <<active, known>>

TableTypeOK ==
    /\ active \in [Tenants -> SUBSET Pubkeys]
    /\ known \in [Tenants -> SUBSET Pubkeys]

TableInit ==
    /\ active = [t \in Tenants |-> {}]
    /\ known = [t \in Tenants |-> {}]

\* A seeded key, or a key some known member invited, becomes active.
Admit(t, p) ==
    /\ p \in SeedKeys[t] \/ known[t] # {}
    /\ active' = [active EXCEPT ![t] = @ \union {p}]
    /\ known' = [known EXCEPT ![t] = @ \union {p}]

\* A key that was admitted once leaves; its row stays behind.
Revoke(t, p) ==
    /\ p \in known[t]
    /\ active' = [active EXCEPT ![t] = @ \ {p}]
    /\ UNCHANGED known

TableNext == \E t \in Tenants, p \in Pubkeys : Admit(t, p) \/ Revoke(t, p)

TableSpec == TableInit /\ [][TableNext]_tableVars
=============================================================================
