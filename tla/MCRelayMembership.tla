-------------------------- MODULE MCRelayMembership --------------------------
(***************************************************************************)
(* The instance of RelayMembership that TLC checks, in two deployments.    *)
(* "race": two connections to the one tenant, at one time.  "serial": two  *)
(* tenants and a clock that runs, but one connection, and one handler of   *)
(* it or of the control plane at a time, the tenants created in order,     *)
(* without failures and before anybody connects or the clock ticks; after  *)
(* the tick only the first tenant is visited.  There is one invite code.   *)
(***************************************************************************)
EXTENDS RelayMembership, TLC

CONSTANTS t1, t2, alice, bob, k1, k2, r1, r2

\* Two requests create two tenants, for two callers.
MCHost == [r \in Requests |-> IF r = r1 THEN t1 ELSE t2]
MCCaller == [r \in Requests |-> IF r = r1 THEN alice ELSE bob]
MCKeys == [r \in Requests |-> IF r = r1 THEN k1 ELSE k2]

VARIABLE deployment   \* "race" or "serial"

mcvars == <<vars, deployment>>

\* At most one handler of a request or of a session is in flight.
OneHandler ==
    LET creating == {r \in Requests : request[r].pc \in {"lookup", "upsert_tenant", "upsert_owner"}}
    IN  Cardinality(creating) + Cardinality({s \in Sessions : ~IsAt(s, "idle")}) <= 1

InDeployment ==
    \/ deployment = "race" /\ now = 0 /\ request[r2].pc = "new"
    \/ /\ deployment = "serial" /\ OneHandler
       /\ Cardinality({s \in Sessions : session[s].tenant # NoTenant}) <= 1
       /\ \A r \in Requests : request[r].pc # "failed"
       /\ request[r2].pc # "new" => request[r1].pc = "created"
       /\ now > 0 => request[r2].pc = "created"
       /\ \A s \in Sessions : session[s].tenant # NoTenant =>
              request[r2].pc = "created" /\ (now > 0 => session[s].tenant = t1)

MCInit == Init /\ deployment \in {"race", "serial"}

MCNext ==
    /\ Next
    /\ UNCHANGED deployment
    /\ InDeployment'

MCSpec == MCInit /\ [][MCNext]_mcvars

\* The connections are interchangeable.
SessionSymmetry == Permutations(Sessions)
=============================================================================
