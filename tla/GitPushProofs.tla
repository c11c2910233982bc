---------------------------- MODULE GitPushProofs ----------------------------
(***************************************************************************)
(* Proofs for the maintainer walk, for the pushes it authorises and for    *)
(* what pushes and syncs make of the refs, for any keys, any number of     *)
(* walks, pushes, syncs and announcements, and any state events.           *)
(*                                                                         *)
(* The walk's invariant holds its work list together: what is seen or      *)
(* waiting lies in every set closed under the listings of the walk's time  *)
(* (Upper), and what a seen key has listed all along is seen or waiting    *)
(* (Lower).  When nothing is waiting the two give the properties.          *)
(*                                                                         *)
(* The refs' invariant says of every value in flight, in a ref, a push or  *)
(* a plan, which state of the chain named it (RefsInv), and of a quiet     *)
(* sync that what it has not still to change is as its state says          *)
(* (SyncInv).                                                              *)
(***************************************************************************)
EXTENDS GitPush, FiniteSetTheorems, TLAPS

\* The listings of the walk's time contain the current ones and those contain the
\* ones that stood.
Framed(w) ==
    /\ walk[w].known \subseteq announced
    /\ \A k \in Keys : lists[k] \subseteq walk[w].ever[k] /\ walk[w].always[k] \subseteq lists[k]

Upper(w) ==
    \A S \in SUBSET Keys :
        ClosedUnder(S, walk[w].ever) => walk[w].seen \union walk[w].pending \subseteq S

Lower(w) ==
    /\ Owner \in Owed(w) => Owner \in walk[w].seen \union walk[w].pending
    /\ \A k \in walk[w].seen :
          walk[w].always[k] \intersect Owed(w) \subseteq walk[w].seen \union walk[w].pending

WalkInv(w) ==
    /\ walk[w].pc = "walking" => Framed(w)
    /\ walk[w].pc \in {"walking", "resolved"} => Upper(w) /\ Lower(w)
    /\ walk[w].pc = "resolved" => walk[w].pending = {}
    /\ walk[w].pending \intersect walk[w].seen = {}

MInv == WalkTypeOK /\ \A w \in Walks : WalkInv(w)

LEMMA IdleIsRun == Idle \in Runs
  BY Zenon DEF Idle, Runs, Services

LEMMA MInitInv == MInit => MInv
<1> SUFFICES ASSUME MInit PROVE MInv
  OBVIOUS
<1>1. WalkTypeOK
  BY IdleIsRun, MaintainersAssumption DEF MInit, WalkTypeOK
<1>2. ASSUME NEW w \in Walks PROVE WalkInv(w)
  BY Zenon DEF MInit, WalkInv, Idle
<1> QED BY <1>1, <1>2, Zenon DEF MInv

LEMMA MTypes == WalkTypeOK /\ [MNext]_wvars => WalkTypeOK'
<1> SUFFICES ASSUME WalkTypeOK, [MNext]_wvars PROVE WalkTypeOK'
  OBVIOUS
<1> USE MaintainersAssumption
<1>0. walk \in [Walks -> Runs] /\ lists \in [Keys -> SUBSET Keys] /\ announced \in SUBSET Keys
      /\ published \in 0..MaxAnnounced
  BY Zenon DEF WalkTypeOK
<1>1. ASSUME NEW k \in Keys, NEW l \in SUBSET Keys, Announce(k, l) PROVE WalkTypeOK'
  <2>1. ASSUME NEW w \in Walks
        PROVE  [walk[w] EXCEPT !.ever[k] = @ \union l, !.always[k] = @ \intersect l] \in Runs
    <3>1. walk[w] \in Runs BY <1>0, Zenon
    <3>2. PICK old \in Runs : old = walk[w] BY <3>1, Zenon
    <3>3. old.ever \in [Keys -> SUBSET Keys] /\ old.always \in [Keys -> SUBSET Keys] BY Zenon DEF Runs
    <3>4. /\ [old.ever EXCEPT ![k] = @ \union l] \in [Keys -> SUBSET Keys]
          /\ [old.always EXCEPT ![k] = @ \intersect l] \in [Keys -> SUBSET Keys]
      BY <3>3, Zenon
    <3>5. [old EXCEPT !.ever = [old.ever EXCEPT ![k] = @ \union l],
                      !.always = [old.always EXCEPT ![k] = @ \intersect l]] \in Runs
      BY <3>4, Zenon DEF Runs
    <3>6. [old EXCEPT !.ever[k] = @ \union l, !.always[k] = @ \intersect l] =
          [old EXCEPT !.ever = [old.ever EXCEPT ![k] = @ \union l],
                      !.always = [old.always EXCEPT ![k] = @ \intersect l]]
      BY Zenon DEF Runs
    <3> QED BY <3>2, <3>5, <3>6, Zenon
  <2>2. walk' \in [Walks -> Runs] BY <1>0, <1>1, <2>1, Zenon DEF Announce
  <2>3. lists' \in [Keys -> SUBSET Keys] /\ announced' \in SUBSET Keys
    BY <1>0, <1>1, Zenon DEF Announce
  <2>4. published < MaxAnnounced /\ published' = published + 1 BY <1>1, Zenon DEF Announce
  <2>5. published' \in 0..MaxAnnounced BY <1>0, <2>4
  <2> QED BY <2>2, <2>3, <2>5, Zenon DEF WalkTypeOK
<1>2. ASSUME NEW w \in Walks, NEW s \in Services, BeginWalk(w, s) PROVE WalkTypeOK'
  <2>1. [pc |-> "walking", service |-> s, pending |-> {Owner}, seen |-> {},
         known |-> announced, ever |-> lists, always |-> lists] \in Runs
    BY <1>0, Zenon DEF Runs
  <2> QED BY <1>0, <1>2, <2>1, Zenon DEF WalkTypeOK, BeginWalk
<1>3. ASSUME NEW w \in Walks, NEW k \in Keys, Visit(w, k) PROVE WalkTypeOK'
  <2>1. walk[w] \in Runs /\ lists[k] \subseteq Keys BY <1>0, Zenon
  <2>2. Follow(w, k) \subseteq Keys /\ Counted(w, k) \subseteq Keys
    BY <2>1, Zenon DEF Follow, Counted, Runs
  <2>3. [walk[w] EXCEPT !.pending = Follow(w, k), !.seen = Counted(w, k)] \in Runs
    BY <2>1, <2>2, Zenon DEF Runs
  <2>4. walk' = [walk EXCEPT ![w] = [walk[w] EXCEPT !.pending = Follow(w, k), !.seen = Counted(w, k)]]
    BY <1>0, <1>3, Zenon DEF Visit
  <2> QED BY <1>0, <1>3, <2>3, <2>4, ZenonT(30) DEF WalkTypeOK, Visit
<1>4. ASSUME NEW w \in Walks, EndWalk(w) \/ FailWalk(w) PROVE WalkTypeOK'
  <2>1. [walk[w] EXCEPT !.pc = "resolved"] \in Runs /\ [walk[w] EXCEPT !.pc = "failed"] \in Runs
    BY ZenonT(30), <1>0 DEF Runs
  <2> QED BY <1>0, <1>4, <2>1, Zenon DEF WalkTypeOK, EndWalk, FailWalk
<1>5. CASE UNCHANGED wvars
  BY <1>5, Zenon DEF WalkTypeOK, wvars
<1> QED BY <1>1, <1>2, <1>3, <1>4, <1>5, Zenon DEF MNext, WalkStep

\* A walk whose record and whose view of the announcements stay has its invariant.
LEMMA Untouched ==
  ASSUME NEW w \in Walks, WalkInv(w), walk'[w] = walk[w],
         walk[w].pc = "walking" => announced' = announced /\ lists' = lists
  PROVE  WalkInv(w)'
  BY Zenon DEF WalkInv, Framed, Upper, Lower, Owed, ClosedUnder

LEMMA AnnounceInv ==
  ASSUME MInv, NEW k \in Keys, NEW l \in SUBSET Keys, Announce(k, l), NEW w \in Walks
  PROVE  WalkInv(w)'
<1>1. WalkTypeOK /\ WalkInv(w) BY Zenon DEF MInv
<1>2. CASE walk[w].pc # "walking"
  <2>1. walk'[w] = walk[w] BY <1>2, Zenon DEF Announce
  <2> QED BY <1>1, <1>2, <2>1, Untouched, Zenon
<1>3. CASE walk[w].pc = "walking"
  <2> DEFINE old == walk[w]
             new == [old EXCEPT !.ever[k] = @ \union l, !.always[k] = @ \intersect l]
  <2>0. old \in Runs BY <1>1, Zenon DEF WalkTypeOK
  <2>1. walk'[w] = new BY <1>3, Zenon DEF Announce
  <2>2. /\ new.pc = "walking" /\ new.service = old.service /\ new.pending = old.pending
        /\ new.seen = old.seen /\ new.known = old.known
        /\ \A j \in Keys : new.ever[j] = IF j = k THEN old.ever[j] \union l ELSE old.ever[j]
        /\ \A j \in Keys : new.always[j] = IF j = k THEN old.always[j] \intersect l ELSE old.always[j]
    BY <1>3, <2>0, Zenon DEF Runs
  <2>3. Framed(w)'
    <3>1. Framed(w) BY <1>1, <1>3, Zenon DEF WalkInv
    <3>2. \A j \in Keys : lists'[j] = IF j = k THEN l ELSE lists[j]
      BY <1>1, Zenon DEF Announce, WalkTypeOK
    <3>3. announced \subseteq announced' BY Zenon DEF Announce
    <3>4. \A j \in Keys : lists'[j] \subseteq new.ever[j] /\ new.always[j] \subseteq lists'[j]
      BY SMTT(20), <2>2, <3>1, <3>2 DEF Framed
    <3>5. new.known \subseteq announced' BY <2>2, <3>1, <3>3, Zenon DEF Framed
    <3> QED BY <2>1, <3>4, <3>5, Zenon DEF Framed
  <2>4. Upper(w)'
    <3> SUFFICES ASSUME NEW S \in SUBSET Keys, ClosedUnder(S, new.ever)
                 PROVE  old.seen \union old.pending \subseteq S
      BY <2>1, <2>2, Zenon DEF Upper, ClosedUnder
    <3>1. ClosedUnder(S, old.ever) BY <2>2 DEF ClosedUnder
    <3> QED BY <1>1, <1>3, <3>1, Zenon DEF WalkInv, Upper
  <2>5. Lower(w)'
    BY <1>1, <1>3, <2>1, <2>2 DEF Lower, WalkInv, Owed, WalkTypeOK
  <2> QED BY <1>1, <1>3, <2>1, <2>2, <2>3, <2>4, <2>5, Zenon DEF WalkInv
<1> QED BY <1>2, <1>3, Zenon

LEMMA BeginInv ==
  ASSUME MInv, NEW w \in Walks, NEW s \in Services, BeginWalk(w, s)
  PROVE  WalkInv(w)'
<1>1. walk'[w] = [pc |-> "walking", service |-> s, pending |-> {Owner}, seen |-> {},
                  known |-> announced, ever |-> lists, always |-> lists]
  BY Zenon DEF MInv, WalkTypeOK, BeginWalk
<1>2. announced' = announced /\ lists' = lists BY Zenon DEF BeginWalk
<1> QED BY <1>1, <1>2 DEF WalkInv, Framed, Upper, Lower, Owed, ClosedUnder

LEMMA VisitInv ==
  ASSUME MInv, NEW w \in Walks, NEW k \in Keys, Visit(w, k)
  PROVE  WalkInv(w)'
<1>1. walk \in [Walks -> Runs] /\ lists \in [Keys -> SUBSET Keys] /\ WalkInv(w)
  BY Zenon DEF MInv, WalkTypeOK
<1> DEFINE old == walk[w]
           P == Follow(w, k)
           C == Counted(w, k)
<1>2. old \in Runs /\ old.pc = "walking" /\ k \in old.pending BY <1>1, Zenon DEF Visit
<1>3. Framed(w) /\ Upper(w) /\ Lower(w) /\ old.pending \intersect old.seen = {}
  BY <1>1, <1>2, Zenon DEF WalkInv
<1>4. /\ walk'[w].pc = "walking" /\ walk'[w].service = old.service /\ walk'[w].known = old.known
      /\ walk'[w].ever = old.ever /\ walk'[w].always = old.always
      /\ walk'[w].pending = P /\ walk'[w].seen = C
  BY <1>1, <1>2, Zenon DEF Visit, Runs
<1>5. announced' = announced /\ lists' = lists BY Zenon DEF Visit
<1>6. P \union C \subseteq old.pending \union old.seen \union lists[k]
  BY <1>2, Zenon DEF Follow, Counted
<1>7. old.pending \union old.seen \union lists[k] \subseteq P \union C \union {k}
  BY Zenon DEF Follow, Counted
<1>8. k \in Owed(w) => k \in C
  BY <1>2, <1>3, Zenon DEF Owed, Counted, Framed, Runs, Services
<1>9. Framed(w)' BY <1>3, <1>4, <1>5, Zenon DEF Framed
<1>10. Upper(w)'
  <2> SUFFICES ASSUME NEW S \in SUBSET Keys, ClosedUnder(S, old.ever)
               PROVE  C \union P \subseteq S
    BY <1>4, Zenon DEF Upper, ClosedUnder
  <2>1. old.seen \union old.pending \subseteq S BY <1>3, Zenon DEF Upper
  <2>2. k \in S BY <1>2, <2>1, Zenon
  <2>3. lists[k] \subseteq S BY <1>3, <2>2, Zenon DEF Framed, ClosedUnder
  <2> QED BY <1>6, <2>1, <2>3, Zenon
<1>11. Owed(w)' = Owed(w) BY <1>4, Zenon DEF Owed
<1>12. Lower(w)'
  <2>1. Owner \in Owed(w) => Owner \in C \union P
    BY <1>3, <1>7, <1>8, Zenon DEF Lower
  <2>2. ASSUME NEW j \in C PROVE old.always[j] \intersect Owed(w) \subseteq C \union P
    <3>1. CASE j \in old.seen BY <1>3, <1>7, <1>8, <3>1, Zenon DEF Lower
    <3>2. CASE j = k
      <4>1. old.always[k] \subseteq lists[k] BY <1>3, Zenon DEF Framed
      <4> QED BY <1>7, <1>8, <3>2, <4>1, Zenon
    <3> QED BY <2>2, <3>1, <3>2, Zenon DEF Counted
  <2> QED BY <1>4, <1>11, <2>1, <2>2, Zenon DEF Lower
<1>13. P \intersect C = {}
  BY <1>3, Zenon DEF Follow, Counted
<1> QED BY <1>4, <1>9, <1>10, <1>12, <1>13, Zenon DEF WalkInv

LEMMA EndInv ==
  ASSUME MInv, NEW w \in Walks, EndWalk(w) \/ FailWalk(w)
  PROVE  WalkInv(w)'
<1>1. walk \in [Walks -> Runs] /\ WalkInv(w) BY Zenon DEF MInv, WalkTypeOK
<1>2. walk[w].pc = "walking" BY Zenon DEF EndWalk, FailWalk
<1>3. Upper(w) /\ Lower(w) /\ walk[w].pending \intersect walk[w].seen = {}
  BY <1>1, <1>2, Zenon DEF WalkInv
<1>4. /\ walk'[w].pc \in {"resolved", "failed"} /\ walk'[w].service = walk[w].service
      /\ walk'[w].known = walk[w].known /\ walk'[w].ever = walk[w].ever
      /\ walk'[w].always = walk[w].always /\ walk'[w].pending = walk[w].pending
      /\ walk'[w].seen = walk[w].seen
      /\ walk'[w].pc = "resolved" => walk[w].pending = {}
  BY <1>1 DEF EndWalk, FailWalk, Runs
<1>5. Upper(w)' BY <1>3, <1>4, Zenon DEF Upper, ClosedUnder
<1>6. Lower(w)' BY <1>3, <1>4, Zenon DEF Lower, Owed
<1> QED BY <1>3, <1>4, <1>5, <1>6, Zenon DEF WalkInv

LEMMA MStep == MInv /\ [MNext]_wvars => MInv'
<1> SUFFICES ASSUME MInv, [MNext]_wvars PROVE MInv'
  OBVIOUS
<1>1. WalkTypeOK' BY MTypes, Zenon DEF MInv
<1> SUFFICES ASSUME NEW w \in Walks PROVE WalkInv(w)'
  BY <1>1, Zenon DEF MInv
<1>2. WalkInv(w) /\ walk \in [Walks -> Runs] BY Zenon DEF MInv, WalkTypeOK
<1>3. ASSUME NEW k \in Keys, NEW l \in SUBSET Keys, Announce(k, l) PROVE WalkInv(w)'
  BY <1>3, AnnounceInv, Zenon
<1>4. ASSUME NEW v \in Walks, NEW s \in Services, BeginWalk(v, s) PROVE WalkInv(w)'
  <2>1. CASE v = w BY <1>4, <2>1, BeginInv, Zenon
  <2>2. CASE v # w
    <3>1. walk'[w] = walk[w] /\ announced' = announced /\ lists' = lists
      BY <1>2, <1>4, <2>2, Zenon DEF BeginWalk
    <3> QED BY <1>2, <3>1, Untouched, Zenon
  <2> QED BY <2>1, <2>2, Zenon
<1>5. ASSUME NEW v \in Walks, NEW k \in Keys, Visit(v, k) PROVE WalkInv(w)'
  <2>1. CASE v = w BY <1>5, <2>1, VisitInv, Zenon
  <2>2. CASE v # w
    <3>1. walk'[w] = walk[w] /\ announced' = announced /\ lists' = lists
      BY <1>2, <1>5, <2>2, Zenon DEF Visit
    <3> QED BY <1>2, <3>1, Untouched, Zenon
  <2> QED BY <2>1, <2>2, Zenon
<1>6. ASSUME NEW v \in Walks, EndWalk(v) \/ FailWalk(v) PROVE WalkInv(w)'
  <2>1. CASE v = w BY <1>6, <2>1, EndInv, Zenon
  <2>2. CASE v # w
    <3>1. walk'[w] = walk[w] /\ announced' = announced /\ lists' = lists
      BY <1>2, <1>6, <2>2, Zenon DEF EndWalk, FailWalk
    <3> QED BY <1>2, <3>1, Untouched, Zenon
  <2> QED BY <2>1, <2>2, Zenon
<1>7. CASE UNCHANGED wvars
  BY <1>2, <1>7, Untouched, Zenon DEF wvars
<1> QED BY <1>3, <1>4, <1>5, <1>6, <1>7, Zenon DEF MNext, WalkStep

LEMMA MInvGives == MInv => ResolvedWasListed /\ ResolvedIsComplete /\ NeverRevisits
<1> SUFFICES ASSUME MInv, NEW w \in Walks
             PROVE  /\ walk[w].pc = "resolved" =>
                          /\ \A S \in SUBSET Keys : ClosedUnder(S, walk[w].ever) => walk[w].seen \subseteq S
                          /\ Owner \in Owed(w) => Owner \in walk[w].seen
                          /\ \A k \in walk[w].seen :
                                walk[w].always[k] \intersect Owed(w) \subseteq walk[w].seen
                    /\ walk[w].pending \intersect walk[w].seen = {}
  BY Zenon DEF ResolvedWasListed, ResolvedIsComplete, NeverRevisits
<1>1. WalkInv(w) BY Zenon DEF MInv
<1>2. CASE walk[w].pc # "resolved" BY <1>1, <1>2, Zenon DEF WalkInv
<1>3. CASE walk[w].pc = "resolved"
  <2>1. Upper(w) /\ Lower(w) /\ walk[w].pending = {} BY <1>1, <1>3, Zenon DEF WalkInv
  <2> QED BY <2>1, Zenon DEF Upper, Lower
<1> QED BY <1>2, <1>3, Zenon

\* Every step of the pushes and the sync leaves the walks alone or is one of theirs.
LEMMA Walks_of_Next == [Next]_vars => [MNext]_wvars
<1> SUFFICES ASSUME [Next]_vars PROVE [MNext]_wvars
  OBVIOUS
<1> USE GitAssumption
<1>1. CASE Walking
  BY <1>1, Zenon DEF Walking, MNext, Services
<1>2. ASSUME NEW s \in States, Publish(s) PROVE UNCHANGED wvars
  BY <1>2, Zenon DEF Publish
<1>3. ASSUME NEW p \in Pushes, NEW k \in Keys, NEW want \in Wants, InfoRefs(p, k, want)
      PROVE  UNCHANGED wvars
  BY <1>3, Zenon DEF InfoRefs
<1>4. ASSUME NEW p \in Pushes, ReceivePack(p) PROVE MNext
  BY <1>4, Zenon DEF ReceivePack, MNext, Services
<1>5. ASSUME NEW p \in Pushes, PushStep(p) \/ HookFails(p), ~ReceivePack(p)
      PROVE  UNCHANGED wvars
  BY <1>5, Zenon DEF PushStep, HookFails, Authorize, PreReceive, ReplaceRef, PostReceive
<1>6. ASSUME NEW y \in Syncs, NEW repo \in SyncRepos, StartSync(y, repo) PROVE UNCHANGED wvars
  BY <1>6, Zenon DEF StartSync
<1>7. ASSUME NEW y \in Syncs, SyncStep(y) PROVE UNCHANGED wvars
  BY <1>7, Zenon DEF SyncStep, PlanSync, FinishSync, UpdateRef, DeleteRef, FailRef
<1>8. CASE UNCHANGED vars BY <1>8, Zenon DEF vars
<1> QED BY <1>1, <1>2, <1>3, <1>4, <1>5, <1>6, <1>7, <1>8, Zenon DEF Next

\* A push that git has got was signed by a key its finished walk found.
PushInv ==
    \A p \in Pushes : push[p].pc \in {"forwarded", "accepted", "done"} =>
        walk[p].pc = "resolved" /\ push[p].key \in walk[p].seen

\* A finished walk is never touched again.
LEMMA Settled ==
  ASSUME WalkTypeOK, [MNext]_wvars, NEW w \in Walks, walk[w].pc = "resolved"
  PROVE  walk'[w] = walk[w]
<1>1. walk \in [Walks -> Runs] BY Zenon DEF WalkTypeOK
<1>2. ASSUME NEW k \in Keys, NEW l \in SUBSET Keys, Announce(k, l) PROVE walk'[w] = walk[w]
  BY <1>2, Zenon DEF Announce
<1>3. ASSUME NEW v \in Walks, NEW s \in Services, BeginWalk(v, s) PROVE walk'[w] = walk[w]
  BY <1>1, <1>3, Zenon DEF BeginWalk
<1>4. ASSUME NEW v \in Walks, NEW k \in Keys, Visit(v, k) PROVE walk'[w] = walk[w]
  BY <1>1, <1>4, Zenon DEF Visit
<1>5. ASSUME NEW v \in Walks, EndWalk(v) \/ FailWalk(v) PROVE walk'[w] = walk[w]
  BY <1>1, <1>5, Zenon DEF EndWalk, FailWalk
<1> QED BY <1>2, <1>3, <1>4, <1>5, Zenon DEF MNext, WalkStep, wvars

\* Pushes are records with these fields.
PushShape ==
    /\ push = [p \in Pushes |-> push[p]]
    /\ \A p \in Pushes : DOMAIN push[p] = {"pc", "key", "want", "old", "left"}

\* What a step does to the part of a push that authorisation is about.
Moves(q) ==
    \/ push'[q].pc \notin {"forwarded", "accepted", "done"}
    \/ push'[q].key = push[q].key /\ push[q].pc \in {"forwarded", "accepted", "done"}
    \/ /\ push'[q].key = push[q].key
       /\ UNCHANGED wvars /\ walk[q].pc = "resolved" /\ push[q].key \in walk[q].seen

LEMMA PushMoves ==
  ASSUME PushShape, [Next]_vars
  PROVE  PushShape' /\ \A q \in Pushes : Moves(q)
<1> USE DEF PushShape, Moves
<1> DEFINE Goal == PushShape' /\ \A q \in Pushes : Moves(q)
<1>1. CASE UNCHANGED push BY <1>1, Zenon
<1>2. ASSUME NEW p \in Pushes, NEW k \in Keys, NEW want \in Wants, InfoRefs(p, k, want)
      PROVE  Goal
  BY <1>2, Zenon DEF InfoRefs
<1>3. ASSUME NEW p \in Pushes, ReceivePack(p) PROVE Goal
  BY <1>3, Zenon DEF ReceivePack, PushTo
<1>4. ASSUME NEW p \in Pushes, Authorize(p) PROVE Goal
  BY <1>4, Zenon DEF Authorize, PushTo, PushAt
<1>5. ASSUME NEW p \in Pushes, PreReceive(p) PROVE Goal
  BY <1>5, Zenon DEF PreReceive, PushTo, PushAt
<1>6. ASSUME NEW p \in Pushes, NEW r \in Refs, ReplaceRef(p, r) PROVE Goal
  BY <1>6, Zenon DEF ReplaceRef, PushAt
<1>7. ASSUME NEW p \in Pushes, PostReceive(p) PROVE Goal
  BY <1>7, Zenon DEF PostReceive, PushTo, PushAt
<1>8. ASSUME NEW p \in Pushes, HookFails(p) PROVE Goal
  BY <1>8, Zenon DEF HookFails, PushTo, PushAt
<1>9. CASE UNCHANGED vars BY <1>1, <1>9, Zenon DEF vars, gvars
<1>10. CASE Walking \/ \E s \in States : Publish(s) BY <1>1, <1>10, Zenon DEF Walking, Publish, gvars
<1>11. ASSUME NEW y \in Syncs,
              SyncStep(y) \/ \E repo \in SyncRepos : StartSync(y, repo)
       PROVE  UNCHANGED push
  BY <1>11, Zenon DEF SyncStep, StartSync, PlanSync, FinishSync, UpdateRef, DeleteRef, FailRef
<1> QED BY <1>1, <1>2, <1>3, <1>4, <1>5, <1>6, <1>7, <1>8, <1>9, <1>10, <1>11, Zenon DEF Next, PushStep

GitInv == MInv /\ PushShape /\ PushInv

LEMMA GitStep == GitInv /\ [Next]_vars => GitInv'
<1> SUFFICES ASSUME GitInv, [Next]_vars PROVE GitInv'
  OBVIOUS
<1>1. [MNext]_wvars BY Walks_of_Next, Zenon
<1>2. MInv' BY <1>1, MStep, Zenon DEF GitInv
<1>3. PushShape' BY PushMoves, Zenon DEF GitInv
<1>4. ASSUME NEW p \in Pushes, push'[p].pc \in {"forwarded", "accepted", "done"}
      PROVE  walk'[p].pc = "resolved" /\ push'[p].key \in walk'[p].seen
  <2>1. p \in Walks BY GitAssumption, Zenon
  <2>2. CASE push'[p].key = push[p].key /\ push[p].pc \in {"forwarded", "accepted", "done"}
    <3>1. walk[p].pc = "resolved" /\ push[p].key \in walk[p].seen
      BY <2>2, Zenon DEF GitInv, PushInv
    <3>2. walk'[p] = walk[p] BY <1>1, <2>1, <3>1, Settled, Zenon DEF GitInv, MInv
    <3> QED BY <2>2, <3>1, <3>2, Zenon
  <2>3. CASE /\ push'[p].key = push[p].key
             /\ UNCHANGED wvars /\ walk[p].pc = "resolved" /\ push[p].key \in walk[p].seen
    BY <2>3, Zenon DEF wvars
  <2> QED BY <1>4, <2>2, <2>3, PushMoves, Zenon DEF GitInv, Moves
<1> QED BY <1>2, <1>3, <1>4, Zenon DEF GitInv, PushInv

LEMMA GitInit == Init => GitInv
<1> SUFFICES ASSUME Init PROVE GitInv
  OBVIOUS
<1>1. MInv BY MInitInv, Zenon DEF Init
<1>2. PushShape /\ PushInv BY Zenon DEF Init, NoPush, PushShape, PushInv
<1> QED BY <1>1, <1>2, Zenon DEF GitInv

LEMMA GitInvariant == Spec => []GitInv
  BY GitInit, GitStep, PTL DEF Spec

\* resolve_maintainers, whatever is announced while it runs: every key it returns was
\* led to by announcements of the time of the walk.
THEOREM NobodyUnlisted == Spec => []ResolvedWasListed
<1>1. GitInv => ResolvedWasListed BY MInvGives, Zenon DEF GitInv
<1> QED BY <1>1, GitInvariant, PTL

\* It returns every key that announcements standing during the whole walk lead to.
THEOREM NobodyForgotten == Spec => []ResolvedIsComplete
<1>1. GitInv => ResolvedIsComplete BY MInvGives, Zenon DEF GitInv
<1> QED BY <1>1, GitInvariant, PTL

\* A circle of announcements does not make it look a counted key up again.
THEOREM WalksEnd == Spec => []NeverRevisits
<1>1. GitInv => NeverRevisits BY MInvGives, Zenon DEF GitInv
<1> QED BY <1>1, GitInvariant, PTL

\* authorize_receive_pack: only pushes of such keys reach git.
THEOREM PushesAreAuthorised == Spec => []PushedByMaintainer
<1>1. GitInv => PushedByMaintainer
  <2> SUFFICES ASSUME GitInv, NEW p \in Pushes,
                      push[p].pc \in {"forwarded", "accepted", "done"},
                      NEW S \in SUBSET Keys, ClosedUnder(S, walk[p].ever)
               PROVE  push[p].key \in S
    BY Zenon DEF PushedByMaintainer
  <2>1. walk[p].pc = "resolved" /\ push[p].key \in walk[p].seen /\ p \in Walks
    BY GitAssumption, Zenon DEF GitInv, PushInv
  <2>2. ResolvedWasListed BY MInvGives, Zenon DEF GitInv
  <2> QED BY <2>1, <2>2, Zenon DEF ResolvedWasListed
<1> QED BY <1>1, GitInvariant, PTL

\* While no announcement is replaced, resolve_maintainers of the git front end returns
\* the least set that holds the owner and whatever its keys list, for any announcements.
THEOREM QuietWalks == Spec => []QuietWalksAreExact
<1>1. GitInv => QuietWalksAreExact
  <2> SUFFICES ASSUME GitInv, NEW w \in Walks, walk[w].pc = "resolved",
                      walk[w].service = "git_http", walk[w].ever = walk[w].always
               PROVE  /\ ClosedUnder(walk[w].seen, walk[w].ever)
                      /\ \A S \in SUBSET Keys : ClosedUnder(S, walk[w].ever) => walk[w].seen \subseteq S
    BY Zenon DEF QuietWalksAreExact
  <2>1. ResolvedWasListed /\ ResolvedIsComplete BY MInvGives, Zenon DEF GitInv
  <2>2. Owed(w) = Keys BY Zenon DEF Owed
  <2>3. walk[w] \in Runs BY Zenon DEF GitInv, MInv, WalkTypeOK
  <2>4. walk[w].seen \subseteq Keys /\ \A k \in Keys : walk[w].always[k] \subseteq Keys
    BY <2>3, Zenon DEF Runs
  <2>5. Owner \in walk[w].seen
    BY <2>1, <2>2, MaintainersAssumption, Zenon DEF ResolvedIsComplete
  <2>6. \A k \in walk[w].seen : walk[w].ever[k] \subseteq walk[w].seen
    BY <2>1, <2>2, <2>4, Zenon DEF ResolvedIsComplete
  <2> QED BY <2>1, <2>5, <2>6, Zenon DEF ClosedUnder, ResolvedWasListed
<1> QED BY <1>1, GitInvariant, PTL

(***************************************************************************)
(* The refs.  Only a push that the hook accepted and a running sync write  *)
(* them: an accepted push carries a value that a state names, and that     *)
(* state is no older than one that names what git told the client; a sync  *)
(* carries a state of the chain.                                           *)
(***************************************************************************)
NamedBy(c, r, v) == {i \in 1..Len(c) : c[i][r] # "none" /\ resolve_ref_value(c[i], r) = v}

PushRefs(p) ==
    /\ push[p].left \subseteq DOMAIN push[p].want
    /\ push[p].pc # "idle" => \A r \in Refs :
          Class(r) # "nostr" /\ push[p].old[r] # "none" => NamedBy(chain, r, push[p].old[r]) # {}
    /\ push[p].pc = "accepted" => \A r \in Refs \intersect DOMAIN push[p].want :
          Class(r) # "nostr" => \E j \in NamedBy(chain, r, push[p].want[r]) :
             push[p].old[r] # "none" => \E i \in NamedBy(chain, r, push[p].old[r]) : i <= j

SyncRun == [pc : {"idle", "plan", "run", "finish", "done"}, repo : SyncRepos,
            state : States \union {NoState}, updates : SUBSET Refs, deletions : SUBSET Refs,
            quiet : BOOLEAN]

SyncPlan(y) ==
    /\ sync[y].pc \in {"plan", "run"} =>
          sync[y].repo = Repo /\ Repo \in active /\ \E i \in 1..Len(chain) : sync[y].state = chain[i]
    /\ sync[y].pc = "finish" => sync[y].repo # Repo

RefsInv ==
    /\ chain \in Seq(States)
    /\ refs = [r \in Refs |-> refs[r]]
    /\ RefsFollowStates
    /\ \A p \in Pushes : PushRefs(p)
    /\ sync \in [Syncs -> SyncRun]
    /\ \A y \in Syncs : SyncPlan(y)

(***************************************************************************)
(* The sync.  The limiter lets one sync of the repository run at a time,   *)
(* so a quiet one that has finished saw the state that is still the        *)
(* latest, and whoever runs after it plans from that state too and finds   *)
(* nothing to change.                                                      *)
(***************************************************************************)
Synced(z) == sync[z].pc = "done" /\ sync[z].repo = Repo /\ sync[z].quiet

QuietInv(y) ==
    /\ sync[y].quiet /\ sync[y].repo = Repo => sync[y].state = latest
    /\ sync[y].pc = "run" => \A r \in sync[y].deletions : sync[y].state[r] = "none"
    /\ sync[y].pc = "run" /\ sync[y].quiet => \A r \in Refs :
          r \notin sync[y].updates \union sync[y].deletions => refs[r] = sync[y].state[r]
    /\ Synced(y) => \A r \in Refs : refs[r] = sync[y].state[r]

PairInv(y, z) ==
    /\ sync[y].pc \in {"plan", "run"} /\ sync[z].pc \in {"plan", "run"} => y = z
    /\ Synced(z) /\ sync[y].pc = "plan" => sync[y].state = latest
    /\ Synced(z) /\ sync[y].pc = "run" => sync[y].updates = {} /\ sync[y].deletions = {}

SyncInv == \A y \in Syncs : QuietInv(y) /\ \A z \in Syncs : PairInv(y, z)

LEMMA NamedByIsNaming == \A r, v : Naming(r, v) = NamedBy(chain, r, v)
  BY Zenon DEF Naming, NamedBy

LEMMA AppendNames ==
  ASSUME NEW c \in Seq(States), NEW s \in States, NEW r, NEW v
  PROVE  NamedBy(c, r, v) \subseteq NamedBy(Append(c, s), r, v)
<1>1. \A i \in 1..Len(c) : i \in 1..Len(Append(c, s)) /\ Append(c, s)[i] = c[i]
  OBVIOUS
<1> QED BY <1>1, Zenon DEF NamedBy

\* State events are only added, so what was named stays named.
LEMMA ChainGrows ==
  ASSUME chain \in Seq(States), [Next]_vars
  PROVE  /\ chain' \in Seq(States)
         /\ \A r, v : NamedBy(chain, r, v) \subseteq NamedBy(chain', r, v)
         /\ \A i \in 1..Len(chain) : i \in 1..Len(chain') /\ chain'[i] = chain[i]
<1> DEFINE Goal == /\ chain' \in Seq(States)
                   /\ \A r, v : NamedBy(chain, r, v) \subseteq NamedBy(chain', r, v)
                   /\ \A i \in 1..Len(chain) : i \in 1..Len(chain') /\ chain'[i] = chain[i]
<1>1. CASE UNCHANGED chain BY <1>1, Zenon
<1>2. ASSUME NEW s \in States, Publish(s) PROVE Goal
  <2>1. chain' = Append(chain, s) BY <1>2, Zenon DEF Publish
  <2>2. Append(chain, s) \in Seq(States)
        /\ \A i \in 1..Len(chain) : i \in 1..Len(Append(chain, s)) /\ Append(chain, s)[i] = chain[i]
    OBVIOUS
  <2>3. \A r, v : NamedBy(chain, r, v) \subseteq NamedBy(Append(chain, s), r, v)
    BY AppendNames, Zenon
  <2> QED BY <2>1, <2>2, <2>3, Zenon
<1>3. ASSUME NEW p \in Pushes,
             PushStep(p) \/ HookFails(p) \/ \E k \in Keys, want \in Wants : InfoRefs(p, k, want)
      PROVE  UNCHANGED chain
  BY <1>3, Zenon DEF PushStep, HookFails, InfoRefs, ReceivePack, Authorize, PreReceive, ReplaceRef,
                     PostReceive
<1>4. ASSUME NEW y \in Syncs, SyncStep(y) \/ \E repo \in SyncRepos : StartSync(y, repo)
      PROVE  UNCHANGED chain
  BY <1>4, Zenon DEF SyncStep, StartSync, PlanSync, FinishSync, UpdateRef, DeleteRef, FailRef
<1>5. CASE Walking \/ UNCHANGED vars BY <1>1, <1>5, Zenon DEF Walking, vars, gvars
<1> QED BY <1>1, <1>2, <1>3, <1>4, <1>5, Zenon DEF Next

LEMMA LatestIsLast ==
  ASSUME chain \in Seq(States), latest # NoState
  PROVE  Len(chain) \in 1..Len(chain) /\ latest = chain[Len(chain)] /\ latest \in States
<1>1. chain # <<>> BY Zenon DEF latest
<1>2. Len(chain) \in 1..Len(chain) /\ chain[Len(chain)] \in States BY <1>1
<1> QED BY <1>1, <1>2, Zenon DEF latest

\* The updates the hook accepts are the latest state's, except those of refs/nostr.
LEMMA AcceptedIsNamed ==
  ASSUME chain \in Seq(States), NEW want, NEW r \in DOMAIN want, Class(r) # "nostr",
         evaluate_updates(want, IF needs_state(want) THEN latest ELSE NoState)
  PROVE  Len(chain) \in NamedBy(chain, r, want[r])
<1> DEFINE s == IF needs_state(want) THEN latest ELSE NoState
<1>1. evaluate_ref_update(r, want[r], s) BY Zenon DEF evaluate_updates
<1>2. s # NoState /\ s[r] # "none" /\ resolve_ref_value(s, r) = want[r]
  BY <1>1, Zenon DEF evaluate_ref_update
<1>3. s = latest BY <1>2, Zenon
<1>4. Len(chain) \in 1..Len(chain) /\ latest = chain[Len(chain)] BY <1>2, <1>3, LatestIsLast, Zenon
<1> HIDE DEF s
<1> QED BY <1>2, <1>3, <1>4, Zenon DEF NamedBy

\* What a step does to the part of a push that the refs depend on.
Carries(q) ==
    \/ push'[q] = push[q]
    \/ push'[q].pc = "ready" /\ push'[q].old = refs /\ push'[q].left = DOMAIN push'[q].want
    \/ /\ push[q].pc # "idle" /\ push'[q].want = push[q].want /\ push'[q].old = push[q].old
       /\ push'[q].left \subseteq push[q].left
       /\ push'[q].pc = "accepted" =>
             \/ push[q].pc = "accepted"
             \/ \A r \in DOMAIN push[q].want :
                   Class(r) # "nostr" => Len(chain) \in NamedBy(chain, r, push[q].want[r])

LEMMA PushCarries ==
  ASSUME PushShape, chain \in Seq(States), [Next]_vars, NEW q \in Pushes
  PROVE  Carries(q)
<1> USE DEF PushShape
<1>1. CASE UNCHANGED push BY <1>1, Zenon DEF Carries
<1>2. ASSUME NEW p \in Pushes, NEW k \in Keys, NEW want \in Wants, InfoRefs(p, k, want)
      PROVE  Carries(q)
  BY <1>2, Zenon DEF InfoRefs, Carries
<1>3. ASSUME NEW p \in Pushes, NEW pc, PushTo(p, pc), push[p].pc # "idle", pc # "accepted"
      PROVE  Carries(q)
  BY <1>3, Zenon DEF PushTo, Carries
<1>4. ASSUME NEW p \in Pushes, ReceivePack(p) \/ PostReceive(p) \/ HookFails(p) PROVE Carries(q)
  <2>1. push[p].pc # "idle" BY <1>4, Zenon DEF ReceivePack, PostReceive, HookFails, PushAt
  <2>2. PushTo(p, "walking") \/ PushTo(p, "done") \/ PushTo(p, "refused")
    BY <1>4, Zenon DEF ReceivePack, PostReceive, HookFails
  <2> QED BY <1>3, <2>1, <2>2, Zenon
<1>5. ASSUME NEW p \in Pushes, Authorize(p) PROVE Carries(q)
  <2>1. push[p].pc # "idle" BY <1>5, Zenon DEF Authorize, PushAt
  <2>2. PushTo(p, "forwarded") \/ PushTo(p, "refused") BY <1>5, Zenon DEF Authorize
  <2> QED BY <1>3, <2>1, <2>2, Zenon
<1>6. ASSUME NEW p \in Pushes, PreReceive(p) PROVE Carries(q)
  <2> DEFINE want == push[p].want
             ok == evaluate_updates(want, IF needs_state(want) THEN latest ELSE NoState)
  <2>1. push[p].pc # "idle" BY <1>6, Zenon DEF PreReceive, PushAt
  <2>2. PushTo(p, IF ok THEN "accepted" ELSE "refused") BY <1>6, Zenon DEF PreReceive
  <2>3. ok => \A r \in DOMAIN want : Class(r) # "nostr" => Len(chain) \in NamedBy(chain, r, want[r])
    BY AcceptedIsNamed, Zenon
  <2> HIDE DEF ok
  <2> QED BY <2>1, <2>2, <2>3, Zenon DEF PushTo, Carries
<1>7. ASSUME NEW p \in Pushes, NEW r \in Refs, ReplaceRef(p, r) PROVE Carries(q)
  BY <1>7, Zenon DEF ReplaceRef, PushAt, Carries
<1>8. CASE UNCHANGED vars BY <1>1, <1>8, Zenon DEF vars, gvars
<1>9. CASE Walking \/ \E s \in States : Publish(s) BY <1>1, <1>9, Zenon DEF Walking, Publish, gvars
<1>10. ASSUME NEW y \in Syncs, SyncStep(y) \/ \E repo \in SyncRepos : StartSync(y, repo)
       PROVE  UNCHANGED push
  BY <1>10, Zenon DEF SyncStep, StartSync, PlanSync, FinishSync, UpdateRef, DeleteRef, FailRef
<1> QED BY <1>1, <1>2, <1>4, <1>5, <1>6, <1>7, <1>8, <1>9, <1>10, ZenonT(30) DEF Next, PushStep

\* What a step writes to a ref: nothing, a deletion, what an accepted push carries or
\* what the state of a running sync says.
Written(r) ==
    \/ refs'[r] = refs[r]
    \/ refs'[r] = "none"
    \/ \E p \in Pushes : push[p].pc = "accepted" /\ r \in push[p].left /\ refs'[r] = push[p].want[r]
    \/ \E y \in Syncs : /\ sync[y].pc = "run" /\ sync[y].state[r] \in Commits
                        /\ refs'[r] = sync[y].state[r]

LEMMA RefsWritten ==
  ASSUME refs = [r \in Refs |-> refs[r]], [Next]_vars
  PROVE  refs' = [r \in Refs |-> refs'[r]] /\ \A r \in Refs : Written(r)
<1> DEFINE Goal == refs' = [r \in Refs |-> refs'[r]] /\ \A r \in Refs : Written(r)
<1>1. CASE UNCHANGED refs BY <1>1, Zenon DEF Written
<1>2. ASSUME NEW p \in Pushes, NEW q \in Refs, ReplaceRef(p, q) PROVE Goal
  <2>1. CASE refs[q] = push[p].old[q]
    <3>1. refs' = [refs EXCEPT ![q] = push[p].want[q]] BY <1>2, <2>1, Zenon DEF ReplaceRef
    <3>2. push[p].pc = "accepted" /\ q \in push[p].left BY <1>2, Zenon DEF ReplaceRef, PushAt
    <3> QED BY <3>1, <3>2, Zenon DEF Written
  <2>2. CASE refs[q] # push[p].old[q] BY <1>1, <1>2, <2>2, Zenon DEF ReplaceRef
  <2> QED BY <2>1, <2>2, Zenon
<1>3. ASSUME NEW y \in Syncs, NEW q \in Refs, UpdateRef(y, q) PROVE Goal
  <2>1. refs' = [refs EXCEPT ![q] = sync[y].state[q]] BY <1>3, Zenon DEF UpdateRef
  <2>2. sync[y].pc = "run" /\ sync[y].state[q] \in Commits BY <1>3, Zenon DEF UpdateRef, SyncAt
  <2> QED BY <2>1, <2>2, Zenon DEF Written
<1>4. ASSUME NEW y \in Syncs, NEW q \in Refs, DeleteRef(y, q) PROVE Goal
  BY <1>4, Zenon DEF DeleteRef, Written
<1>5. ASSUME NEW p \in Pushes,
             \/ ReceivePack(p) \/ Authorize(p) \/ PreReceive(p) \/ PostReceive(p) \/ HookFails(p)
             \/ \E k \in Keys, want \in Wants : InfoRefs(p, k, want)
      PROVE  UNCHANGED refs
  BY <1>5, Zenon DEF HookFails, InfoRefs, ReceivePack, Authorize, PreReceive, PostReceive
<1>6. ASSUME NEW y \in Syncs,
             \/ PlanSync(y) \/ FinishSync(y) \/ (\E q \in Refs : FailRef(y, q))
             \/ \E repo \in SyncRepos : StartSync(y, repo)
      PROVE  UNCHANGED refs
  BY <1>6, Zenon DEF StartSync, PlanSync, FinishSync, FailRef
<1>7. CASE Walking \/ (\E s \in States : Publish(s)) \/ UNCHANGED vars
  BY <1>1, <1>7, Zenon DEF Walking, Publish, vars, gvars
<1> QED BY <1>1, <1>2, <1>3, <1>4, <1>5, <1>6, <1>7, Zenon DEF Next, PushStep, SyncStep

\* A commit that the state of a sync gives a ref is named by that state.
LEMMA SyncIsNamed ==
  ASSUME chain \in Seq(States), NEW y \in Syncs, SyncPlan(y), sync[y].pc = "run",
         NEW r \in Refs, sync[y].state[r] \in Commits
  PROVE  NamedBy(chain, r, sync[y].state[r]) # {}
<1>1. PICK i \in 1..Len(chain) : sync[y].state = chain[i] BY Zenon DEF SyncPlan
<1>2. chain[i][r] # "none" /\ chain[i][r] \notin Refs BY <1>1, GitAssumption, Zenon
<1>3. resolve_ref_value(chain[i], r) = chain[i][r] BY <1>2, Zenon DEF resolve_ref_value
<1> QED BY <1>1, <1>2, <1>3, Zenon DEF NamedBy

LEMMA PushRefsStep ==
  ASSUME PushShape, RefsInv, [Next]_vars, NEW p \in Pushes
  PROVE  PushRefs(p)'
<1>1. chain \in Seq(States) /\ PushRefs(p) BY Zenon DEF RefsInv
<1>2. \A r, v : NamedBy(chain, r, v) \subseteq NamedBy(chain', r, v) BY <1>1, ChainGrows, Zenon
<1>3. Carries(p) BY <1>1, PushCarries, Zenon
<1>4. CASE push'[p] = push[p]
  BY <1>1, <1>2, <1>4, Zenon DEF PushRefs
<1>5. CASE push'[p].pc = "ready" /\ push'[p].old = refs /\ push'[p].left = DOMAIN push'[p].want
  <2>1. \A r \in Refs : Class(r) # "nostr" /\ refs[r] # "none" => NamedBy(chain, r, refs[r]) # {}
    BY NamedByIsNaming, Zenon DEF RefsInv, RefsFollowStates
  <2> QED BY <1>2, <1>5, <2>1, Zenon DEF PushRefs
<1>6. CASE /\ push[p].pc # "idle" /\ push'[p].want = push[p].want /\ push'[p].old = push[p].old
           /\ push'[p].left \subseteq push[p].left
           /\ push'[p].pc = "accepted" =>
                 \/ push[p].pc = "accepted"
                 \/ \A r \in DOMAIN push[p].want :
                       Class(r) # "nostr" => Len(chain) \in NamedBy(chain, r, push[p].want[r])
  <2>1. push'[p].left \subseteq DOMAIN push'[p].want BY <1>1, <1>6, Zenon DEF PushRefs
  <2>2. \A r \in Refs :
          Class(r) # "nostr" /\ push[p].old[r] # "none" => NamedBy(chain', r, push[p].old[r]) # {}
    BY <1>1, <1>2, <1>6, Zenon DEF PushRefs
  <2>3. ASSUME push'[p].pc = "accepted", NEW r \in Refs \intersect DOMAIN push[p].want,
               Class(r) # "nostr"
        PROVE  \E j \in NamedBy(chain', r, push[p].want[r]) :
                 push[p].old[r] # "none" => \E i \in NamedBy(chain', r, push[p].old[r]) : i <= j
    <3>1. CASE push[p].pc = "accepted" BY <1>1, <1>2, <2>3, <3>1, Zenon DEF PushRefs
    <3>2. CASE Len(chain) \in NamedBy(chain, r, push[p].want[r])
      <4>1. CASE push[p].old[r] = "none" BY <1>2, <3>2, <4>1, Zenon
      <4>2. CASE push[p].old[r] # "none"
        <5>1. PICK i \in NamedBy(chain, r, push[p].old[r]) : TRUE
          BY <1>1, <1>6, <2>3, <4>2, Zenon DEF PushRefs
        <5>2. i \in 1..Len(chain) BY <5>1, Zenon DEF NamedBy
        <5>3. i <= Len(chain) BY <1>1, <5>2
        <5> QED BY <1>2, <3>2, <5>1, <5>3, Zenon
      <4> QED BY <4>1, <4>2, Zenon
    <3> QED BY <1>6, <2>3, <3>1, <3>2, Zenon
  <2> QED BY <1>6, <2>1, <2>2, <2>3, Zenon DEF PushRefs
<1> QED BY <1>3, <1>4, <1>5, <1>6, Zenon DEF Carries

LEMMA RefsFollowStep ==
  ASSUME RefsInv, [Next]_vars
  PROVE  RefsFollowStates'
<1> SUFFICES ASSUME NEW r \in Refs, Class(r) # "nostr", refs'[r] # "none"
             PROVE  NamedBy(chain', r, refs'[r]) # {}
  BY Zenon DEF RefsFollowStates, Naming, NamedBy
<1>1. /\ chain \in Seq(States) /\ \A p \in Pushes : PushRefs(p)
      /\ \A y \in Syncs : SyncPlan(y)
      /\ refs[r] # "none" => NamedBy(chain, r, refs[r]) # {}
  BY NamedByIsNaming, Zenon DEF RefsInv, RefsFollowStates
<1>2. \A v : NamedBy(chain, r, v) \subseteq NamedBy(chain', r, v) BY <1>1, ChainGrows, Zenon
<1>3. Written(r) BY RefsWritten, Zenon DEF RefsInv
<1>4. ASSUME NEW p \in Pushes, push[p].pc = "accepted", r \in push[p].left,
             refs'[r] = push[p].want[r]
      PROVE  NamedBy(chain, r, refs'[r]) # {}
  <2>1. PushRefs(p) BY <1>1, Zenon
  <2>2. r \in Refs \intersect DOMAIN push[p].want BY <1>4, <2>1, Zenon DEF PushRefs
  <2>3. \E j \in NamedBy(chain, r, push[p].want[r]) : TRUE BY <1>4, <2>1, <2>2, Zenon DEF PushRefs
  <2> QED BY <1>4, <2>3, Zenon
<1>5. ASSUME NEW y \in Syncs, sync[y].pc = "run", sync[y].state[r] \in Commits,
             refs'[r] = sync[y].state[r]
      PROVE  NamedBy(chain, r, refs'[r]) # {}
  BY <1>1, <1>5, SyncIsNamed, Zenon
<1>6. NamedBy(chain, r, refs'[r]) # {} BY <1>1, <1>3, <1>4, <1>5, Zenon DEF Written
<1> QED BY <1>2, <1>6, Zenon

SyncAll == sync \in [Syncs -> SyncRun] /\ (\A y \in Syncs : SyncPlan(y)) /\ SyncInv

\* A step of the sync a that gives it the record new and leaves the state events alone.
Becomes(a, new) ==
    /\ sync' = [sync EXCEPT ![a] = new]
    /\ new \in SyncRun
    /\ chain' = chain

LEMMA BecomesAll ==
  ASSUME NEW a \in Syncs, NEW new, sync \in [Syncs -> SyncRun], Becomes(a, new)
  PROVE  /\ sync' \in [Syncs -> SyncRun]
         /\ sync'[a] = new
         /\ \A z \in Syncs : z # a => sync'[z] = sync[z]
         /\ latest' = latest /\ chain' = chain
  BY Zenon DEF Becomes, latest

\* Publishing a state and replacing a ref disturb every sync.
LEMMA DisturbedStep ==
  ASSUME SyncAll, chain \in Seq(States), [Next]_vars, sync' = Disturbed, UNCHANGED active
  PROVE  SyncAll'
<1>1. sync \in [Syncs -> SyncRun] BY Zenon DEF SyncAll
<1>2. ASSUME NEW y \in Syncs
      PROVE  /\ sync'[y] \in SyncRun /\ sync'[y].quiet = FALSE
             /\ sync'[y].pc = sync[y].pc /\ sync'[y].repo = sync[y].repo
             /\ sync'[y].state = sync[y].state /\ sync'[y].updates = sync[y].updates
             /\ sync'[y].deletions = sync[y].deletions
  <2>1. sync[y] \in SyncRun BY <1>1, Zenon
  <2>2. sync'[y] = [sync[y] EXCEPT !.quiet = FALSE] BY Zenon DEF Disturbed
  <2> QED BY <2>1, <2>2, Zenon DEF SyncRun
<1>3. sync' \in [Syncs -> SyncRun] BY <1>2, Zenon DEF Disturbed
<1>4. \A i \in 1..Len(chain) : i \in 1..Len(chain') /\ chain'[i] = chain[i] BY ChainGrows, Zenon
<1>5. ASSUME NEW y \in Syncs PROVE SyncPlan(y)'
  <2>1. SyncPlan(y) BY Zenon DEF SyncAll
  <2> QED BY <1>2, <1>4, <2>1, Zenon DEF SyncPlan
<1>6. ASSUME NEW y \in Syncs PROVE QuietInv(y)'
  <2>1. QuietInv(y) BY Zenon DEF SyncAll, SyncInv
  <2> QED BY <1>2, <2>1, Zenon DEF QuietInv, Synced
<1>7. ASSUME NEW y \in Syncs, NEW z \in Syncs PROVE PairInv(y, z)'
  <2>1. PairInv(y, z) BY Zenon DEF SyncAll, SyncInv
  <2> QED BY <1>2, <2>1, Zenon DEF PairInv, Synced
<1> QED BY <1>3, <1>5, <1>6, <1>7, Zenon DEF SyncAll, SyncInv

LEMMA StartStep ==
  ASSUME SyncAll, chain \in Seq(States), NEW a \in Syncs, NEW repo \in SyncRepos, StartSync(a, repo)
  PROVE  SyncAll'
<1> DEFINE new == [NoSync EXCEPT !.pc = IF repo = Repo THEN "plan" ELSE "finish",
                                 !.repo = repo, !.state = latest, !.quiet = TRUE]
<1>1. sync \in [Syncs -> SyncRun] BY Zenon DEF SyncAll
<1>2. latest \in States \union {NoState} BY LatestIsLast, Zenon
<1>3. /\ new.pc = IF repo = Repo THEN "plan" ELSE "finish"
      /\ new.repo = repo /\ new.state = latest /\ new.quiet = TRUE
      /\ new.updates = {} /\ new.deletions = {} /\ new \in SyncRun
  BY <1>2, Zenon DEF NoSync, SyncRun
<1>4. Becomes(a, new) BY <1>3, Zenon DEF StartSync, Becomes
<1> HIDE DEF new
<1>5. /\ sync' \in [Syncs -> SyncRun] /\ sync'[a] = new
      /\ \A z \in Syncs : z # a => sync'[z] = sync[z]
      /\ latest' = latest /\ chain' = chain
  BY <1>1, <1>4, BecomesAll, Zenon
<1>6. refs' = refs /\ active' = active \union {repo} /\ repo \notin active
  BY Zenon DEF StartSync, may_start
<1>7. repo = Repo => Len(chain) \in 1..Len(chain) /\ latest = chain[Len(chain)]
  BY LatestIsLast, Zenon DEF StartSync
<1>8. ASSUME NEW y \in Syncs PROVE SyncPlan(y)'
  <2>1. CASE y = a BY <1>3, <1>5, <1>6, <1>7, <2>1, Zenon DEF SyncPlan
  <2>2. CASE y # a
    <3>1. SyncPlan(y) BY Zenon DEF SyncAll
    <3> QED BY <1>5, <1>6, <2>2, <3>1, Zenon DEF SyncPlan
  <2> QED BY <2>1, <2>2, Zenon
<1>9. ASSUME NEW y \in Syncs PROVE QuietInv(y)'
  <2>1. CASE y = a BY <1>3, <1>5, <2>1, Zenon DEF QuietInv, Synced
  <2>2. CASE y # a
    <3>1. QuietInv(y) BY Zenon DEF SyncAll, SyncInv
    <3> QED BY <1>5, <1>6, <2>2, <3>1, Zenon DEF QuietInv, Synced
  <2> QED BY <2>1, <2>2, Zenon
<1>10. ASSUME NEW y \in Syncs, y # a, sync[y].pc \in {"plan", "run"} PROVE repo # Repo
  BY <1>6, <1>10, Zenon DEF SyncAll, SyncPlan
<1>11. ASSUME NEW y \in Syncs, NEW z \in Syncs PROVE PairInv(y, z)'
  <2>1. PairInv(y, z) BY Zenon DEF SyncAll, SyncInv
  <2>2. CASE y # a /\ z # a BY <1>5, <2>1, <2>2, Zenon DEF PairInv, Synced
  <2>3. CASE y = a BY <1>3, <1>5, <1>10, <2>3, Zenon DEF PairInv, Synced
  <2>4. CASE z = a BY <1>3, <1>5, <1>10, <2>4, Zenon DEF PairInv, Synced
  <2> QED BY <2>2, <2>3, <2>4, Zenon
<1> QED BY <1>5, <1>8, <1>9, <1>11, Zenon DEF SyncAll, SyncInv

LEMMA PlanStep ==
  ASSUME SyncAll, NEW a \in Syncs, PlanSync(a)
  PROVE  SyncAll'
<1> DEFINE old == sync[a]
           up == plan_updates(old.state)
           del == plan_deletions(old.state)
           new == [old EXCEPT !.pc = "run", !.updates = up, !.deletions = del]
<1>1. sync \in [Syncs -> SyncRun] /\ old \in SyncRun /\ old.pc = "plan"
  BY Zenon DEF SyncAll, PlanSync, SyncAt
<1>2. up \subseteq Refs /\ del \subseteq Refs BY Zenon DEF plan_updates, plan_deletions
<1>3. /\ new.pc = "run" /\ new.repo = old.repo /\ new.state = old.state /\ new.quiet = old.quiet
      /\ new.updates = up /\ new.deletions = del /\ new \in SyncRun
  BY <1>1, <1>2, Zenon DEF SyncRun
<1>4. Becomes(a, new) BY <1>1, <1>3, Zenon DEF PlanSync, Becomes
<1>5. /\ sync' \in [Syncs -> SyncRun] /\ sync'[a] = new
      /\ \A z \in Syncs : z # a => sync'[z] = sync[z]
      /\ latest' = latest /\ chain' = chain
  BY <1>1, <1>4, BecomesAll, Zenon
<1>6. refs' = refs /\ active' = active BY Zenon DEF PlanSync
<1>7. \A r \in Refs : r \notin up \union del => refs[r] = old.state[r]
  BY Zenon DEF plan_updates, plan_deletions
<1>8. \A r \in del : old.state[r] = "none" BY Zenon DEF plan_deletions
<1>9. ASSUME NEW z \in Syncs, Synced(z) PROVE up = {} /\ del = {}
  <2>1. \A r \in Refs : refs[r] = sync[z].state[r] BY <1>9, Zenon DEF SyncAll, SyncInv, QuietInv
  <2>2. sync[z].state = latest BY <1>9, Zenon DEF SyncAll, SyncInv, QuietInv, Synced
  <2>3. old.state = latest BY <1>1, <1>9, Zenon DEF SyncAll, SyncInv, PairInv
  <2> QED BY <2>1, <2>2, <2>3, Zenon DEF plan_updates, plan_deletions
<1> HIDE DEF old, up, del, new
<1>10. ASSUME NEW y \in Syncs PROVE SyncPlan(y)'
  <2>1. SyncPlan(y) BY Zenon DEF SyncAll
  <2> QED BY <1>1, <1>3, <1>5, <1>6, <2>1, ZenonT(30) DEF SyncPlan, old
<1>11. ASSUME NEW y \in Syncs PROVE QuietInv(y)'
  <2>1. QuietInv(y) BY Zenon DEF SyncAll, SyncInv
  <2>2. CASE y = a
    <3>1. old.quiet /\ old.repo = Repo => old.state = latest BY <2>1, <2>2, Zenon DEF QuietInv, old
    <3> QED BY <1>3, <1>5, <1>6, <1>7, <1>8, <2>2, <3>1, ZenonT(30) DEF QuietInv, Synced
  <2>3. CASE y # a BY <1>5, <1>6, <2>1, <2>3, Zenon DEF QuietInv, Synced
  <2> QED BY <2>2, <2>3, Zenon
<1>12. ASSUME NEW y \in Syncs, NEW z \in Syncs PROVE PairInv(y, z)'
  <2>1. PairInv(y, z) BY Zenon DEF SyncAll, SyncInv
  <2>2. Synced(z)' => Synced(z) /\ z # a BY <1>3, <1>5, Zenon DEF Synced
  <2>3. sync'[y].pc \in {"plan", "run"} => sync[y].pc \in {"plan", "run"}
    BY <1>1, <1>5, Zenon DEF old
  <2>4. sync'[z].pc \in {"plan", "run"} => sync[z].pc \in {"plan", "run"}
    BY <1>1, <1>5, Zenon DEF old
  <2>5. CASE y = a BY <1>3, <1>5, <1>9, <2>1, <2>2, <2>3, <2>4, <2>5, ZenonT(30) DEF PairInv
  <2>6. CASE y # a BY <1>5, <2>1, <2>2, <2>3, <2>4, <2>6, ZenonT(30) DEF PairInv
  <2> QED BY <2>5, <2>6, Zenon
<1> QED BY <1>5, <1>10, <1>11, <1>12, Zenon DEF SyncAll, SyncInv

\* One change of a running sync, made or failed.  Since it had something left to do no
\* quiet sync has finished.
LEMMA RunStep ==
  ASSUME SyncAll, NEW a \in Syncs, NEW new, Becomes(a, new), sync[a].pc = "run",
         sync[a].updates # {} \/ sync[a].deletions # {},
         new.pc = "run", new.repo = sync[a].repo, new.state = sync[a].state,
         new.quiet => sync[a].quiet, new.deletions \subseteq sync[a].deletions,
         UNCHANGED active,
         new.quiet => \A r \in Refs :
            r \notin new.updates \union new.deletions => refs'[r] = new.state[r]
  PROVE  SyncAll'
<1>1. sync \in [Syncs -> SyncRun] BY Zenon DEF SyncAll
<1>2. /\ sync' \in [Syncs -> SyncRun] /\ sync'[a] = new
      /\ \A z \in Syncs : z # a => sync'[z] = sync[z]
      /\ latest' = latest /\ chain' = chain
  BY <1>1, BecomesAll, Zenon
<1>3. ASSUME NEW z \in Syncs PROVE ~Synced(z)'
  <2>1. ~Synced(z) BY Zenon DEF SyncAll, SyncInv, PairInv
  <2> QED BY <1>2, <2>1, Zenon DEF Synced
<1>4. ASSUME NEW y \in Syncs, y # a PROVE sync[y].pc \notin {"plan", "run"}
  BY <1>4, Zenon DEF SyncAll, SyncInv, PairInv
<1>5. ASSUME NEW y \in Syncs PROVE SyncPlan(y)'
  <2>1. SyncPlan(y) BY Zenon DEF SyncAll
  <2>2. CASE y = a
    <3>1. sync[a].repo = Repo /\ Repo \in active /\ \E i \in 1..Len(chain) : sync[a].state = chain[i]
      BY <2>1, <2>2, Zenon DEF SyncPlan
    <3> QED BY <1>2, <2>2, <3>1, Zenon DEF SyncPlan
  <2>3. CASE y # a
    <3>1. sync'[y] = sync[y] BY <1>2, <2>3, Zenon
    <3> QED BY <1>2, <2>1, <3>1, ZenonT(30) DEF SyncPlan
  <2> QED BY <2>2, <2>3
<1>6. ASSUME NEW y \in Syncs PROVE QuietInv(y)'
  <2>1. QuietInv(y) BY Zenon DEF SyncAll, SyncInv
  <2>2. CASE y = a
    <3>1. new.quiet /\ new.repo = Repo => new.state = latest BY <2>1, <2>2, Zenon DEF QuietInv
    <3>2. \A r \in sync[a].deletions : sync[a].state[r] = "none" BY <2>1, <2>2, Zenon DEF QuietInv
    <3>3. \A r \in new.deletions : new.state[r] = "none" BY <3>2, Zenon
    <3>4. \A r \in sync'[y].deletions : sync'[y].state[r] = "none" BY <1>2, <2>2, <3>3, ZenonT(30)
    <3>5. sync'[y].quiet => \A r \in Refs :
             r \notin sync'[y].updates \union sync'[y].deletions => refs'[r] = sync'[y].state[r]
      BY <1>2, <2>2, Zenon
    <3>6. sync'[y].quiet /\ sync'[y].repo = Repo => sync'[y].state = latest' BY <1>2, <2>2, <3>1, Zenon
    <3> QED BY <1>3, <3>4, <3>5, <3>6, Zenon DEF QuietInv
  <2>3. CASE y # a BY <1>2, <1>3, <1>4, <2>1, <2>3, ZenonT(30) DEF QuietInv
  <2> QED BY <2>2, <2>3, Zenon
<1>7. ASSUME NEW y \in Syncs, NEW z \in Syncs PROVE PairInv(y, z)'
  <2>1. sync'[y].pc \in {"plan", "run"} => y = a BY <1>2, <1>4, Zenon
  <2>2. sync'[z].pc \in {"plan", "run"} => z = a BY <1>2, <1>4, Zenon
  <2> QED BY <1>3, <2>1, <2>2, Zenon DEF PairInv
<1> QED BY <1>2, <1>5, <1>6, <1>7, Zenon DEF SyncAll, SyncInv

LEMMA UpdateStep ==
  ASSUME SyncAll, refs = [q \in Refs |-> refs[q]], NEW a \in Syncs, NEW r \in Refs, UpdateRef(a, r)
  PROVE  SyncAll'
<1> DEFINE old == sync[a]
           new == [old EXCEPT !.updates = @ \ {r}]
<1>1. sync \in [Syncs -> SyncRun] /\ old \in SyncRun /\ old.pc = "run" /\ r \in old.updates
  BY Zenon DEF SyncAll, UpdateRef, SyncAt
<1>2. /\ new.pc = "run" /\ new.repo = old.repo /\ new.state = old.state /\ new.quiet = old.quiet
      /\ new.updates = old.updates \ {r} /\ new.deletions = old.deletions /\ new \in SyncRun
  BY <1>1, Zenon DEF SyncRun
<1>3. Becomes(a, new) /\ UNCHANGED active BY <1>2, Zenon DEF UpdateRef, Becomes
<1>4. refs' = [refs EXCEPT ![r] = old.state[r]] BY Zenon DEF UpdateRef
<1>5. old.quiet => \A q \in Refs : q \notin old.updates \union old.deletions => refs[q] = old.state[q]
  BY <1>1, Zenon DEF SyncAll, SyncInv, QuietInv
<1>6. new.quiet => \A q \in Refs : q \notin new.updates \union new.deletions => refs'[q] = new.state[q]
  BY <1>2, <1>4, <1>5, Zenon
<1> HIDE DEF new
<1> QED BY <1>1, <1>2, <1>3, <1>6, RunStep, Zenon

LEMMA DeleteStep ==
  ASSUME SyncAll, refs = [q \in Refs |-> refs[q]], NEW a \in Syncs, NEW r \in Refs, DeleteRef(a, r)
  PROVE  SyncAll'
<1> DEFINE old == sync[a]
           new == [old EXCEPT !.deletions = @ \ {r}]
<1>1. sync \in [Syncs -> SyncRun] /\ old \in SyncRun /\ old.pc = "run" /\ r \in old.deletions
  BY Zenon DEF SyncAll, DeleteRef, SyncAt
<1>2. /\ new.pc = "run" /\ new.repo = old.repo /\ new.state = old.state /\ new.quiet = old.quiet
      /\ new.updates = old.updates /\ new.deletions = old.deletions \ {r} /\ new \in SyncRun
  BY <1>1, Zenon DEF SyncRun
<1>3. Becomes(a, new) /\ UNCHANGED active BY <1>2, Zenon DEF DeleteRef, Becomes
<1>4. refs' = [refs EXCEPT ![r] = "none"] BY Zenon DEF DeleteRef
<1>5. /\ old.quiet => \A q \in Refs : q \notin old.updates \union old.deletions => refs[q] = old.state[q]
      /\ old.state[r] = "none"
  BY <1>1, Zenon DEF SyncAll, SyncInv, QuietInv
<1>6. new.quiet => \A q \in Refs : q \notin new.updates \union new.deletions => refs'[q] = new.state[q]
  BY <1>2, <1>4, <1>5, ZenonT(30)
<1> HIDE DEF new
<1> QED BY <1>1, <1>2, <1>3, <1>6, RunStep, Zenon

LEMMA FailStep ==
  ASSUME SyncAll, NEW a \in Syncs, NEW r \in Refs, FailRef(a, r)
  PROVE  SyncAll'
<1> DEFINE old == sync[a]
           up == [old EXCEPT !.updates = @ \ {r}, !.quiet = FALSE]
           del == [old EXCEPT !.deletions = @ \ {r}, !.quiet = FALSE]
<1>1. sync \in [Syncs -> SyncRun] /\ old \in SyncRun /\ old.pc = "run"
      /\ (old.updates # {} \/ old.deletions # {})
  BY Zenon DEF SyncAll, FailRef, SyncAt
<1>2. /\ up.pc = "run" /\ up.repo = old.repo /\ up.state = old.state /\ up.quiet = FALSE
      /\ up.deletions = old.deletions /\ up \in SyncRun
      /\ del.pc = "run" /\ del.repo = old.repo /\ del.state = old.state /\ del.quiet = FALSE
      /\ del.deletions = old.deletions \ {r} /\ del \in SyncRun
  BY <1>1, Zenon DEF SyncRun
<1>3. /\ UNCHANGED active /\ chain' = chain
      /\ sync' = [sync EXCEPT ![a] = up] \/ sync' = [sync EXCEPT ![a] = del]
  BY <1>1, Zenon DEF FailRef
<1>4. Becomes(a, up) \/ Becomes(a, del) BY <1>2, <1>3, Zenon DEF Becomes
<1> HIDE DEF up, del
<1>5. CASE Becomes(a, up) BY <1>1, <1>2, <1>3, <1>5, RunStep, Zenon
<1>6. CASE Becomes(a, del) BY <1>1, <1>2, <1>3, <1>6, RunStep, ZenonT(30)
<1> QED BY <1>4, <1>5, <1>6, Zenon

LEMMA FinishStep ==
  ASSUME SyncAll, NEW a \in Syncs, FinishSync(a)
  PROVE  SyncAll'
<1> DEFINE old == sync[a]
           new == [old EXCEPT !.pc = "done"]
<1>1. sync \in [Syncs -> SyncRun] /\ old \in SyncRun
      /\ (old.pc = "finish" \/ (old.pc = "run" /\ old.updates = {} /\ old.deletions = {}))
  BY Zenon DEF SyncAll, FinishSync, SyncAt
<1>2. /\ new.pc = "done" /\ new.repo = old.repo /\ new.state = old.state /\ new.quiet = old.quiet
      /\ new \in SyncRun
  BY <1>1, Zenon DEF SyncRun
<1>3. Becomes(a, new) BY <1>1, <1>2, Zenon DEF FinishSync, Becomes
<1>4. /\ sync' \in [Syncs -> SyncRun] /\ sync'[a] = new
      /\ \A z \in Syncs : z # a => sync'[z] = sync[z]
      /\ latest' = latest /\ chain' = chain
  BY <1>1, <1>3, BecomesAll, Zenon
<1> HIDE DEF new
<1>5. refs' = refs /\ active' = active \ {old.repo} BY Zenon DEF FinishSync
<1>6. ASSUME NEW y \in Syncs, y # a, old.repo = Repo PROVE sync[y].pc \notin {"plan", "run"}
  <2>1. old.pc = "run" BY <1>1, <1>6, Zenon DEF SyncAll, SyncPlan
  <2> QED BY <1>6, <2>1, Zenon DEF SyncAll, SyncInv, PairInv
<1>7. ASSUME NEW y \in Syncs PROVE SyncPlan(y)'
  <2>1. SyncPlan(y) BY Zenon DEF SyncAll
  <2>2. CASE y = a BY <1>2, <1>4, <2>2, Zenon DEF SyncPlan
  <2>3. CASE y # a BY <1>4, <1>5, <1>6, <2>1, <2>3, ZenonT(30) DEF SyncPlan
  <2> QED BY <2>2, <2>3, Zenon
<1>8. ASSUME NEW y \in Syncs PROVE QuietInv(y)'
  <2>1. QuietInv(y) BY Zenon DEF SyncAll, SyncInv
  <2>2. CASE y = a
    <3>1. new.quiet /\ new.repo = Repo => new.state = latest BY <1>2, <2>1, <2>2, Zenon DEF QuietInv
    <3>2. ASSUME new.quiet, new.repo = Repo PROVE \A r \in Refs : refs[r] = new.state[r]
      <4>1. old.pc = "run" /\ old.updates = {} /\ old.deletions = {}
        BY <1>1, <1>2, <3>2, Zenon DEF SyncAll, SyncPlan
      <4> QED BY <1>2, <2>1, <2>2, <3>2, <4>1, ZenonT(30) DEF QuietInv
    <3> QED BY <1>2, <1>4, <1>5, <2>2, <3>1, <3>2, Zenon DEF QuietInv, Synced
  <2>3. CASE y # a BY <1>4, <1>5, <2>1, <2>3, Zenon DEF QuietInv, Synced
  <2> QED BY <2>2, <2>3, Zenon
<1>9. ASSUME NEW y \in Syncs, NEW z \in Syncs PROVE PairInv(y, z)'
  <2>1. PairInv(y, z) BY Zenon DEF SyncAll, SyncInv
  <2>2. CASE y = a BY <1>2, <1>4, <2>2, Zenon DEF PairInv
  <2>3. CASE y # a /\ z # a BY <1>4, <2>1, <2>3, Zenon DEF PairInv, Synced
  <2>4. CASE y # a /\ z = a
    <3>1. Synced(z)' => sync[y].pc \notin {"plan", "run"} BY <1>2, <1>4, <1>6, <2>4, Zenon DEF Synced
    <3> QED BY <1>2, <1>4, <2>4, <3>1, Zenon DEF PairInv
  <2> QED BY <2>2, <2>3, <2>4, Zenon
<1> QED BY <1>4, <1>7, <1>8, <1>9, Zenon DEF SyncAll, SyncInv

LEMMA SyncStepAll ==
  ASSUME SyncAll, chain \in Seq(States), refs = [r \in Refs |-> refs[r]], [Next]_vars
  PROVE  SyncAll'
<1>1. CASE UNCHANGED <<chain, refs, active, sync>>
  <2>1. latest' = latest BY <1>1, Zenon DEF latest
  <2>2. sync' \in [Syncs -> SyncRun] BY <1>1, Zenon DEF SyncAll
  <2>3. ASSUME NEW y \in Syncs PROVE SyncPlan(y)'
    BY <1>1, Zenon DEF SyncAll, SyncPlan
  <2>4. ASSUME NEW y \in Syncs PROVE QuietInv(y)'
    BY <1>1, <2>1, Zenon DEF SyncAll, SyncInv, QuietInv, Synced
  <2>5. ASSUME NEW y \in Syncs, NEW z \in Syncs PROVE PairInv(y, z)'
    BY <1>1, <2>1, Zenon DEF SyncAll, SyncInv, PairInv, Synced
  <2> QED BY <2>2, <2>3, <2>4, <2>5, ZenonT(30) DEF SyncAll, SyncInv
<1>2. ASSUME NEW s \in States, Publish(s) PROVE SyncAll'
  BY <1>2, DisturbedStep, Zenon DEF Publish
<1>3. ASSUME NEW p \in Pushes, NEW r \in Refs, ReplaceRef(p, r) PROVE SyncAll'
  BY <1>3, DisturbedStep, Zenon DEF ReplaceRef
<1>4. ASSUME NEW p \in Pushes,
             \/ ReceivePack(p) \/ Authorize(p) \/ PreReceive(p) \/ PostReceive(p) \/ HookFails(p)
             \/ \E k \in Keys, want \in Wants : InfoRefs(p, k, want)
      PROVE  UNCHANGED <<chain, refs, active, sync>>
  BY <1>4, Zenon DEF HookFails, InfoRefs, ReceivePack, Authorize, PreReceive, PostReceive
<1>5. CASE Walking \/ UNCHANGED vars BY <1>1, <1>5, Zenon DEF Walking, vars, gvars
<1>6. ASSUME NEW y \in Syncs, SyncStep(y) PROVE SyncAll'
  BY <1>6, PlanStep, FinishStep, UpdateStep, DeleteStep, FailStep, Zenon DEF SyncStep
<1>7. ASSUME NEW y \in Syncs, NEW repo \in SyncRepos, StartSync(y, repo) PROVE SyncAll'
  BY <1>7, StartStep, Zenon
<1> QED BY <1>1, <1>2, <1>3, <1>4, <1>5, <1>6, <1>7, ZenonT(30) DEF Next, PushStep

FullInv == GitInv /\ RefsInv /\ SyncInv

LEMMA FullInit == Init => FullInv
<1> SUFFICES ASSUME Init PROVE FullInv
  OBVIOUS
<1>1. GitInv BY GitInit, Zenon
<1>2. chain = <<>> /\ <<>> \in Seq(States) BY DEF Init
<1>3. refs = [r \in Refs |-> refs[r]] /\ RefsFollowStates BY Zenon DEF Init, RefsFollowStates
<1>4. \A p \in Pushes : PushRefs(p) BY Zenon DEF Init, PushRefs, NoPush
<1>5. NoSync \in SyncRun BY GitAssumption, Zenon DEF NoSync, SyncRun
<1>6. sync \in [Syncs -> SyncRun] BY <1>5, Zenon DEF Init
<1>7. ASSUME NEW y \in Syncs PROVE sync[y].pc = "idle" /\ sync[y].quiet = FALSE
  BY Zenon DEF Init, NoSync
<1>8. \A y \in Syncs : SyncPlan(y) BY <1>7, Zenon DEF SyncPlan
<1>9. SyncInv BY <1>7, Zenon DEF SyncInv, QuietInv, PairInv, Synced
<1> QED BY <1>1, <1>2, <1>3, <1>4, <1>6, <1>8, <1>9, Zenon DEF FullInv, RefsInv

LEMMA FullStep == FullInv /\ [Next]_vars => FullInv'
<1> SUFFICES ASSUME FullInv, [Next]_vars PROVE FullInv'
  OBVIOUS
<1>1. GitInv' BY GitStep, Zenon DEF FullInv
<1>2. PushShape /\ RefsInv /\ SyncAll BY Zenon DEF FullInv, GitInv, RefsInv, SyncAll
<1>3. chain \in Seq(States) /\ refs = [r \in Refs |-> refs[r]] BY <1>2, Zenon DEF RefsInv
<1>4. SyncAll' BY <1>2, <1>3, SyncStepAll, Zenon
<1>5. chain' \in Seq(States) BY <1>3, ChainGrows, Zenon
<1>6. refs' = [r \in Refs |-> refs'[r]] BY <1>3, RefsWritten, Zenon
<1>7. RefsFollowStates' BY <1>2, RefsFollowStep, Zenon
<1>8. \A p \in Pushes : PushRefs(p)' BY <1>2, PushRefsStep, Zenon
<1>9. RefsInv' BY <1>4, <1>5, <1>6, <1>7, <1>8, Zenon DEF RefsInv, SyncAll
<1> QED BY <1>1, <1>4, <1>9, Zenon DEF FullInv, SyncAll

LEMMA FullInvariant == Spec => []FullInv
  BY FullInit, FullStep, PTL DEF Spec

\* Whatever is pushed, synced, published and replaced meanwhile, a ref outside refs/nostr
\* only ever has a value that a state event named: evaluate_updates and build_sync_plan
\* let no other value through.
THEOREM RefsAreNamed == Spec => []RefsFollowStates
<1>1. FullInv => RefsFollowStates BY Zenon DEF FullInv, RefsInv
<1> QED BY <1>1, FullInvariant, PTL

\* A sync that nothing disturbed leaves the refs as its state says, and they stay so
\* until a state is published or a push replaces a ref: the limiter keeps a second sync
\* from running beside it, and a later one finds nothing to change.
THEOREM SyncsMatch == Spec => []SyncedMatches
<1>1. FullInv => SyncedMatches BY Zenon DEF FullInv, SyncInv, QuietInv, Synced, SyncedMatches
<1> QED BY <1>1, FullInvariant, PTL

\* git's comparison with the value the client was told, and the hook's reading of the
\* state after that, keep a push from undoing a newer state.
THEOREM PushesGoForward == Spec => PushNeverGoesBack
<1> DEFINE Forward == \A p \in Pushes, r \in Refs :
             ReplaceRef(p, r) /\ refs'[r] # refs[r] /\ Class(r) = "state" /\ refs[r] # "none" =>
               \E i \in Naming(r, refs[r]), j \in Naming(r, refs'[r]) : i <= j
<1>1. FullInv /\ [Next]_vars => [Forward]_vars
  <2> SUFFICES ASSUME FullInv, NEW p \in Pushes, NEW r \in Refs, ReplaceRef(p, r),
                      refs'[r] # refs[r], Class(r) = "state", refs[r] # "none"
               PROVE  \E i \in NamedBy(chain, r, refs[r]), j \in NamedBy(chain, r, refs'[r]) : i <= j
    BY NamedByIsNaming, Zenon
  <2>1. PushRefs(p) /\ refs = [q \in Refs |-> refs[q]] BY Zenon DEF FullInv, RefsInv
  <2>2. refs[r] = push[p].old[r] /\ refs'[r] = push[p].want[r] BY <2>1, Zenon DEF ReplaceRef
  <2>3. push[p].pc = "accepted" /\ r \in Refs \intersect DOMAIN push[p].want
    BY <2>1, Zenon DEF ReplaceRef, PushAt, PushRefs
  <2> QED BY <2>1, <2>2, <2>3, Zenon DEF PushRefs
<1> QED BY <1>1, FullInvariant, PTL DEF Spec, PushNeverGoesBack

\* build_sync_plan finds nothing to do after a sync that nothing disturbed, whoever
\* runs it and whenever, until a state is published or a push replaces a ref.
THEOREM LaterSyncsRest == Spec => []SyncsSettle
<1>1. FullInv => SyncsSettle BY Zenon DEF FullInv, SyncInv, PairInv, Synced, SyncsSettle
<1> QED BY <1>1, FullInvariant, PTL

\* execute_sync_plan writes what the latest state says, however long ago it was read,
\* unless a state was published or a ref replaced since.
THEOREM SyncsAreCurrent == Spec => SyncsWriteTheLatest
<1> DEFINE Current == \A y \in Syncs, r \in Refs :
             (UpdateRef(y, r) \/ DeleteRef(y, r)) /\ sync[y].quiet => refs'[r] = latest[r]
<1>1. FullInv /\ [Next]_vars => [Current]_vars
  <2> SUFFICES ASSUME FullInv, NEW y \in Syncs, NEW r \in Refs, UpdateRef(y, r) \/ DeleteRef(y, r),
                      sync[y].quiet
               PROVE  refs'[r] = latest[r]
    BY Zenon
  <2>1. QuietInv(y) /\ SyncPlan(y) /\ refs = [q \in Refs |-> refs[q]]
    BY Zenon DEF FullInv, RefsInv, SyncInv
  <2>2. sync[y].pc = "run" BY Zenon DEF UpdateRef, DeleteRef, SyncAt
  <2>3. sync[y].state = latest BY <2>1, <2>2, Zenon DEF QuietInv, SyncPlan
  <2>4. CASE UpdateRef(y, r) BY <2>1, <2>3, <2>4, Zenon DEF UpdateRef
  <2>5. CASE DeleteRef(y, r)
    <3>1. refs'[r] = "none" /\ r \in sync[y].deletions BY <2>1, <2>5, Zenon DEF DeleteRef
    <3> QED BY <2>1, <2>2, <2>3, <3>1, Zenon DEF QuietInv
  <2> QED BY <2>4, <2>5, Zenon
<1> QED BY <1>1, FullInvariant, PTL DEF Spec, SyncsWriteTheLatest

(***************************************************************************)
(* The limiter.  The slots are the repositories of the running syncs, each *)
(* taken once, so that counting the slots counts the syncs.                *)
(***************************************************************************)
RunningAt(pc) == pc \in {"plan", "run", "finish"}

Slots ==
    /\ \A y \in Syncs : RunningAt(sync[y].pc) => sync[y].repo \in active
    /\ \A repo \in active : \E y \in Syncs : RunningAt(sync[y].pc) /\ sync[y].repo = repo
    /\ \A y, z \in Syncs :
          RunningAt(sync[y].pc) /\ RunningAt(sync[z].pc) /\ sync[y].repo = sync[z].repo => y = z

WithinLimit == IsFiniteSet(active) /\ Cardinality(active) <= limit

\* A step that takes and frees no slot.
SameSlots ==
    /\ active' = active
    /\ \A y \in Syncs :
          sync'[y].repo = sync[y].repo /\ (RunningAt(sync'[y].pc) <=> RunningAt(sync[y].pc))

LEMMA SlotMoves ==
  ASSUME sync \in [Syncs -> SyncRun], [Next]_vars
  PROVE  \/ SameSlots
         \/ \E y \in Syncs, repo \in SyncRepos : StartSync(y, repo)
         \/ \E y \in Syncs : FinishSync(y)
<1>1. CASE UNCHANGED <<active, sync>> BY <1>1, Zenon DEF SameSlots
<1>2. ASSUME sync' = Disturbed, UNCHANGED active PROVE SameSlots
  <2>1. ASSUME NEW y \in Syncs PROVE sync'[y].repo = sync[y].repo /\ sync'[y].pc = sync[y].pc
    <3>1. sync[y] \in SyncRun BY Zenon
    <3>2. sync'[y] = [sync[y] EXCEPT !.quiet = FALSE] BY <1>2, Zenon DEF Disturbed
    <3> QED BY <3>1, <3>2, Zenon DEF SyncRun
  <2> QED BY <1>2, <2>1, Zenon DEF SameSlots
<1>3. ASSUME NEW y \in Syncs, NEW new, sync' = [sync EXCEPT ![y] = new], new.repo = sync[y].repo,
             RunningAt(new.pc), RunningAt(sync[y].pc), UNCHANGED active
      PROVE  SameSlots
  <2>1. \A z \in Syncs : sync'[z] = IF z = y THEN new ELSE sync[z] BY <1>3, Zenon
  <2> QED BY <1>3, <2>1, Zenon DEF SameSlots
<1>4. ASSUME NEW y \in Syncs, PlanSync(y) PROVE SameSlots
  <2> DEFINE new == [sync[y] EXCEPT !.pc = "run", !.updates = plan_updates(sync[y].state),
                                    !.deletions = plan_deletions(sync[y].state)]
  <2>1. sync' = [sync EXCEPT ![y] = new] /\ sync[y].pc = "plan" /\ UNCHANGED active
    BY <1>4, Zenon DEF PlanSync, SyncAt
  <2>2. sync[y] \in SyncRun BY Zenon
  <2>3. new.repo = sync[y].repo /\ new.pc = "run" BY <2>2, Zenon DEF SyncRun
  <2> HIDE DEF new
  <2> QED BY <1>3, <2>1, <2>3, Zenon DEF RunningAt
<1>5. ASSUME NEW y \in Syncs, NEW r \in Refs, UpdateRef(y, r) \/ DeleteRef(y, r) \/ FailRef(y, r)
      PROVE  SameSlots
  <2>1. sync[y] \in SyncRun /\ sync[y].pc = "run" /\ UNCHANGED active
    BY <1>5, Zenon DEF UpdateRef, DeleteRef, FailRef, SyncAt
  <2>2. PICK new : /\ sync' = [sync EXCEPT ![y] = new]
                   /\ \/ new = [sync[y] EXCEPT !.updates = @ \ {r}]
                      \/ new = [sync[y] EXCEPT !.deletions = @ \ {r}]
                      \/ new = [sync[y] EXCEPT !.updates = @ \ {r}, !.quiet = FALSE]
                      \/ new = [sync[y] EXCEPT !.deletions = @ \ {r}, !.quiet = FALSE]
    BY <1>5, Zenon DEF UpdateRef, DeleteRef, FailRef
  <2>3. new.repo = sync[y].repo /\ new.pc = "run" BY <2>1, <2>2, Zenon DEF SyncRun
  <2> QED BY <1>3, <2>1, <2>2, <2>3, Zenon DEF RunningAt
<1>6. ASSUME NEW p \in Pushes,
             \/ ReceivePack(p) \/ Authorize(p) \/ PreReceive(p) \/ PostReceive(p) \/ HookFails(p)
             \/ \E k \in Keys, want \in Wants : InfoRefs(p, k, want)
      PROVE  UNCHANGED <<active, sync>>
  BY <1>6, Zenon DEF HookFails, InfoRefs, ReceivePack, Authorize, PreReceive, PostReceive
<1>7. ASSUME NEW p \in Pushes, NEW r \in Refs, ReplaceRef(p, r) PROVE SameSlots
  BY <1>2, <1>7, Zenon DEF ReplaceRef
<1>8. ASSUME NEW s \in States, Publish(s) PROVE SameSlots BY <1>2, <1>8, Zenon DEF Publish
<1>9. CASE Walking \/ UNCHANGED vars BY <1>1, <1>9, Zenon DEF Walking, vars, gvars
<1> QED BY <1>1, <1>4, <1>5, <1>6, <1>7, <1>8, <1>9, ZenonT(30) DEF Next, PushStep, SyncStep

LEMMA StartTakes ==
  ASSUME sync \in [Syncs -> SyncRun], Slots, WithinLimit,
         NEW a \in Syncs, NEW repo \in SyncRepos, StartSync(a, repo)
  PROVE  Slots' /\ WithinLimit'
<1>1. PICK new : /\ new = [NoSync EXCEPT !.pc = IF repo = Repo THEN "plan" ELSE "finish",
                                         !.repo = repo, !.state = latest, !.quiet = TRUE]
                 /\ sync' = [sync EXCEPT ![a] = new]
  BY Zenon DEF StartSync
<1>2. new.repo = repo /\ RunningAt(new.pc) BY <1>1, Zenon DEF NoSync, RunningAt
<1>3. \A z \in Syncs : sync'[z] = IF z = a THEN new ELSE sync[z] BY <1>1, Zenon
<1>4. /\ active' = active \union {repo} /\ repo \notin active /\ Cardinality(active) < limit
      /\ ~RunningAt(sync[a].pc)
  BY Zenon DEF StartSync, may_start, SyncAt, RunningAt
<1>5. Slots'
  <2>1. ASSUME NEW y \in Syncs, RunningAt(sync'[y].pc) PROVE sync'[y].repo \in active'
    BY <1>2, <1>3, <1>4, <2>1, Zenon DEF Slots
  <2>2. ASSUME NEW s \in active' PROVE \E y \in Syncs : RunningAt(sync'[y].pc) /\ sync'[y].repo = s
    <3>1. CASE s = repo BY <1>2, <1>3, <3>1, Zenon
    <3>2. CASE s \in active
      <4>1. PICK y \in Syncs : RunningAt(sync[y].pc) /\ sync[y].repo = s BY <3>2, Zenon DEF Slots
      <4> QED BY <1>3, <1>4, <4>1, Zenon
    <3> QED BY <1>4, <3>1, <3>2, Zenon
  <2>3. ASSUME NEW y \in Syncs, NEW z \in Syncs, RunningAt(sync'[y].pc), RunningAt(sync'[z].pc),
               sync'[y].repo = sync'[z].repo
        PROVE  y = z
    <3>1. ASSUME NEW x \in Syncs, x # a, RunningAt(sync'[x].pc)
          PROVE  RunningAt(sync[x].pc) /\ sync'[x].repo = sync[x].repo /\ sync[x].repo # repo
      <4>1. sync'[x] = sync[x] BY <1>3, <3>1, Zenon
      <4>2. RunningAt(sync[x].pc) BY <3>1, <4>1, Zenon
      <4>3. sync[x].repo \in active BY <4>2, Zenon DEF Slots
      <4> QED BY <1>4, <4>1, <4>2, <4>3, Zenon
    <3>2. sync'[a].repo = repo BY <1>2, <1>3, Zenon
    <3>3. CASE y = a \/ z = a BY <2>3, <3>1, <3>2, <3>3, Zenon
    <3>4. CASE y # a /\ z # a BY <2>3, <3>1, <3>4, Zenon DEF Slots
    <3> QED BY <3>3, <3>4, Zenon
  <2> QED BY <2>1, <2>2, <2>3, Zenon DEF Slots
<1>6. WithinLimit'
  <2>1. IsFiniteSet(active') /\ Cardinality(active') = Cardinality(active) + 1
    BY <1>4, FS_AddElement, Zenon DEF WithinLimit
  <2>2. Cardinality(active) \in Nat BY FS_CardinalityType, Zenon DEF WithinLimit
  <2>3. limit \in Nat BY GitAssumption DEF limit
  <2>4. Cardinality(active') <= limit BY SMTT(20), <1>4, <2>1, <2>2, <2>3
  <2> QED BY <2>1, <2>4, Zenon DEF WithinLimit, limit
<1> QED BY <1>5, <1>6, Zenon

LEMMA FinishFrees ==
  ASSUME sync \in [Syncs -> SyncRun], Slots, WithinLimit, NEW a \in Syncs, FinishSync(a)
  PROVE  Slots' /\ WithinLimit'
<1>1. PICK new : new = [sync[a] EXCEPT !.pc = "done"] /\ sync' = [sync EXCEPT ![a] = new]
  BY Zenon DEF FinishSync
<1>2. sync[a] \in SyncRun BY Zenon
<1>3. new.pc = "done" BY <1>1, <1>2, Zenon DEF SyncRun
<1>4. ~RunningAt(new.pc) BY <1>3, Zenon DEF RunningAt
<1>5. \A z \in Syncs : sync'[z] = IF z = a THEN new ELSE sync[z] BY <1>1, Zenon
<1>6. RunningAt(sync[a].pc) /\ active' = active \ {sync[a].repo}
  BY Zenon DEF FinishSync, SyncAt, RunningAt
<1>7. Slots'
  <2>1. ASSUME NEW x \in Syncs, RunningAt(sync'[x].pc)
        PROVE  RunningAt(sync[x].pc) /\ sync'[x].repo = sync[x].repo /\ sync[x].repo # sync[a].repo
    BY <1>4, <1>5, <1>6, <2>1, Zenon DEF Slots
  <2>2. ASSUME NEW y \in Syncs, RunningAt(sync'[y].pc) PROVE sync'[y].repo \in active'
    BY <1>6, <2>1, <2>2, Zenon DEF Slots
  <2>3. ASSUME NEW s \in active' PROVE \E y \in Syncs : RunningAt(sync'[y].pc) /\ sync'[y].repo = s
    <3>1. s \in active /\ s # sync[a].repo BY <1>6, <2>3, Zenon
    <3>2. PICK y \in Syncs : RunningAt(sync[y].pc) /\ sync[y].repo = s BY <3>1, Zenon DEF Slots
    <3> QED BY <1>5, <3>1, <3>2, Zenon
  <2>4. ASSUME NEW y \in Syncs, NEW z \in Syncs, RunningAt(sync'[y].pc), RunningAt(sync'[z].pc),
               sync'[y].repo = sync'[z].repo
        PROVE  y = z
    BY <2>1, <2>4, ZenonT(30) DEF Slots
  <2> QED BY <2>2, <2>3, <2>4, Zenon DEF Slots
<1>8. WithinLimit'
  <2>1. sync[a].repo \in active BY <1>6, Zenon DEF Slots
  <2>2. IsFiniteSet(active') /\ Cardinality(active') = Cardinality(active) - 1
    BY <1>6, <2>1, FS_RemoveElement, Zenon DEF WithinLimit
  <2>3. Cardinality(active) \in Nat BY FS_CardinalityType, Zenon DEF WithinLimit
  <2>4. limit \in Nat BY GitAssumption DEF limit
  <2>5. Cardinality(active) <= limit BY Zenon DEF WithinLimit
  <2>6. Cardinality(active') <= limit BY SMTT(20), <2>2, <2>3, <2>4, <2>5
  <2> QED BY <2>2, <2>6, Zenon DEF WithinLimit, limit
<1> QED BY <1>7, <1>8, Zenon

LEMMA SlotsStep == FullInv /\ (Slots /\ WithinLimit) /\ [Next]_vars => (Slots /\ WithinLimit)'
<1> SUFFICES ASSUME FullInv, Slots, WithinLimit, [Next]_vars PROVE Slots' /\ WithinLimit'
  OBVIOUS
<1>1. sync \in [Syncs -> SyncRun] BY Zenon DEF FullInv, RefsInv
<1>2. CASE SameSlots
  <2>1. Slots' BY <1>2, ZenonT(30) DEF Slots, SameSlots
  <2>2. WithinLimit' BY <1>2, Zenon DEF WithinLimit, SameSlots, limit
  <2> QED BY <2>1, <2>2, Zenon
<1> QED BY <1>1, <1>2, SlotMoves, StartTakes, FinishFrees, Zenon

\* SyncLimiter, for any number of syncs, repositories and slots: a slot is taken exactly
\* while its repository is being synced, and no more syncs run than there are slots.
THEOREM SyncSlots == Spec => []SyncsAreLimited
<1>1. Init => Slots /\ WithinLimit
  <2> SUFFICES ASSUME Init PROVE Slots /\ WithinLimit OBVIOUS
  <2>1. active = {} /\ \A y \in Syncs : sync[y].pc = "idle" BY Zenon DEF Init, NoSync
  <2>2. limit \in Nat BY GitAssumption DEF limit
  <2>3. WithinLimit BY <2>1, <2>2, FS_EmptySet DEF WithinLimit
  <2>4. Slots BY <2>1, Zenon DEF Slots, RunningAt
  <2> QED BY <2>3, <2>4, Zenon
<1>2. Slots /\ WithinLimit => SyncsAreLimited
  <2> SUFFICES ASSUME Slots, WithinLimit PROVE SyncsAreLimited OBVIOUS
  <2>1. active = {sync[y].repo : y \in Running}
    <3>1. \A y \in Syncs : y \in Running <=> RunningAt(sync[y].pc) BY Zenon DEF Running, RunningAt
    <3>2. Running \subseteq Syncs BY Zenon DEF Running
    <3>3. \A s \in active : \E y \in Running : s = sync[y].repo BY <3>1, Zenon DEF Slots
    <3>4. \A y \in Running : sync[y].repo \in active BY <3>1, <3>2, Zenon DEF Slots
    <3> QED BY <3>3, <3>4, Zenon
  <2>2. \A y, z \in Running : sync[y].repo = sync[z].repo => y = z
    BY Zenon DEF Slots, Running, RunningAt
  <2> DEFINE slot == [y \in Running |-> sync[y].repo]
  <2>3. slot \in [Running -> active] BY <2>1, Zenon
  <2>4. \A y, z \in Running : slot[y] = slot[z] => y = z BY <2>2, Zenon
  <2>5. DOMAIN slot = Running BY Zenon
  <2> HIDE DEF slot
  <2>6. slot \in Injection(Running, active)
    BY <2>3, <2>4, <2>5, Zenon DEF Injection, IsInjective
  <2>7. IsFiniteSet(Running) /\ Cardinality(Running) <= Cardinality(active)
    BY <2>6, FS_Injection, Zenon DEF WithinLimit
  <2>8. Cardinality(Running) \in Nat /\ Cardinality(active) \in Nat /\ limit \in Nat
    <3>1. limit \in Nat BY GitAssumption DEF limit
    <3> QED BY <2>7, <3>1, FS_CardinalityType, Zenon DEF WithinLimit
  <2>9. Cardinality(active) <= limit BY Zenon DEF WithinLimit
  <2>10. Cardinality(Running) <= limit BY <2>7, <2>8, <2>9
  <2> QED BY <2>1, <2>2, <2>10, Zenon DEF SyncsAreLimited
<1> QED BY <1>1, <1>2, FullInvariant, SlotsStep, PTL DEF Spec
-----------------------------------------------------------------------------
(***************************************************************************)
(* Types.  A push's updates are those its client asked for, which names    *)
(* commits; a sync writes what is a commit only.                           *)
(***************************************************************************)
Values == Commits \union {"none"}

PushTyped(q) ==
    /\ q.pc \in {"idle", "ready", "walking", "forwarded", "accepted", "refused", "done"}
    /\ q.key \in Keys /\ q.left \subseteq Refs
    /\ q.pc # "idle" => q.want \in Wants /\ q.left \subseteq DOMAIN q.want

GitTyped ==
    /\ Len(chain) <= MaxStates
    /\ refs \in [Refs -> Values]
    /\ \A p \in Pushes : PushTyped(push[p])
    /\ active \subseteq SyncRepos
    /\ failures \in 0..MaxFailures

LEMMA ChainTyped ==
  ASSUME chain \in Seq(States), Len(chain) <= MaxStates, [Next]_vars
  PROVE  Len(chain') <= MaxStates
<1>1. CASE chain' = chain BY <1>1
<1>2. ASSUME NEW s \in States, Publish(s) PROVE Len(chain') <= MaxStates
  <2>1. Len(chain) < MaxStates /\ chain' = Append(chain, s) BY <1>2, Zenon DEF Publish
  <2>2. Len(chain') = Len(chain) + 1 /\ Len(chain) \in Nat BY SMTT(20), <2>1
  <2> QED BY <2>1, <2>2, GitAssumption
<1>3. chain' = chain \/ \E s \in States : Publish(s)
  BY ZenonT(30) DEF Next, vars, gvars, Walking, InfoRefs, PushStep, ReceivePack, Authorize, PreReceive,
     ReplaceRef, PostReceive, HookFails, StartSync, SyncStep, PlanSync, FinishSync, UpdateRef, DeleteRef,
     FailRef
<1> QED BY <1>1, <1>2, <1>3, Zenon

LEMMA FailuresTyped ==
  ASSUME failures \in 0..MaxFailures, [Next]_vars
  PROVE  failures' \in 0..MaxFailures
<1>1. failures' = failures \/ (failures < MaxFailures /\ failures' = failures + 1)
  BY ZenonT(30) DEF Next, vars, gvars, Walking, Publish, InfoRefs, PushStep, ReceivePack, Authorize,
     PreReceive, ReplaceRef, PostReceive, HookFails, StartSync, SyncStep, PlanSync, FinishSync, UpdateRef,
     DeleteRef, FailRef
<1> QED BY <1>1, GitAssumption

LEMMA ActiveTyped ==
  ASSUME active \subseteq SyncRepos, [Next]_vars
  PROVE  active' \subseteq SyncRepos
<1>1. active' \subseteq active \/ \E repo \in SyncRepos : active' = active \union {repo}
  BY ZenonT(30) DEF Next, vars, gvars, Walking, Publish, InfoRefs, PushStep, ReceivePack, Authorize,
     PreReceive, ReplaceRef, PostReceive, HookFails, StartSync, SyncStep, PlanSync, FinishSync, UpdateRef,
     DeleteRef, FailRef
<1> QED BY <1>1, Zenon

LEMMA RefsTyped ==
  ASSUME refs \in [Refs -> Values], \A p \in Pushes : PushTyped(push[p]), [Next]_vars
  PROVE  refs' \in [Refs -> Values]
<1>1. CASE refs' = refs BY <1>1, Zenon
<1>2. ASSUME NEW p \in Pushes, NEW r \in Refs, ReplaceRef(p, r) PROVE refs' \in [Refs -> Values]
  <2>1. push[p].want \in Wants /\ r \in DOMAIN push[p].want
    BY <1>2, Zenon DEF ReplaceRef, PushAt, PushTyped
  <2>2. push[p].want[r] \in Values BY <2>1, GitAssumption, Zenon DEF Values
  <2> QED BY <1>2, <2>2, Zenon DEF ReplaceRef
<1>3. ASSUME NEW y \in Syncs, NEW r \in Refs, UpdateRef(y, r) \/ DeleteRef(y, r)
      PROVE  refs' \in [Refs -> Values]
  BY <1>3, ZenonT(30) DEF UpdateRef, DeleteRef, Values
<1>4. \/ refs' = refs
      \/ \E p \in Pushes, r \in Refs : ReplaceRef(p, r)
      \/ \E y \in Syncs, r \in Refs : UpdateRef(y, r) \/ DeleteRef(y, r)
  BY ZenonT(30) DEF Next, vars, gvars, Walking, Publish, InfoRefs, PushStep, ReceivePack, Authorize, PreReceive,
     PostReceive, HookFails, StartSync, SyncStep, PlanSync, FinishSync, FailRef
<1> QED BY <1>1, <1>2, <1>3, <1>4, Zenon

LEMMA PushesTyped ==
  ASSUME PushShape, \A p \in Pushes : PushTyped(push[p]), [Next]_vars, NEW q \in Pushes
  PROVE  PushTyped(push'[q])
<1> DEFINE old == push[q]
<1>1. /\ push = [p \in Pushes |-> push[p]]
      /\ DOMAIN old = {"pc", "key", "want", "old", "left"} /\ PushTyped(old)
  BY Zenon DEF PushShape
<1>2. CASE push'[q] = push[q] BY <1>1, <1>2, Zenon
<1>3. ASSUME NEW k \in Keys, NEW want \in Wants, InfoRefs(q, k, want) PROVE PushTyped(push'[q])
  <2>1. push'[q] = [pc |-> "ready", key |-> k, want |-> want, old |-> refs, left |-> DOMAIN want]
    BY <1>1, <1>3, Zenon DEF InfoRefs
  <2>2. /\ push'[q].pc = "ready" /\ push'[q].key = k
        /\ push'[q].want = want /\ push'[q].left = DOMAIN want
    BY <2>1
  <2>3. DOMAIN want \subseteq Refs BY GitAssumption, Zenon
  <2> QED BY <2>2, <2>3, Zenon DEF PushTyped
<1>4. ASSUME NEW pc \in {"walking", "forwarded", "accepted", "refused", "done"}, PushTo(q, pc),
             old.pc # "idle"
      PROVE  PushTyped(push'[q])
  <2>1. /\ push'[q].pc = pc /\ push'[q].key = old.key
        /\ push'[q].want = old.want /\ push'[q].left = old.left
    BY <1>1, <1>4, Zenon DEF PushTo
  <2> QED BY <1>1, <1>4, <2>1, Zenon DEF PushTyped
<1>5. ASSUME NEW r \in Refs, ReplaceRef(q, r) PROVE PushTyped(push'[q])
  <2>1. /\ push'[q].pc = old.pc /\ push'[q].key = old.key /\ push'[q].want = old.want
        /\ push'[q].left = old.left \ {r}
    BY <1>1, <1>5, Zenon DEF ReplaceRef
  <2> QED BY <1>1, <2>1, Zenon DEF PushTyped
<1>6. ASSUME ReceivePack(q) \/ Authorize(q) \/ PreReceive(q) \/ PostReceive(q) \/ HookFails(q)
      PROVE  \E pc \in {"walking", "forwarded", "accepted", "refused", "done"} :
                PushTo(q, pc) /\ old.pc # "idle"
  BY <1>6, Zenon DEF ReceivePack, Authorize, PreReceive, PostReceive, HookFails, PushAt
<1>7. ASSUME NEW p \in Pushes, p # q,
             \/ PushStep(p) \/ HookFails(p)
             \/ \E k \in Keys, want \in Wants : InfoRefs(p, k, want)
      PROVE  push'[q] = push[q]
  BY <1>1, <1>7, ZenonT(30) DEF PushStep, InfoRefs, ReceivePack, Authorize, PreReceive, ReplaceRef,
     PostReceive, HookFails, PushTo
<1>8. \/ push' = push
      \/ \E p \in Pushes : \/ PushStep(p) \/ HookFails(p)
                           \/ \E k \in Keys, want \in Wants : InfoRefs(p, k, want)
  BY ZenonT(30) DEF Next, vars, gvars, Walking, Publish, StartSync, SyncStep, PlanSync, FinishSync, UpdateRef,
     DeleteRef, FailRef
<1> HIDE DEF old
<1> QED BY <1>2, <1>3, <1>4, <1>5, <1>6, <1>7, <1>8, Zenon DEF PushStep

\* What is written to the refs are commits, although states may name symbolic values
\* and a sync plans from them as they are (execute_sync_plan); the records of walks,
\* pushes and syncs keep their shapes.
THEOREM GitTypes == Spec => []TypeOK
<1>1. Init => GitTyped
  <2> SUFFICES ASSUME Init PROVE GitTyped
    OBVIOUS
  <2>1. chain = <<>> /\ Len(<<>>) = 0 BY DEF Init
  <2>2. refs \in [Refs -> Values] BY Zenon DEF Init, Values
  <2>3. \A p \in Pushes : PushTyped(push[p])
    BY MaintainersAssumption, Zenon DEF Init, NoPush, PushTyped
  <2>4. active \subseteq SyncRepos /\ failures = 0 BY Zenon DEF Init
  <2>5. Len(chain) <= MaxStates /\ failures \in 0..MaxFailures BY SMTT(20), <2>1, <2>4, GitAssumption
  <2> QED BY <2>2, <2>3, <2>4, <2>5, Zenon DEF GitTyped
<1>2. FullInv /\ GitTyped /\ [Next]_vars => GitTyped'
  <2> SUFFICES ASSUME FullInv, GitTyped, [Next]_vars PROVE GitTyped'
    OBVIOUS
  <2>1. PushShape /\ chain \in Seq(States) BY Zenon DEF FullInv, GitInv, RefsInv
  <2> QED BY <2>1, ChainTyped, FailuresTyped, ActiveTyped, RefsTyped, PushesTyped, Zenon DEF GitTyped
<1>3. FullInv /\ GitTyped => TypeOK
  <2> SUFFICES ASSUME FullInv, GitTyped PROVE TypeOK
    OBVIOUS
  <2>1. WalkTypeOK /\ chain \in Seq(States) /\ sync \in [Syncs -> SyncRun]
    BY Zenon DEF FullInv, GitInv, MInv, RefsInv
  <2>2. \A y \in Syncs :
          /\ sync[y].pc \in {"idle", "plan", "run", "finish", "done"}
          /\ sync[y].updates \subseteq Refs /\ sync[y].deletions \subseteq Refs
    BY <2>1, Zenon DEF SyncRun
  <2> QED BY <2>1, <2>2, Zenon DEF TypeOK, GitTyped, PushTyped, Values
<1> QED BY <1>1, <1>2, <1>3, FullInvariant, PTL DEF Spec
=============================================================================
