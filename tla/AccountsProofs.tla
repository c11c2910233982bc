--------------------------- MODULE AccountsProofs ---------------------------
(***************************************************************************)
(* Proofs for the auth service, for any number of requests of any kinds,   *)
(* any fields and any faults.                                              *)
(*                                                                         *)
(* The invariant has a part about the rows (Rows) and one about each       *)
(* handler (One).  What a handler carries across an await is what the      *)
(* properties are about, so One says of a carried row what the property    *)
(* says of the stored one: values of requests answered before the handler  *)
(* began are kept in it, and it is dated by the stored row or by a request *)
(* that overlaps.                                                          *)
(***************************************************************************)
EXTENDS Accounts, TLAPS

\* A patch that was answered with its write applied.
Stored(p) == p \in wrote /\ Kind[p] = "patch" /\ At(p, "ok")

\* The value w of a field respects the patch p of that field.
Kept(p, w) ==
    \/ w = p
    \/ w \in Requests /\ p \in task[w].after
    \/ \E q \in wrote : Overlap(p, q)

\* A request that overlaps r created the stored row.
MadeBeside(r) == \E q \in wrote : Overlap(r, q) /\ task[q].now = profile.created_at

\* Handlers that have found no account, or no profile.
Fresh(r) ==
    \/ task[r].pc \in {"user_read", "user_create", "account_write", "repair"}
    \/ Kind[r] = "signup" /\ At(r, "profile_write")

\* The rows: each rests on the one before it, and was stored by a request.
Rows ==
    /\ account => forgejo
    /\ profile # NoProfile => account /\ \E q \in wrote : task[q].now = profile.created_at
    /\ wrote # {} => profile # NoProfile
    /\ \A p \in Requests : Stored(p) => \A f \in Sets[p] : Kept(p, profile.fields[f])

\* Where a handler is says which rows exist.
Place(r) ==
    /\ At(r, "account_write") => forgejo
    /\ task[r].pc \in {"profile_read", "repair", "profile_write"} => account
    /\ task[r].pc \in {"created", "ok"} => profile # NoProfile
    /\ task[r].pc \in {"user_read", "user_create", "account_write"} => Kind[r] = "signup"
    /\ task[r].pc \in {"profile_read", "repair", "ok"} => Kind[r] # "signup"

\* The history: requests answered before r began, with earlier clocks.
Past(r) ==
    /\ task[r].now <= now
    /\ At(r, "idle") => task[r].after = {} /\ r \notin wrote
    /\ \A p \in task[r].after : task[p].pc \in Answers /\ task[p].now <= task[r].now
    /\ Fresh(r) => \A p \in task[r].after : p \notin wrote /\ ~At(p, "ok")

\* The row a handler is about to write, or has answered with.
Carried(r) ==
    /\ task[r].pc \in {"profile_write", "ok"} => task[r].row \in Profiles
    /\ At(r, "profile_write") /\ Kind[r] = "signup" => task[r].row = NewProfile(task[r].now)
    /\ At(r, "profile_write") /\ Kind[r] # "signup" =>
          /\ Kind[r] = "patch" /\ profile # NoProfile
          /\ task[r].row.updated_at = task[r].now
          /\ \A f \in Sets[r] : task[r].row.fields[f] = r
          /\ \A p \in task[r].after : Stored(p) =>
                \A f \in Sets[p] : Kept(p, task[r].row.fields[f])
    /\ At(r, "ok") \/ (At(r, "profile_write") /\ Kind[r] # "signup") =>
          task[r].row.created_at = profile.created_at \/ MadeBeside(r)
    /\ At(r, "refused") => profile # NoProfile /\
          \E q \in wrote : Overlap(r, q) /\ task[q].now = profile.created_at
                                         /\ task[q].now > task[r].now

One(r) == Place(r) /\ Past(r) /\ Carried(r)

Inv == TypeOK /\ Rows /\ ProfilelessByFaults /\ \A r \in Requests : One(r)

\* The step of one handler, seen by the others.
Moved(r) ==
    /\ \A s \in Requests \ {r} : task'[s] = task[s]
    /\ task[r].pc \notin Answers /\ ~At(r, "idle")' /\ now' = now
    /\ ~At(r, "idle") => task'[r].after = task[r].after /\ task'[r].now = task[r].now
    /\ At(r, "idle") => task'[r].after = Answered /\ task'[r].now = now
    /\ wrote \subseteq wrote' /\ wrote' \subseteq wrote \union {r}
    /\ wrote' # wrote => ~At(r, "idle")
    /\ forgejo => forgejo'
    /\ account => account'
    /\ profile # NoProfile => profile' # NoProfile /\ profile'.created_at = profile.created_at

LEMMA NewIsProfile == ASSUME NEW t \in Nat PROVE NewProfile(t) \in Profiles
  BY Zenon DEF NewProfile, Profiles, Values

LEMMA ProfileIsOne == ASSUME NEW row \in Profiles PROVE row # NoProfile
<1>1. row.fields \in [Fields -> Values] BY Zenon DEF Profiles
<1>2. DOMAIN row = {"fields", "created_at", "updated_at"} BY Zenon DEF Profiles
<1>3. DOMAIN NoProfile = {"fields"} BY Zenon DEF NoProfile
<1> QED BY <1>2, <1>3

LEMMA UpdateIsProfile ==
  ASSUME AccountsAssumption, NEW r \in Requests, task[r].now \in Nat, NEW row \in Profiles
  PROVE  /\ apply_profile_update(r, row) \in Profiles
         /\ apply_profile_update(r, row).created_at = row.created_at
         /\ apply_profile_update(r, row).updated_at = task[r].now
         /\ \A f \in Fields : apply_profile_update(r, row).fields[f] =
                                 IF f \in Sets[r] THEN r ELSE row.fields[f]
  BY Zenon DEF apply_profile_update, Profiles, Values

LEMMA MergedIsProfile ==
  ASSUME profile \in Profiles \union {NoProfile}, NEW row \in Profiles
  PROVE  /\ Merged(row) \in Profiles
         /\ Merged(row).fields = row.fields
         /\ Merged(row).updated_at = row.updated_at
         /\ Merged(row).created_at =
               IF profile = NoProfile THEN row.created_at ELSE profile.created_at
  BY Zenon DEF Merged, Profiles, NoProfile

(***************************************************************************)
(* What a step leaves alone.                                               *)
(***************************************************************************)
LEMMA OverlapStays ==
  ASSUME NEW r \in Requests, Moved(r), NEW p \in Requests, NEW q \in Requests, Overlap(p, q)
  PROVE  Overlap(p, q)'
  BY Zenon DEF Overlap, Moved, Begun, At

LEMMA KeptStays ==
  ASSUME Inv, NEW r \in Requests, Moved(r), NEW p \in Requests, NEW w, Kept(p, w)
  PROVE  Kept(p, w)'
<1>1. CASE w \in Requests /\ p \in task[w].after
  <2>1. ~At(w, "idle") BY <1>1, Zenon DEF Inv, One, Past
  <2>2. task'[w].after = task[w].after BY <1>1, <2>1, Zenon DEF Moved
  <2> QED BY <1>1, <2>2, Zenon DEF Kept
<1>2. ASSUME NEW q \in wrote, Overlap(p, q) PROVE Kept(p, w)'
  <2>1. q \in Requests /\ q \in wrote' BY Zenon DEF Inv, TypeOK, Moved
  <2> QED BY <1>2, <2>1, OverlapStays, Zenon DEF Kept
<1> QED BY <1>1, <1>2, Zenon DEF Kept

LEMMA MadeStays ==
  ASSUME Inv, NEW r \in Requests, Moved(r), NEW s \in Requests, profile # NoProfile,
         NEW q \in wrote, Overlap(s, q), task[q].now = profile.created_at
  PROVE  /\ q \in wrote' /\ Overlap(s, q)' /\ task'[q].now = task[q].now
         /\ task'[q].now = profile'.created_at
<1>1. q \in Requests BY Zenon DEF Inv, TypeOK
<1>2. Overlap(s, q)' BY <1>1, OverlapStays, Zenon
<1>3. task'[q].now = task[q].now BY <1>1, Zenon DEF Moved, Overlap, Begun, At
<1> QED BY <1>2, <1>3, Zenon DEF Moved

\* A request answered before the step is not the one that moves.
LEMMA StoredBefore ==
  ASSUME NEW r \in Requests, Moved(r), NEW p \in Requests, p # r, Stored(p)'
  PROVE  Stored(p)
  BY Zenon DEF Stored, Moved, At

LEMMA OtherPlace ==
  ASSUME Inv, NEW r \in Requests, Moved(r), NEW s \in Requests, s # r
  PROVE  Place(s)'
<1>1. Place(s) /\ task'[s] = task[s] BY Zenon DEF Inv, One, Moved
<1> QED BY <1>1 DEF Place, Moved, At

LEMMA OtherPast ==
  ASSUME Inv, NEW r \in Requests, Moved(r), NEW s \in Requests, s # r
  PROVE  Past(s)'
<1>1. Past(s) /\ task'[s] = task[s] BY Zenon DEF Inv, One, Moved
<1>2. task[s].after \subseteq Requests BY Zenon DEF Inv, TypeOK, Handlers
<1>3. ASSUME NEW p \in task[s].after PROVE p # r /\ task'[p] = task[p]
  <2>1. p \in Requests BY <1>2, Zenon
  <2>2. task[p].pc \in Answers BY <1>1, Zenon DEF Past
  <2> QED BY <2>1, <2>2, Zenon DEF Moved
<1>4. Fresh(s)' = Fresh(s) BY <1>1, Zenon DEF Fresh, At
<1> QED BY <1>1, <1>3, <1>4, Zenon DEF Past, Moved, At

LEMMA OtherCarried ==
  ASSUME Inv, NEW r \in Requests, Moved(r), NEW s \in Requests, s # r
  PROVE  Carried(s)'
<1>1. Carried(s) /\ Past(s) /\ Place(s) /\ task'[s] = task[s] BY Zenon DEF Inv, One, Moved
<1>2. task[s].after \subseteq Requests BY Zenon DEF Inv, TypeOK, Handlers
<1>3. ASSUME NEW p \in task[s].after, Stored(p)' PROVE Stored(p)
  <2>1. p \in Requests /\ p # r BY <1>1, <1>2, Zenon DEF Past, Moved
  <2> QED BY <1>3, <2>1, StoredBefore, Zenon
<1>4. ASSUME At(s, "profile_write"), Kind[s] # "signup"
      PROVE  /\ Kind[s] = "patch" /\ profile' # NoProfile
             /\ task'[s].row.updated_at = task'[s].now
             /\ \A f \in Sets[s] : task'[s].row.fields[f] = s
             /\ \A p \in task'[s].after : Stored(p)' =>
                   \A f \in Sets[p] : Kept(p, task[s].row.fields[f])'
  <2>1. ASSUME NEW p \in task[s].after, Stored(p)', NEW f \in Sets[p]
        PROVE  Kept(p, task[s].row.fields[f])'
    <3>1. PICK w : w = task[s].row.fields[f] OBVIOUS
    <3>2. Kept(p, w) BY <1>1, <1>3, <1>4, <2>1, <3>1, Zenon DEF Carried
    <3>3. Kept(p, w)' BY <1>2, <3>2, KeptStays, Zenon
    <3>4. w = task'[s].row.fields[f] BY <1>1, <3>1, Zenon
    <3> QED BY <3>3, <3>4, Zenon DEF Kept
  <2> QED BY <1>1, <1>4, <2>1, Zenon DEF Carried, Moved
<1>5. ASSUME At(s, "ok") \/ (At(s, "profile_write") /\ Kind[s] # "signup")
      PROVE  task'[s].row.created_at = profile'.created_at \/ MadeBeside(s)'
  <2>1. profile # NoProfile BY <1>1, <1>5, Zenon DEF Place, Carried, At
  <2>2. CASE task[s].row.created_at = profile.created_at BY <1>1, <2>1, <2>2, Zenon DEF Moved
  <2>3. CASE MadeBeside(s) BY <2>1, <2>3, MadeStays, Zenon DEF MadeBeside
  <2> QED BY <1>1, <1>5, <2>2, <2>3, Zenon DEF Carried
<1>6. ASSUME At(s, "refused")
      PROVE  profile' # NoProfile /\ \E q \in wrote' : Overlap(s, q)'
                /\ task'[q].now = profile'.created_at /\ task'[q].now > task'[s].now
  <2>1. PICK q \in wrote : Overlap(s, q) /\ task[q].now = profile.created_at
                            /\ task[q].now > task[s].now /\ profile # NoProfile
    BY <1>1, <1>6, Zenon DEF Carried
  <2>2. /\ q \in wrote' /\ Overlap(s, q)' /\ task'[q].now = task[q].now
        /\ task'[q].now = profile'.created_at
    BY <2>1, MadeStays, Zenon
  <2>3. profile' # NoProfile BY <2>1, Zenon DEF Moved
  <2> QED BY <1>1, <2>1, <2>2, <2>3, Zenon
<1>7. \A x : At(s, x)' = At(s, x) BY <1>1, Zenon DEF At
<1>8. /\ task'[s].pc \in {"profile_write", "ok"} => task'[s].row \in Profiles
      /\ At(s, "profile_write") /\ Kind[s] = "signup" => task'[s].row = NewProfile(task'[s].now)
  BY <1>1, Zenon DEF Carried
<1> QED BY <1>1, <1>4, <1>5, <1>6, <1>7, <1>8, Zenon DEF Carried

LEMMA Others ==
  ASSUME Inv, NEW r \in Requests, Moved(r), NEW s \in Requests, s # r
  PROVE  One(s)'
  BY OtherPlace, OtherPast, OtherCarried, Zenon DEF One

(***************************************************************************)
(* What a step does to the rows.                                           *)
(***************************************************************************)
\* A step of r that stores no profile, and does not answer a patch with "ok".
LEMMA QuietRows ==
  ASSUME Inv, NEW r \in Requests, Moved(r), profile' = profile, wrote' = wrote,
         ~(Kind[r] = "patch" /\ At(r, "ok")'), account' => forgejo'
  PROVE  Rows'
<1>1. profile' # NoProfile => account' /\ \E q \in wrote' : task'[q].now = profile'.created_at
  <2>1. SUFFICES ASSUME profile # NoProfile
                 PROVE  account' /\ \E q \in wrote : task'[q].now = profile.created_at
    OBVIOUS
  <2>2. PICK q \in wrote : task[q].now = profile.created_at BY <2>1, Zenon DEF Inv, Rows
  <2>3. q \in Requests /\ ~At(q, "idle") BY Zenon DEF Inv, TypeOK, One, Past
  <2>4. task'[q].now = task[q].now BY <2>3, Zenon DEF Moved
  <2> QED BY <2>1, <2>2, <2>4, Zenon DEF Inv, Rows, Moved
<1>2. ASSUME NEW p \in Requests, Stored(p)', NEW f \in Sets[p]
      PROVE  Kept(p, profile.fields[f])'
  <2>1. p # r BY <1>2, Zenon DEF Stored
  <2>2. Stored(p) BY <1>2, <2>1, StoredBefore, Zenon
  <2>3. PICK w : w = profile.fields[f] OBVIOUS
  <2>4. Kept(p, w) BY <2>2, <2>3, Zenon DEF Inv, Rows
  <2>5. Kept(p, w)' BY <2>4, KeptStays, Zenon
  <2> QED BY <2>3, <2>5, Zenon DEF Kept
<1> QED BY <1>1, <1>2, Zenon DEF Rows, Inv

\* A step of r that stores the row, made from the rows of the requests before r.
LEMMA WriteRows ==
  ASSUME Inv, NEW r \in Requests, Moved(r), ~At(r, "idle"), account, account', forgejo',
         NEW row \in Profiles, profile' = Merged(row), wrote' = wrote \union {r},
         profile = NoProfile => row.created_at = task[r].now,
         \A p \in task[r].after : Stored(p) => \A f \in Sets[p] : Kept(p, row.fields[f]),
         Kind[r] = "patch" /\ At(r, "ok")' => \A f \in Sets[r] : row.fields[f] = r
  PROVE  Rows'
<1>0. /\ profile' \in Profiles /\ profile' # NoProfile /\ profile'.fields = row.fields
      /\ profile'.created_at = IF profile = NoProfile THEN row.created_at ELSE profile.created_at
  BY MergedIsProfile, ProfileIsOne, Zenon DEF Inv, TypeOK
<1>1. \E q \in wrote' : task'[q].now = profile'.created_at
  <2>1. CASE profile = NoProfile BY <1>0, <2>1, Zenon DEF Moved
  <2>2. CASE profile # NoProfile
    <3>1. PICK q \in wrote : task[q].now = profile.created_at BY <2>2, Zenon DEF Inv, Rows
    <3>2. q \in Requests /\ ~At(q, "idle") BY Zenon DEF Inv, TypeOK, One, Past
    <3>3. task'[q].now = task[q].now BY <3>2, Zenon DEF Moved
    <3> QED BY <1>0, <2>2, <3>1, <3>3, Zenon
  <2> QED BY <2>1, <2>2, Zenon
<1>2. ASSUME NEW p \in Requests, Stored(p)', NEW f \in Sets[p]
      PROVE  Kept(p, profile.fields[f])'
  <2>1. PICK w : w = row.fields[f] OBVIOUS
  <2>2. SUFFICES Kept(p, w)' BY <1>0, <2>1, Zenon DEF Kept
  <2>3. CASE p = r BY <1>2, <2>1, <2>3, Zenon DEF Stored, Kept
  <2>4. CASE p # r /\ p \in task[r].after
    <3>1. Stored(p) BY <1>2, <2>4, StoredBefore, Zenon
    <3>2. Kept(p, w) BY <2>1, <2>4, <3>1, Zenon
    <3> QED BY <3>2, KeptStays, Zenon
  <2>5. CASE p # r /\ p \notin task[r].after
    <3>1. Stored(p) BY <1>2, <2>5, StoredBefore, Zenon
    <3>2. ~At(p, "idle") /\ r \notin task[p].after
      BY <3>1, Zenon DEF Stored, At, Moved, Inv, One, Past
    <3>3. Overlap(p, r) BY <2>5, <3>2, Zenon DEF Overlap, Begun
    <3>4. Overlap(p, r)' BY <3>3, OverlapStays, Zenon
    <3> QED BY <3>4, Zenon DEF Kept
  <2> QED BY <2>3, <2>4, <2>5, Zenon
<1> QED BY <1>0, <1>1, <1>2, Zenon DEF Rows

(***************************************************************************)
(* What the stepping handler itself knows.                                 *)
(***************************************************************************)
LEMMA NoneYet ==
  ASSUME Inv, profile = NoProfile
  PROVE  wrote = {} /\ \A p \in Requests : ~At(p, "ok")
  BY Zenon DEF Inv, Rows, One, Place, At

LEMMA PastStays ==
  ASSUME Inv, NEW r \in Requests, Moved(r), ~At(r, "idle"),
         Fresh(r)' => Fresh(r) \/ profile = NoProfile
  PROVE  Past(r)'
<1>1. /\ Past(r) /\ task'[r].after = task[r].after /\ task'[r].now = task[r].now
      /\ task[r].after \subseteq Requests
  BY Zenon DEF Inv, TypeOK, Handlers, One, Moved
<1>2. ASSUME NEW p \in task[r].after
      PROVE  p \in Requests /\ p # r /\ task[p].pc \in Answers /\ task'[p] = task[p]
  BY <1>1, Zenon DEF Past, Moved
<1>3. Fresh(r)' => \A p \in task[r].after : p \notin wrote' /\ ~At(p, "ok")'
  <2>1. SUFFICES ASSUME Fresh(r)', NEW p \in task[r].after
                 PROVE  p \notin wrote /\ ~At(p, "ok")
    BY <1>2, Zenon DEF Moved, At
  <2>2. CASE Fresh(r) BY <1>1, <2>2, Zenon DEF Past
  <2>3. CASE profile = NoProfile BY <1>2, <2>3, NoneYet, Zenon
  <2> QED BY <2>1, <2>2, <2>3, Zenon
<1>4. now' = now /\ ~At(r, "idle")' BY Zenon DEF Moved
<1> QED BY <1>1, <1>2, <1>3, <1>4, Zenon DEF Past

\* A row dated after r's clock was created by a request that overlaps r.
LEMMA CreatorBeside ==
  ASSUME Inv, NEW r \in Requests, ~At(r, "idle"), task[r].pc \notin Answers,
         profile # NoProfile, profile.created_at > task[r].now
  PROVE  \E q \in wrote : Overlap(r, q) /\ task[q].now = profile.created_at
                                       /\ task[q].now > task[r].now
<1>1. PICK q \in wrote : task[q].now = profile.created_at BY Zenon DEF Inv, Rows
<1>2. q \in Requests /\ One(q) /\ One(r) BY Zenon DEF Inv, TypeOK
<1>3. task[q].now \in Nat /\ task[r].now \in Nat
  BY <1>2, AccountsAssumption DEF Inv, TypeOK, Handlers
<1>4. ~At(q, "idle") /\ r \notin task[q].after BY <1>2, Zenon DEF One, Past
<1>5. ~(task[q].now <= task[r].now) BY <1>1, <1>3
<1>6. q # r /\ q \notin task[r].after BY <1>2, <1>3, <1>5 DEF One, Past
<1> QED BY <1>1, <1>4, <1>6, Zenon DEF Overlap, Begun

\* A handler that has found no profile overlaps whoever has created one since.
LEMMA FreshBeside ==
  ASSUME Inv, NEW r \in Requests, Fresh(r), profile # NoProfile
  PROVE  task[r].now = profile.created_at \/ MadeBeside(r)
<1>1. PICK q \in wrote : task[q].now = profile.created_at BY Zenon DEF Inv, Rows
<1>2. q \in Requests /\ One(q) /\ One(r) BY Zenon DEF Inv, TypeOK
<1>3. ~At(q, "idle") /\ ~At(r, "idle") /\ task[r].pc \notin Answers
  BY <1>2, Zenon DEF One, Past, Fresh, At, Answers
<1>4. r \notin task[q].after /\ q \notin task[r].after BY <1>2, <1>3, Zenon DEF One, Past
<1>5. CASE q = r BY <1>1, <1>5, Zenon
<1>6. CASE q # r BY <1>1, <1>3, <1>4, <1>6, Zenon DEF MadeBeside, Overlap, Begun
<1> QED BY <1>5, <1>6, Zenon

LEMMA ProfilelessStays ==
  ASSUME Inv, NEW r \in Requests, Moved(r), faults' = faults, account' = account,
         ~(Kind[r] = "signup" /\ At(r, "profile_write"))
  PROVE  ProfilelessByFaults'
<1>1. SUFFICES ASSUME account', profile' = NoProfile, ~(faults' > 0)
               PROVE  \E s \in Requests : Kind[s] = "signup" /\ At(s, "profile_write")'
  BY Zenon DEF ProfilelessByFaults
<1>2. account /\ profile = NoProfile /\ ~(faults > 0) BY <1>1, Zenon DEF Moved
<1>3. PICK s \in Requests : Kind[s] = "signup" /\ At(s, "profile_write")
  BY <1>2, Zenon DEF Inv, ProfilelessByFaults
<1>4. s # r BY <1>3, Zenon
<1> QED BY <1>3, <1>4, Zenon DEF Moved, At

\* The forms of a handler's step.
LEMMA CarryShape ==
  ASSUME Inv, NEW r \in Requests, NEW pc \in Awaits \union Answers,
         NEW row \in Profiles \union {NoProfile}, Carry(r, pc, row)
  PROVE  /\ task'[r].pc = pc /\ task'[r].row = row
         /\ task'[r].now = task[r].now /\ task'[r].after = task[r].after
         /\ \A s \in Requests \ {r} : task'[s] = task[s]
         /\ task' \in [Requests -> Handlers]
<1>1. task \in [Requests -> Handlers] BY Zenon DEF Inv, TypeOK
<1>2. task'= [task EXCEPT ![r] = [task[r] EXCEPT !.pc = pc, !.row = row]] BY Zenon DEF Carry
<1>3. [task[r] EXCEPT !.pc = pc, !.row = row] \in Handlers
  <2>1. PICK h \in Handlers : h = task[r] BY <1>1, Zenon
  <2>2. [h EXCEPT !.pc = pc] \in Handlers BY Zenon DEF Handlers
  <2>3. PICK g \in Handlers : g = [h EXCEPT !.pc = pc] BY <2>2, Zenon
  <2>4. [g EXCEPT !.row = row] \in Handlers BY Zenon DEF Handlers
  <2> QED BY <2>1, <2>3, <2>4, Zenon
<1> QED BY <1>1, <1>2, <1>3, Zenon DEF Handlers

LEMMA GotoShape ==
  ASSUME Inv, NEW r \in Requests, NEW pc \in Awaits \union Answers, Goto(r, pc)
  PROVE  /\ task'[r].pc = pc /\ task'[r].row = task[r].row
         /\ task'[r].now = task[r].now /\ task'[r].after = task[r].after
         /\ \A s \in Requests \ {r} : task'[s] = task[s]
         /\ task' \in [Requests -> Handlers]
<1>1. task \in [Requests -> Handlers] BY Zenon DEF Inv, TypeOK
<1>2. task'= [task EXCEPT ![r] = [task[r] EXCEPT !.pc = pc]] BY Zenon DEF Goto
<1>3. [task[r] EXCEPT !.pc = pc] \in Handlers BY <1>1 DEF Handlers
<1> QED BY <1>1, <1>2, <1>3, Zenon DEF Handlers

(***************************************************************************)
(* The invariant is preserved, one lemma per action.                       *)
(***************************************************************************)
LEMMA BeginKeeps ==
  ASSUME Inv, NEW r \in Requests, Begin(r)
  PROVE  Inv'
<1>1. task \in [Requests -> Handlers] /\ now \in 0..MaxTime /\ Answered \subseteq Requests
  BY Zenon DEF Inv, TypeOK, Answered
<1>2. PICK h : h = [pc |-> "account_read", now |-> now, row |-> NoProfile, after |-> Answered]
  BY Zenon
<1>3. h \in Handlers BY <1>1, <1>2, Zenon DEF Handlers, Awaits
<1>4. task' = [task EXCEPT ![r] = h] BY <1>2, Zenon DEF Begin
<1>5. /\ task' \in [Requests -> Handlers] /\ task'[r] = h
      /\ \A s \in Requests \ {r} : task'[s] = task[s]
  BY <1>1, <1>3, <1>4, Zenon
<1>6. task'[r].pc = "account_read" /\ task'[r].now = now /\ task'[r].after = Answered
  BY <1>2, <1>5
<1>7. TypeOK' BY <1>5, Zenon DEF Begin, Inv, TypeOK
<1>8. Moved(r) BY <1>5, <1>6, Zenon DEF Begin, Moved, At, Answers
<1>9. Rows' BY <1>6, <1>8, QuietRows, Zenon DEF Begin, At, Inv, Rows
<1>10. ProfilelessByFaults' BY <1>8, ProfilelessStays, Zenon DEF Begin, At
<1>11. One(r)'
  <2>1. Place(r)' BY <1>6, Zenon DEF Place, At
  <2>2. Past(r)'
    <3>1. now' = now /\ now \in Nat BY <1>1, AccountsAssumption DEF Begin
    <3>2. ASSUME NEW p \in Answered PROVE task'[p].pc \in Answers /\ task'[p].now <= now
      <4>1. p \in Requests /\ task[p].pc \in Answers BY Zenon DEF Answered
      <4>2. p # r BY <4>1, Zenon DEF Begin, At, Answers
      <4> QED BY <1>5, <4>1, <4>2, Zenon DEF Inv, One, Past
    <3> QED BY <1>6, <3>1, <3>2 DEF Past, Fresh, At
  <2>3. Carried(r)' BY <1>6, Zenon DEF Carried, At
  <2> QED BY <2>1, <2>2, <2>3, Zenon DEF One
<1> QED BY <1>7, <1>8, <1>9, <1>10, <1>11, Others, Zenon DEF Inv

LEMMA ReadAccountKeeps ==
  ASSUME Inv, NEW r \in Requests, ReadAccount(r)
  PROVE  Inv'
<1>1. PICK pc : pc = IF Kind[r] = "signup" THEN IF account THEN "existing" ELSE "user_read"
                     ELSE IF account THEN "profile_read" ELSE "bad_request"
  OBVIOUS
<1>2. Goto(r, pc) /\ At(r, "account_read") BY <1>1, Zenon DEF ReadAccount
<1>3. pc \in Awaits \union Answers BY <1>1, Zenon DEF Awaits, Answers
<1>4. /\ task'[r].pc = pc
      /\ task'[r].now = task[r].now /\ task'[r].after = task[r].after
      /\ \A s \in Requests \ {r} : task'[s] = task[s]
      /\ task' \in [Requests -> Handlers]
  BY <1>2, <1>3, GotoShape, Zenon
<1>5. TypeOK' BY <1>4, Zenon DEF ReadAccount, Inv, TypeOK
<1>6. Moved(r) BY <1>1, <1>2, <1>4, Zenon DEF ReadAccount, Moved, At, Answers
<1>7. Rows' BY <1>1, <1>4, <1>6, QuietRows, Zenon DEF ReadAccount, At, Inv, Rows
<1>8. ProfilelessByFaults' BY <1>2, <1>6, ProfilelessStays, Zenon DEF ReadAccount, At
<1>9. Place(r)' BY <1>1, <1>4, Zenon DEF Place, At, ReadAccount
<1>10. Fresh(r)' => profile = NoProfile BY <1>1, <1>4, Zenon DEF Fresh, At, Inv, Rows
<1>11. Past(r)' BY <1>2, <1>6, <1>10, PastStays, Zenon DEF At
<1>12. Carried(r)' BY <1>1, <1>4, Zenon DEF Carried, At
<1> QED BY <1>5, <1>6, <1>7, <1>8, <1>9, <1>11, <1>12, Others, Zenon DEF Inv, One

LEMMA GetUserKeeps ==
  ASSUME Inv, NEW r \in Requests, GetUser(r)
  PROVE  Inv'
<1>1. PICK pc : pc = IF forgejo THEN "account_write" ELSE "user_create" OBVIOUS
<1>2. Goto(r, pc) /\ At(r, "user_read") BY <1>1, Zenon DEF GetUser
<1>3. pc \in Awaits \union Answers BY <1>1, Zenon DEF Awaits, Answers
<1>4. /\ task'[r].pc = pc
      /\ task'[r].now = task[r].now /\ task'[r].after = task[r].after
      /\ \A s \in Requests \ {r} : task'[s] = task[s]
      /\ task' \in [Requests -> Handlers]
  BY <1>2, <1>3, GotoShape, Zenon
<1>5. TypeOK' BY <1>4, Zenon DEF GetUser, Inv, TypeOK
<1>6. Moved(r) BY <1>1, <1>2, <1>4, Zenon DEF GetUser, Moved, At, Answers
<1>7. Rows' BY <1>1, <1>4, <1>6, QuietRows, Zenon DEF GetUser, At, Inv, Rows
<1>8. ProfilelessByFaults' BY <1>2, <1>6, ProfilelessStays, Zenon DEF GetUser, At
<1>9. Place(r)' BY <1>1, <1>2, <1>4, Zenon DEF Place, At, GetUser, Inv, One
<1>10. Fresh(r) BY <1>2, Zenon DEF Fresh, At
<1>11. Past(r)' BY <1>2, <1>6, <1>10, PastStays, Zenon DEF At
<1>12. Carried(r)' BY <1>1, <1>4, Zenon DEF Carried, At
<1> QED BY <1>5, <1>6, <1>7, <1>8, <1>9, <1>11, <1>12, Others, Zenon DEF Inv, One

LEMMA CreateUserKeeps ==
  ASSUME Inv, NEW r \in Requests, CreateUser(r)
  PROVE  Inv'
<1>1. PICK pc : pc = IF forgejo THEN "error" ELSE "account_write" OBVIOUS
<1>2. Goto(r, pc) /\ At(r, "user_create") BY <1>1, Zenon DEF CreateUser
<1>3. pc \in Awaits \union Answers BY <1>1, Zenon DEF Awaits, Answers
<1>4. /\ task'[r].pc = pc
      /\ task'[r].now = task[r].now /\ task'[r].after = task[r].after
      /\ \A s \in Requests \ {r} : task'[s] = task[s]
      /\ task' \in [Requests -> Handlers]
  BY <1>2, <1>3, GotoShape, Zenon
<1>5. TypeOK' BY <1>4, Zenon DEF CreateUser, Inv, TypeOK
<1>6. Moved(r) BY <1>1, <1>2, <1>4, Zenon DEF CreateUser, Moved, At, Answers
<1>7. Rows' BY <1>1, <1>4, <1>6, QuietRows, Zenon DEF CreateUser, At
<1>8. ProfilelessByFaults' BY <1>2, <1>6, ProfilelessStays, Zenon DEF CreateUser, At
<1>9. Place(r)' BY <1>1, <1>2, <1>4, Zenon DEF Place, At, CreateUser, Inv, One
<1>10. Fresh(r) BY <1>2, Zenon DEF Fresh, At
<1>11. Past(r)' BY <1>2, <1>6, <1>10, PastStays, Zenon DEF At
<1>12. Carried(r)' BY <1>1, <1>4, Zenon DEF Carried, At
<1> QED BY <1>5, <1>6, <1>7, <1>8, <1>9, <1>11, <1>12, Others, Zenon DEF Inv, One

LEMMA UpsertAccountKeeps ==
  ASSUME Inv, NEW r \in Requests, UpsertAccount(r)
  PROVE  Inv'
<1>1. task[r].now \in Nat BY AccountsAssumption DEF Inv, TypeOK, Handlers
<1>2. PICK row \in Profiles : row = NewProfile(task[r].now) BY <1>1, NewIsProfile, Zenon
<1>3. Carry(r, "profile_write", row) /\ At(r, "account_write") BY <1>2, Zenon DEF UpsertAccount
<1>4. /\ task'[r].pc = "profile_write" /\ task'[r].row = row
      /\ task'[r].now = task[r].now /\ task'[r].after = task[r].after
      /\ \A s \in Requests \ {r} : task'[s] = task[s]
      /\ task' \in [Requests -> Handlers]
  BY <1>3, CarryShape, Zenon DEF Awaits
<1>5. TypeOK' BY <1>4, Zenon DEF UpsertAccount, Inv, TypeOK
<1>6. Moved(r) BY <1>3, <1>4, Zenon DEF UpsertAccount, Moved, At, Answers
<1>7. Kind[r] = "signup" /\ forgejo BY <1>3, Zenon DEF Inv, One, Place, At
<1>8. Rows' BY <1>4, <1>6, <1>7, QuietRows, Zenon DEF UpsertAccount, At
<1>9. ProfilelessByFaults' BY <1>4, <1>7, Zenon DEF ProfilelessByFaults, At
<1>10. Place(r)' BY <1>4, Zenon DEF Place, At, UpsertAccount
<1>11. Fresh(r) BY <1>3, Zenon DEF Fresh, At
<1>12. Past(r)' BY <1>3, <1>6, <1>11, PastStays, Zenon DEF At
<1>13. row = NewProfile(task'[r].now) BY <1>2, <1>4, Zenon
<1>14. Carried(r)' BY <1>4, <1>7, <1>13, Zenon DEF Carried, At
<1> QED BY <1>5, <1>6, <1>8, <1>9, <1>10, <1>12, <1>14, Others, Zenon DEF Inv, One

LEMMA ReadProfileKeeps ==
  ASSUME Inv, NEW r \in Requests, ReadProfile(r)
  PROVE  Inv'
<1>1. /\ At(r, "profile_read") /\ account /\ Kind[r] \in {"get", "patch"}
      /\ task[r].now \in Nat /\ Kind[r] # "signup"
  BY AccountsAssumption DEF ReadProfile, Inv, TypeOK, Handlers, One, Place, At
<1>2. CASE profile = NoProfile
  <2>1. Goto(r, "repair") BY <1>2, Zenon DEF ReadProfile
  <2>2. /\ task'[r].pc = "repair"
        /\ task'[r].now = task[r].now /\ task'[r].after = task[r].after
        /\ \A s \in Requests \ {r} : task'[s] = task[s]
        /\ task' \in [Requests -> Handlers]
    BY <2>1, GotoShape, Zenon DEF Awaits
  <2>3. TypeOK' BY <2>2, Zenon DEF ReadProfile, Inv, TypeOK
  <2>4. Moved(r) BY <1>1, <2>2, Zenon DEF ReadProfile, Moved, At, Answers
  <2>5. Rows' BY <2>2, <2>4, QuietRows, Zenon DEF ReadProfile, At, Inv, Rows
  <2>6. ProfilelessByFaults' BY <1>1, <2>4, ProfilelessStays, Zenon DEF ReadProfile
  <2>7. Place(r)' BY <1>1, <2>2, Zenon DEF Place, At, ReadProfile
  <2>8. Past(r)' BY <1>1, <1>2, <2>4, PastStays, Zenon DEF At
  <2>9. Carried(r)' BY <2>2, Zenon DEF Carried, At
  <2> QED BY <2>3, <2>4, <2>5, <2>6, <2>7, <2>8, <2>9, Others, Zenon DEF Inv, One
<1>3. CASE profile # NoProfile
  <2>0. profile \in Profiles BY <1>3, Zenon DEF Inv, TypeOK
  <2>1. PICK pc, row : pc = pc_after_ensure(r, profile) /\ row = row_after_ensure(r, profile)
    OBVIOUS
  <2>2. Carry(r, pc, row) BY <1>3, <2>1, Zenon DEF ReadProfile
  <2>3. /\ row \in Profiles /\ row.created_at = profile.created_at
        /\ Kind[r] = "patch" =>
              /\ row.updated_at = task[r].now
              /\ \A f \in Fields : row.fields[f] = IF f \in Sets[r] THEN r ELSE profile.fields[f]
    BY <1>1, <2>0, <2>1, UpdateIsProfile, AccountsAssumption DEF row_after_ensure
  <2>4. /\ Kind[r] = "get" => pc = "ok"
        /\ Kind[r] = "patch" => pc \in {"profile_write", "refused"}
    BY <2>1, Zenon DEF pc_after_ensure
  <2>5. pc \in Awaits \union Answers /\ pc # "idle" BY <1>1, <2>4, Zenon DEF Awaits, Answers
  <2>6. /\ task'[r].pc = pc /\ task'[r].row = row
        /\ task'[r].now = task[r].now /\ task'[r].after = task[r].after
        /\ \A s \in Requests \ {r} : task'[s] = task[s]
        /\ task' \in [Requests -> Handlers]
    BY <2>2, <2>3, <2>5, CarryShape, Zenon
  <2>7. TypeOK' BY <2>6, Zenon DEF ReadProfile, Inv, TypeOK
  <2>8. Moved(r) BY <1>1, <2>5, <2>6, Zenon DEF ReadProfile, Moved, At, Answers
  <2>9. Rows' BY <2>4, <2>6, <2>8, QuietRows, Zenon DEF ReadProfile, At, Inv, Rows
  <2>10. ProfilelessByFaults' BY <1>1, <2>8, ProfilelessStays, Zenon DEF ReadProfile
  <2>11. profile' = profile /\ wrote' = wrote /\ account' = account BY Zenon DEF ReadProfile
  <2>12. Place(r)' BY <1>1, <1>3, <2>4, <2>6, <2>11, Zenon DEF Place, At
  <2>13. ~Fresh(r)' BY <1>1, <2>4, <2>6, Zenon DEF Fresh, At
  <2>14. Past(r)' BY <1>1, <2>8, <2>13, PastStays, Zenon DEF At
  <2>15. ASSUME pc = "profile_write"
         PROVE  /\ Kind[r] = "patch" /\ row.updated_at = task'[r].now
                /\ \A f \in Sets[r] : row.fields[f] = r
                /\ \A p \in task'[r].after : Stored(p)' => \A f \in Sets[p] : Kept(p, row.fields[f])'
    <3>1. Kind[r] = "patch" /\ Sets[r] \subseteq Fields
      BY <1>1, <2>4, <2>15, AccountsAssumption, Zenon
    <3>2. ASSUME NEW p \in task[r].after, Stored(p)', NEW f \in Sets[p]
          PROVE  Kept(p, row.fields[f])'
      <4>1. p \in Requests /\ p # r /\ f \in Fields
        BY <1>1, AccountsAssumption, Zenon DEF Inv, TypeOK, Handlers, One, Past, At, Answers
      <4>2. Stored(p) BY <2>8, <3>2, <4>1, StoredBefore, Zenon
      <4>3. CASE f \in Sets[r] BY <2>3, <2>6, <3>1, <4>1, <4>3, Zenon DEF Kept
      <4>4. CASE f \notin Sets[r]
        <5>1. PICK w : w = row.fields[f] OBVIOUS
        <5>2. w = profile.fields[f] BY <2>3, <3>1, <4>1, <4>4, <5>1, Zenon
        <5>3. Kept(p, w) BY <4>1, <4>2, <5>2, Zenon DEF Inv, Rows
        <5>4. Kept(p, w)' BY <2>8, <4>1, <5>3, KeptStays, Zenon
        <5> QED BY <5>1, <5>4, Zenon
      <4> QED BY <4>3, <4>4, Zenon
    <3> QED BY <2>3, <2>6, <3>1, <3>2, Zenon
  <2>16. ASSUME pc = "refused"
         PROVE  \E q \in wrote' : Overlap(r, q)' /\ task'[q].now = profile'.created_at
                                                /\ task'[q].now > task'[r].now
    <3>1. Kind[r] = "patch" BY <1>1, <2>4, <2>16, Zenon
    <3>2. row.updated_at = task[r].now /\ row.created_at = profile.created_at /\ ~valid(row)
      BY <2>1, <2>3, <2>16, <3>1, Zenon DEF pc_after_ensure, row_after_ensure
    <3>3. profile.created_at \in Nat BY <2>0, Zenon DEF Profiles
    <3>4. profile.created_at > task[r].now BY <1>1, <3>2, <3>3 DEF valid
    <3>5. PICK q \in wrote : Overlap(r, q) /\ task[q].now = profile.created_at
                            /\ task[q].now > task[r].now
      BY <1>1, <1>3, <3>4, CreatorBeside, Zenon DEF At, Answers
    <3>6. /\ q \in wrote' /\ Overlap(r, q)' /\ task'[q].now = task[q].now
          /\ task'[q].now = profile'.created_at
      BY <1>3, <2>8, <3>5, MadeStays, Zenon
    <3> QED BY <2>6, <3>5, <3>6, Zenon
  <2>17. Carried(r)' BY <1>1, <1>3, <2>3, <2>4, <2>6, <2>11, <2>15, <2>16, Zenon DEF Carried, At
  <2> QED BY <2>7, <2>8, <2>9, <2>10, <2>12, <2>14, <2>17, Others, Zenon DEF Inv, One
<1> QED BY <1>2, <1>3, Zenon

\* An upsert the table refuses: the row was created by a request that overlaps r.
LEMMA RefusedKeeps ==
  ASSUME Inv, NEW r \in Requests, task[r].pc \in {"repair", "profile_write"},
         NEW row \in Profiles, row.updated_at = task[r].now,
         row.created_at = task[r].now \/ profile # NoProfile,
         ~valid(Merged(row)), Goto(r, "refused"),
         UNCHANGED <<profile, wrote, now, forgejo, account, faults>>
  PROVE  Inv'
<1>1. task[r].now \in Nat BY AccountsAssumption DEF Inv, TypeOK, Handlers
<1>2. profile # NoProfile /\ profile.created_at > task[r].now
  <2>1. CASE profile = NoProfile BY <1>1, <2>1 DEF Merged, valid
  <2>2. CASE profile # NoProfile
    <3>1. profile \in Profiles BY <2>2, Zenon DEF Inv, TypeOK
    <3>2. profile.created_at \in Nat BY <3>1, Zenon DEF Profiles
    <3>3. Merged(row).updated_at = task[r].now /\ Merged(row).created_at = profile.created_at
      BY <2>2, <3>1, MergedIsProfile, Zenon
    <3> QED BY <1>1, <2>2, <3>2, <3>3 DEF valid
  <2> QED BY <2>1, <2>2, Zenon
<1>3. /\ task'[r].pc = "refused"
      /\ task'[r].now = task[r].now /\ task'[r].after = task[r].after
      /\ \A s \in Requests \ {r} : task'[s] = task[s]
      /\ task' \in [Requests -> Handlers]
  BY GotoShape, Zenon DEF Answers
<1>4. TypeOK' BY <1>3, Zenon DEF Inv, TypeOK
<1>5. Moved(r) BY <1>3, Zenon DEF Moved, At, Answers
<1>6. Rows' BY <1>3, <1>5, QuietRows, Zenon DEF At, Inv, Rows
<1>7. ProfilelessByFaults' BY <1>2, Zenon DEF ProfilelessByFaults
<1>8. Place(r)' BY <1>3, Zenon DEF Place, At
<1>9. Past(r)' BY <1>3, <1>5, PastStays, Zenon DEF Fresh, At
<1>10. PICK q \in wrote : Overlap(r, q) /\ task[q].now = profile.created_at
                          /\ task[q].now > task[r].now
  BY <1>2, CreatorBeside, Zenon DEF At, Answers
<1>11. /\ q \in wrote' /\ Overlap(r, q)' /\ task'[q].now = task[q].now
       /\ task'[q].now = profile'.created_at
  BY <1>2, <1>5, <1>10, MadeStays, Zenon
<1>12. Carried(r)' BY <1>2, <1>3, <1>10, <1>11, Zenon DEF Carried, At
<1> QED BY <1>4, <1>5, <1>6, <1>7, <1>8, <1>9, <1>12, Others, Zenon DEF Inv, One

LEMMA RepairKeeps ==
  ASSUME Inv, NEW r \in Requests, Repair(r)
  PROVE  Inv'
<1>1. /\ At(r, "repair") /\ account /\ forgejo /\ Kind[r] \in {"get", "patch"}
      /\ task[r].now \in Nat /\ Kind[r] # "signup"
  BY AccountsAssumption DEF Repair, Inv, TypeOK, Handlers, One, Place, At, Rows
<1>2. Fresh(r) BY <1>1, Zenon DEF Fresh, At
<1>3. PICK row \in Profiles : row = NewProfile(task[r].now) BY <1>1, NewIsProfile, Zenon
<1>4. row.created_at = task[r].now /\ row.updated_at = task[r].now BY <1>3, Zenon DEF NewProfile
<1>5. PICK pc, kept : pc = pc_after_ensure(r, row) /\ kept = row_after_ensure(r, row) OBVIOUS
<1>6. Upsert(r, row, pc, kept) BY <1>3, <1>5, Zenon DEF Repair
<1>7. CASE ~valid(Merged(row))
  <2>1. Goto(r, "refused") /\ UNCHANGED <<profile, wrote>> BY <1>6, <1>7, Zenon DEF Upsert
  <2>2. task[r].pc \in {"repair", "profile_write"} BY <1>1, Zenon DEF At
  <2> QED BY <1>4, <1>7, <2>1, <2>2, RefusedKeeps, Zenon DEF Repair
<1>8. CASE valid(Merged(row))
  <2>1. profile' = Merged(row) /\ wrote' = wrote \union {r} /\ Carry(r, pc, kept)
    BY <1>6, <1>8, Zenon DEF Upsert
  <2>2. /\ kept \in Profiles /\ kept.created_at = task[r].now
        /\ Kind[r] = "patch" => /\ kept.updated_at = task[r].now
                               /\ \A f \in Sets[r] : kept.fields[f] = r
    <3>1. CASE Kind[r] = "get" BY <1>4, <1>5, <3>1, Zenon DEF row_after_ensure
    <3>2. CASE Kind[r] = "patch"
      <4>1. kept = apply_profile_update(r, row) BY <1>5, <3>2, Zenon DEF row_after_ensure
      <4>2. Sets[r] \subseteq Fields BY AccountsAssumption, Zenon
      <4> QED BY <1>1, <1>4, <4>1, <4>2, UpdateIsProfile, AccountsAssumption, Zenon
    <3> QED BY <1>1, <3>1, <3>2, Zenon
  <2>3. /\ Kind[r] = "get" => pc = "ok"
        /\ Kind[r] = "patch" => pc = "profile_write" \/ pc = "refused"
    BY <1>5, Zenon DEF pc_after_ensure
  <2>4. Kind[r] = "patch" => pc = "profile_write"
    <3>1. SUFFICES ASSUME Kind[r] = "patch" PROVE valid(kept)
      BY <1>5, Zenon DEF pc_after_ensure, row_after_ensure
    <3> QED BY <1>1, <2>2, <3>1 DEF valid
  <2>5. pc \in Awaits \union Answers /\ pc # "idle" BY <1>1, <2>3, Zenon DEF Awaits, Answers
  <2>6. /\ task'[r].pc = pc /\ task'[r].row = kept
        /\ task'[r].now = task[r].now /\ task'[r].after = task[r].after
        /\ \A s \in Requests \ {r} : task'[s] = task[s]
        /\ task' \in [Requests -> Handlers]
    BY <2>1, <2>2, <2>5, CarryShape, Zenon
  <2>7. /\ profile' \in Profiles /\ profile' # NoProfile
        /\ profile'.created_at = IF profile = NoProfile THEN task[r].now ELSE profile.created_at
    BY <1>4, <2>1, MergedIsProfile, ProfileIsOne, Zenon DEF Inv, TypeOK
  <2>8. TypeOK' BY <2>1, <2>6, <2>7, Zenon DEF Repair, Inv, TypeOK
  <2>9. Moved(r) BY <1>1, <2>1, <2>5, <2>6, <2>7, Zenon DEF Repair, Moved, At, Answers
  <2>10. \A p \in task[r].after : ~Stored(p) BY <1>2, Zenon DEF Inv, One, Past, Stored
  <2>11. Rows'
    <3>1. ~(Kind[r] = "patch" /\ At(r, "ok")') BY <2>4, <2>6, Zenon DEF At
    <3>2. account' /\ forgejo' /\ ~At(r, "idle") BY <1>1, Zenon DEF Repair, At
    <3> QED BY <1>1, <1>4, <2>1, <2>9, <2>10, <3>1, <3>2, WriteRows, Zenon
  <2>12. ProfilelessByFaults' BY <2>7, Zenon DEF ProfilelessByFaults
  <2>13. Place(r)' BY <1>1, <2>3, <2>4, <2>6, <2>7, Zenon DEF Place, At, Repair
  <2>14. Past(r)' BY <1>1, <1>2, <2>9, PastStays, Zenon DEF At
  <2>15. kept.created_at = profile'.created_at \/ MadeBeside(r)'
    <3>1. CASE profile = NoProfile BY <2>2, <2>7, <3>1, Zenon
    <3>2. CASE profile # NoProfile /\ task[r].now = profile.created_at BY <2>2, <2>7, <3>2, Zenon
    <3>3. CASE profile # NoProfile /\ MadeBeside(r) BY <2>9, <3>3, MadeStays, Zenon DEF MadeBeside
    <3> QED BY <1>2, <3>1, <3>2, <3>3, FreshBeside, Zenon
  <2>16. ASSUME NEW p \in task[r].after PROVE ~Stored(p)'
    <3>1. p \in Requests /\ p # r BY <1>1, Zenon DEF Inv, TypeOK, Handlers, One, Past, At, Answers
    <3> QED BY <2>9, <2>10, <3>1, StoredBefore, Zenon
  <2>17. Carried(r)' BY <1>1, <2>2, <2>3, <2>4, <2>6, <2>7, <2>15, <2>16, Zenon DEF Carried, At
  <2> QED BY <2>8, <2>9, <2>11, <2>12, <2>13, <2>14, <2>17, Others, Zenon DEF Inv, One
<1> QED BY <1>7, <1>8, Zenon

LEMMA WriteProfileKeeps ==
  ASSUME Inv, NEW r \in Requests, WriteProfile(r)
  PROVE  Inv'
<1>1. /\ At(r, "profile_write") /\ account /\ forgejo /\ task[r].now \in Nat
      /\ Carried(r) /\ task[r].pc = "profile_write"
  BY AccountsAssumption DEF WriteProfile, Inv, TypeOK, Handlers, One, Place, At, Rows
<1>2. PICK row \in Profiles : row = task[r].row BY <1>1, Zenon DEF Carried
<1>3. PICK pc \in {"created", "ok"} : pc = IF Kind[r] = "signup" THEN "created" ELSE "ok"
  OBVIOUS
<1>4. Upsert(r, row, pc, row) BY <1>2, <1>3, Zenon DEF WriteProfile
<1>5. /\ row.updated_at = task[r].now
      /\ Kind[r] = "signup" => row.created_at = task[r].now
      /\ Kind[r] # "signup" => Kind[r] = "patch" /\ profile # NoProfile
  BY <1>1, <1>2 DEF Carried, NewProfile
<1>6. CASE ~valid(Merged(row))
  <2>1. Goto(r, "refused") /\ UNCHANGED <<profile, wrote>> BY <1>4, <1>6, Zenon DEF Upsert
  <2> QED BY <1>1, <1>5, <1>6, <2>1, RefusedKeeps, Zenon DEF WriteProfile
<1>7. CASE valid(Merged(row))
  <2>1. profile' = Merged(row) /\ wrote' = wrote \union {r} /\ Carry(r, pc, row)
    BY <1>4, <1>7, Zenon DEF Upsert
  <2>2. /\ task'[r].pc = pc /\ task'[r].row = row
        /\ task'[r].now = task[r].now /\ task'[r].after = task[r].after
        /\ \A s \in Requests \ {r} : task'[s] = task[s]
        /\ task' \in [Requests -> Handlers]
    BY <2>1, CarryShape, Zenon DEF Answers
  <2>3. /\ profile' \in Profiles /\ profile' # NoProfile
        /\ profile'.created_at = IF profile = NoProfile THEN row.created_at ELSE profile.created_at
    BY <2>1, MergedIsProfile, ProfileIsOne, Zenon DEF Inv, TypeOK
  <2>4. TypeOK' BY <2>1, <2>2, <2>3, Zenon DEF WriteProfile, Inv, TypeOK
  <2>5. Moved(r) BY <1>1, <2>1, <2>2, <2>3, Zenon DEF WriteProfile, Moved, At, Answers
  <2>6. \A p \in task[r].after : Stored(p) => \A f \in Sets[p] : Kept(p, row.fields[f])
    <3>1. CASE Kind[r] = "signup" BY <1>1, <3>1, Zenon DEF Fresh, Inv, One, Past, Stored
    <3>2. CASE Kind[r] # "signup" BY <1>1, <1>2, <3>2, Zenon DEF Carried
    <3> QED BY <3>1, <3>2, Zenon
  <2>7. Rows'
    <3>1. Kind[r] = "patch" => \A f \in Sets[r] : row.fields[f] = r BY <1>1, <1>2, Zenon DEF Carried
    <3>2. account' /\ forgejo' /\ ~At(r, "idle") BY <1>1, Zenon DEF WriteProfile, At
    <3> QED BY <1>1, <1>5, <2>1, <2>5, <2>6, <3>1, <3>2, WriteRows, Zenon
  <2>8. ProfilelessByFaults' BY <2>3, Zenon DEF ProfilelessByFaults
  <2>9. Place(r)' BY <1>3, <2>2, <2>3, Zenon DEF Place, At
  <2>10. Past(r)' BY <1>1, <2>2, <2>5, PastStays, Zenon DEF Fresh, At
  <2>11. ASSUME pc = "ok" PROVE row.created_at = profile'.created_at \/ MadeBeside(r)'
    <3>1. Kind[r] # "signup" /\ profile # NoProfile BY <1>3, <1>5, <2>11, Zenon
    <3>2. CASE row.created_at = profile.created_at BY <2>3, <3>1, <3>2, Zenon
    <3>3. CASE MadeBeside(r) BY <2>5, <3>1, <3>3, MadeStays, Zenon DEF MadeBeside
    <3> QED BY <1>1, <1>2, <3>1, <3>2, <3>3, Zenon DEF Carried
  <2>12. Carried(r)' BY <1>3, <2>2, <2>3, <2>11, Zenon DEF Carried, At
  <2> QED BY <2>4, <2>5, <2>7, <2>8, <2>9, <2>10, <2>12, Others, Zenon DEF Inv, One
<1> QED BY <1>6, <1>7, Zenon

LEMMA AbandonKeeps ==
  ASSUME Inv, NEW r \in Requests, Abandon(r)
  PROVE  Inv'
<1>1. task[r].pc \in Awaits /\ Goto(r, "error") BY Zenon DEF Abandon
<1>2. /\ task'[r].pc = "error"
      /\ task'[r].now = task[r].now /\ task'[r].after = task[r].after
      /\ \A s \in Requests \ {r} : task'[s] = task[s]
      /\ task' \in [Requests -> Handlers]
  BY <1>1, GotoShape, Zenon DEF Answers
<1>3. faults' \in 0..MaxFaults /\ faults' > 0
  BY AccountsAssumption DEF Abandon, Inv, TypeOK
<1>4. TypeOK' BY <1>2, <1>3, Zenon DEF Abandon, Inv, TypeOK
<1>5. Moved(r) BY <1>1, <1>2, Zenon DEF Abandon, Moved, At, Answers, Awaits
<1>6. Rows' BY <1>2, <1>5, QuietRows, Zenon DEF Abandon, At, Inv, Rows
<1>7. ProfilelessByFaults' BY <1>3, Zenon DEF ProfilelessByFaults
<1>8. Place(r)' BY <1>2, Zenon DEF Place, At
<1>9. Past(r)' BY <1>1, <1>2, <1>5, PastStays, Zenon DEF Fresh, At, Awaits
<1>10. Carried(r)' BY <1>2, Zenon DEF Carried, At
<1> QED BY <1>4, <1>5, <1>6, <1>7, <1>8, <1>9, <1>10, Others, Zenon DEF Inv, One

LEMMA TickKeeps ==
  ASSUME Inv, Tick
  PROVE  Inv'
<1>1. UNCHANGED <<forgejo, account, profile, task, faults, wrote>> BY Zenon DEF Tick
<1>2. now \in Nat /\ now' = now + 1 /\ now' \in 0..MaxTime
  BY AccountsAssumption DEF Tick, Inv, TypeOK
<1>3. TypeOK' BY <1>1, <1>2, Zenon DEF Inv, TypeOK
<1>4. Rows' /\ ProfilelessByFaults'
  BY <1>1, Zenon DEF Inv, Rows, ProfilelessByFaults, Stored, Kept, Overlap, Begun, At
<1>5. ASSUME NEW r \in Requests PROVE One(r)'
  <2>1. One(r) BY Zenon DEF Inv
  <2>2. Place(r)' BY <1>1, <2>1, Zenon DEF One, Place, At
  <2>3. Carried(r)'
    BY <1>1, <2>1, Zenon DEF One, Carried, MadeBeside, Stored, Kept, Overlap, Begun, At
  <2>4. task[r].now \in Nat BY AccountsAssumption DEF Inv, TypeOK, Handlers
  <2>5. task[r].now <= now' BY <1>2, <2>1, <2>4 DEF One, Past
  <2>6. Past(r)' BY <1>1, <2>1, <2>5, Zenon DEF One, Past, Fresh, At
  <2> QED BY <2>2, <2>3, <2>6, Zenon DEF One
<1> QED BY <1>3, <1>4, <1>5, Zenon DEF Inv

LEMMA InitInv == Init => Inv
<1> SUFFICES ASSUME Init PROVE Inv OBVIOUS
<1>1. \A r \in Requests : /\ task[r].pc = "idle" /\ task[r].now = 0
                           /\ task[r].row = NoProfile /\ task[r].after = {}
  BY Zenon DEF Init
<1>2. task \in [Requests -> Handlers] BY AccountsAssumption DEF Init, Handlers
<1>3. TypeOK
  <2>1. now = 0 /\ faults = 0 /\ forgejo = FALSE /\ account = FALSE /\ profile = NoProfile /\ wrote = {}
    BY Zenon DEF Init
  <2>2. 0 \in 0..MaxTime /\ 0 \in 0..MaxFaults BY AccountsAssumption
  <2> QED BY <1>2, <2>1, <2>2, Zenon DEF TypeOK
<1>4. Rows /\ ProfilelessByFaults BY <1>1, Zenon DEF Init, Rows, Stored, ProfilelessByFaults
<1>5. \A r \in Requests : One(r)
  <2> SUFFICES ASSUME NEW r \in Requests PROVE One(r) OBVIOUS
  <2>1. task[r].pc = "idle" /\ task[r].now = 0 /\ task[r].after = {} BY <1>1, Zenon
  <2>2. Place(r) BY <2>1, Zenon DEF Place, At
  <2>3. 0 <= now BY DEF Init
  <2>4. wrote = {} BY Zenon DEF Init
  <2>5. Past(r) BY <2>1, <2>3, <2>4, Zenon DEF Past, Fresh, At
  <2>6. Carried(r) BY <2>1, Zenon DEF Carried, At
  <2> QED BY <2>2, <2>5, <2>6, Zenon DEF One
<1> QED BY <1>3, <1>4, <1>5, Zenon DEF Inv

LEMMA NextInv == Inv /\ [Next]_vars => Inv'
<1> SUFFICES ASSUME Inv, [Next]_vars PROVE Inv' OBVIOUS
<1>1. ASSUME NEW r \in Requests, Step(r) PROVE Inv'
  BY <1>1, ReadAccountKeeps, GetUserKeeps, CreateUserKeeps, UpsertAccountKeeps, Zenon,
     ReadProfileKeeps, RepairKeeps, WriteProfileKeeps DEF Step
<1>2. CASE UNCHANGED vars
  <2>1. UNCHANGED <<now, forgejo, account, profile, task, faults, wrote>> BY <1>2, Zenon DEF vars
  <2>2. TypeOK' BY <2>1, Zenon DEF Inv, TypeOK
  <2>3. Rows' BY <2>1, Zenon DEF Inv, Rows, Stored, Kept, Overlap, Begun, At
  <2>4. ProfilelessByFaults' BY <2>1, Zenon DEF Inv, ProfilelessByFaults, At
  <2>5. ASSUME NEW r \in Requests PROVE One(r)'
    <3>1. One(r) BY Zenon DEF Inv
    <3>2. Place(r)' BY <2>1, <3>1, Zenon DEF One, Place, At
    <3>3. Past(r)' BY <2>1, <3>1, Zenon DEF One, Past, Fresh, At
    <3>4. Carried(r)'
      BY <2>1, <3>1, Zenon DEF One, Carried, MadeBeside, Stored, Kept, Overlap, Begun, At
    <3> QED BY <3>2, <3>3, <3>4, Zenon DEF One
  <2> QED BY <2>2, <2>3, <2>4, <2>5, Zenon DEF Inv
<1> QED BY <1>1, <1>2, BeginKeeps, AbandonKeeps, TickKeeps, Zenon DEF Next

LEMMA Invariance == Spec => []Inv
  BY InitInv, NextInv, PTL DEF Spec

(***************************************************************************)
(* Theorems                                                                *)
(***************************************************************************)
\* However the handlers interleave and whatever fails, a profile has its account, an
\* account its Forgejo user, and an answered request its profile.
THEOREM RowsStayRooted == Spec => []RowsAreRooted
<1>1. Inv => RowsAreRooted BY Zenon DEF Inv, Rows, One, Place, RowsAreRooted
<1> QED BY <1>1, Invariance, PTL

\* Without a failed call, signup_handler leaves no account without a profile.
THEOREM OnlyFaultsLoseProfiles == Spec => []ProfilelessByFaults
<1>1. Inv => ProfilelessByFaults BY Zenon DEF Inv
<1> QED BY <1>1, Invariance, PTL

\* profile_patch_handler's read and write lose an update only to a request that ran at
\* the same time, for any number of requests.
THEOREM UpdatesAreLostByOverlap == Spec => []LostOnlyByOverlap
<1>1. Inv => LostOnlyByOverlap BY Zenon DEF Inv, TypeOK, Rows, Stored, Kept, LostOnlyByOverlap
<1> QED BY <1>1, Invariance, PTL

\* The date checks of ProfileRecord::new and of the table refuse a write only when a
\* request that ran at the same time, with a later clock, created the row.
THEOREM RefusalsAreByOverlap == Spec => []RefusedByOverlap
<1>1. Inv => RefusedByOverlap BY Zenon DEF Inv, One, Carried, RefusedByOverlap
<1> QED BY <1>1, Invariance, PTL

\* The created_at a get or patch answers is the stored one, unless a request that ran
\* at the same time created the row.
THEOREM AnswersAreStored == Spec => []AnsweredDateIsStored
<1>1. Inv => AnsweredDateIsStored
  BY Zenon DEF Inv, One, Carried, MadeBeside, At, AnsweredDateIsStored
<1> QED BY <1>1, Invariance, PTL

\* Rows and handlers keep their types: every field of a stored profile has the value of
\* a request or its default (ensure_profile, apply_profile_update).
THEOREM AccountTypes == Spec => []TypeOK
<1>1. Inv => TypeOK BY Zenon DEF Inv
<1> QED BY <1>1, Invariance, PTL
(***************************************************************************)
(* The dates of the row.                                                   *)
(***************************************************************************)
Dated ==
    profile # NoProfile =>
        /\ profile.updated_at >= profile.created_at
        /\ \E q \in wrote : task[q].now = profile.updated_at

\* The handler r stores a row dated by its own clock.
Redates(r) ==
    /\ task[r].pc \in {"repair", "profile_write"} /\ task'[r].pc # task[r].pc
    /\ profile' \in Profiles /\ profile' # NoProfile
    /\ profile'.updated_at = task[r].now /\ profile'.updated_at >= profile'.created_at
    /\ profile # NoProfile => profile'.created_at = profile.created_at
    /\ wrote' = wrote \union {r}

LEMMA ClocksStay ==
  ASSUME Inv, [Next]_vars, NEW q \in Requests, ~At(q, "idle")
  PROVE  task'[q].now = task[q].now
<1>1. task \in [Requests -> Handlers] BY Zenon DEF Inv, TypeOK
<1>2. ASSUME NEW r \in Requests, NEW pc, Goto(r, pc) PROVE task'[q].now = task[q].now
  BY <1>1, <1>2, ZenonT(30) DEF Goto, Handlers
<1>3. ASSUME NEW r \in Requests, NEW pc, NEW row, Carry(r, pc, row) PROVE task'[q].now = task[q].now
  BY <1>1, <1>3 DEF Carry, Handlers
<1>4. ASSUME NEW r \in Requests, Begin(r) PROVE task'[q].now = task[q].now
  BY <1>1, <1>4, Zenon DEF Begin
<1>5. ASSUME NEW r \in Requests, Step(r) PROVE task'[q].now = task[q].now
  BY <1>2, <1>3, <1>5, Zenon DEF Step, ReadAccount, GetUser, CreateUser, UpsertAccount, ReadProfile,
     Repair, WriteProfile, Upsert
<1>6. ASSUME NEW r \in Requests, Abandon(r) PROVE task'[q].now = task[q].now
  BY <1>2, <1>6, Zenon DEF Abandon
<1>7. CASE UNCHANGED task BY <1>7
<1> QED BY <1>4, <1>5, <1>6, <1>7, Zenon DEF Next, Tick, vars

LEMMA UpsertRedates ==
  ASSUME Inv, NEW r \in Requests, task[r].pc \in {"repair", "profile_write"},
         NEW row \in Profiles, row.updated_at = task[r].now,
         NEW pc \in Awaits \union Answers, pc # task[r].pc, NEW kept \in Profiles,
         Upsert(r, row, pc, kept)
  PROVE  (profile' = profile /\ wrote' = wrote) \/ Redates(r)
<1>1. CASE ~valid(Merged(row)) BY <1>1, Zenon DEF Upsert
<1>2. CASE valid(Merged(row))
  <2>1. profile' = Merged(row) /\ wrote' = wrote \union {r} /\ Carry(r, pc, kept)
    BY <1>2, Zenon DEF Upsert
  <2>2. task'[r].pc = pc BY <2>1, CarryShape, Zenon
  <2>3. /\ profile' \in Profiles /\ profile' # NoProfile /\ profile'.updated_at = task[r].now
        /\ profile # NoProfile => profile'.created_at = profile.created_at
    BY <2>1, MergedIsProfile, ProfileIsOne, Zenon DEF Inv, TypeOK
  <2>4. profile'.updated_at >= profile'.created_at BY <1>2, <2>1, Zenon DEF valid
  <2> QED BY <2>1, <2>2, <2>3, <2>4, Zenon DEF Redates
<1> QED BY <1>1, <1>2, Zenon

LEMMA RepairRedates ==
  ASSUME Inv, NEW r \in Requests, Repair(r)
  PROVE  (profile' = profile /\ wrote' = wrote) \/ Redates(r)
<1>1. /\ task[r].pc = "repair" /\ Kind[r] \in {"get", "patch"} /\ task[r].now \in Nat
  BY AccountsAssumption DEF Repair, Inv, TypeOK, Handlers, One, Place, At
<1>2. PICK row \in Profiles : row = NewProfile(task[r].now) BY <1>1, NewIsProfile, Zenon
<1>3. row.updated_at = task[r].now BY <1>2, Zenon DEF NewProfile
<1>4. PICK pc, kept : pc = pc_after_ensure(r, row) /\ kept = row_after_ensure(r, row) OBVIOUS
<1>5. Upsert(r, row, pc, kept) BY <1>2, <1>4, Zenon DEF Repair
<1>6. pc \in Awaits \union Answers /\ pc # "repair"
  BY <1>4, Zenon DEF pc_after_ensure, Awaits, Answers
<1>7. kept \in Profiles
  BY <1>1, <1>4, UpdateIsProfile, AccountsAssumption, Zenon DEF row_after_ensure
<1> QED BY <1>1, <1>3, <1>5, <1>6, <1>7, UpsertRedates, Zenon

LEMMA WriteRedates ==
  ASSUME Inv, NEW r \in Requests, WriteProfile(r)
  PROVE  (profile' = profile /\ wrote' = wrote) \/ Redates(r)
<1>1. task[r].pc = "profile_write" /\ Carried(r) BY Zenon DEF WriteProfile, Inv, One, At
<1>2. PICK row \in Profiles : row = task[r].row BY <1>1, Zenon DEF Carried
<1>3. PICK pc \in {"created", "ok"} : pc = IF Kind[r] = "signup" THEN "created" ELSE "ok"
  OBVIOUS
<1>4. Upsert(r, row, pc, row) BY <1>2, <1>3, Zenon DEF WriteProfile
<1>5. row.updated_at = task[r].now BY <1>1, <1>2 DEF Carried, NewProfile, At
<1>6. pc \in Awaits \union Answers /\ pc # task[r].pc BY <1>1, <1>3, Zenon DEF Answers
<1> QED BY <1>1, <1>4, <1>5, <1>6, UpsertRedates, Zenon

LEMMA StepRedates ==
  ASSUME Inv, [Next]_vars
  PROVE  (profile' = profile /\ wrote' = wrote) \/ \E r \in Requests : Redates(r)
<1>1. ASSUME NEW r \in Requests, Step(r)
      PROVE  (profile' = profile /\ wrote' = wrote) \/ Redates(r)
  <2>1. CASE Repair(r) BY <2>1, RepairRedates, Zenon
  <2>2. CASE WriteProfile(r) BY <2>2, WriteRedates, Zenon
  <2>3. CASE UNCHANGED <<profile, wrote>> BY <2>3, Zenon
  <2> QED BY <1>1, <2>1, <2>2, <2>3, Zenon DEF Step, ReadAccount, GetUser, CreateUser, UpsertAccount,
       ReadProfile
<1> QED BY <1>1, Zenon DEF Next, Begin, Abandon, Tick, vars

LEMMA DatedStep == Inv /\ Dated /\ [Next]_vars => Dated'
<1> SUFFICES ASSUME Inv, Dated, [Next]_vars PROVE Dated' OBVIOUS
<1>1. \A q \in wrote : task'[q].now = task[q].now
  BY ClocksStay, Zenon DEF Inv, TypeOK, One, Past
<1>2. CASE profile' = profile /\ wrote' = wrote
  BY <1>1, <1>2, Zenon DEF Dated
<1>3. ASSUME NEW r \in Requests, Redates(r) PROVE Dated'
  <2>1. task'[r].now = task[r].now BY <1>3, ClocksStay, Zenon DEF Redates, At
  <2> QED BY <1>3, <2>1, Zenon DEF Dated, Redates
<1> QED BY <1>2, <1>3, StepRedates, Zenon

\* upsert_profile never moves created_at, and updated_at goes back only past a request
\* that ran at the same time, for any requests and any clock.
THEOREM DatesStay == Spec => DatesAreKept
<1> DEFINE A == profile # NoProfile =>
          /\ profile' # NoProfile /\ profile'.created_at = profile.created_at
          /\ profile'.updated_at >= profile'.created_at
          /\ profile'.updated_at < profile.updated_at =>
                \E r \in Requests, q \in wrote :
                    task'[r] # task[r] /\ Overlap(r, q) /\ task[q].now = profile.updated_at
<1>1. Init => Dated BY Zenon DEF Init, Dated
<1>2. Inv /\ Dated /\ [Next]_vars => A
  <2> SUFFICES ASSUME Inv, Dated, [Next]_vars, profile # NoProfile PROVE A OBVIOUS
  <2>1. profile \in Profiles BY Zenon DEF Inv, TypeOK
  <2>2. profile.updated_at \in Nat /\ profile.created_at \in Nat BY <2>1, Zenon DEF Profiles
  <2>3. CASE profile' = profile
    <3>1. ~(profile'.updated_at < profile.updated_at) BY <2>2, <2>3
    <3> QED BY <2>3, <3>1, Zenon DEF Dated
  <2>4. ASSUME NEW r \in Requests, Redates(r), profile'.updated_at < profile.updated_at
        PROVE  \E q \in wrote : Overlap(r, q) /\ task[q].now = profile.updated_at
    <3>1. PICK q \in wrote : task[q].now = profile.updated_at BY Zenon DEF Dated
    <3>2. q \in Requests /\ One(q) /\ One(r) BY Zenon DEF Inv, TypeOK
    <3>3. task[q].now \in Nat /\ task[r].now \in Nat
      BY <3>2, AccountsAssumption DEF Inv, TypeOK, Handlers
    <3>4. ~At(q, "idle") /\ r \notin task[q].after /\ ~At(r, "idle")
      BY <2>4, <3>2, Zenon DEF One, Past, Redates, At, Answers
    <3>5. profile'.updated_at = task[r].now BY <2>4, Zenon DEF Redates
    <3>6. ~(task[q].now <= task[r].now) BY <2>2, <2>4, <3>1, <3>3, <3>5
    <3>7. q # r /\ q \notin task[r].after BY <3>2, <3>3, <3>6 DEF One, Past
    <3> QED BY <3>1, <3>4, <3>7, Zenon DEF Overlap, Begun
  <2>5. ASSUME NEW r \in Requests, Redates(r) PROVE A
    <3>1. task'[r] # task[r] BY <2>5, Zenon DEF Redates
    <3>2. /\ profile' # NoProfile /\ profile'.created_at = profile.created_at
          /\ profile'.updated_at >= profile'.created_at
      BY <2>5, Zenon DEF Redates
    <3> QED BY <2>4, <2>5, <3>1, <3>2, Zenon
  <2> QED BY <2>3, <2>5, StepRedates, Zenon
<1> QED BY <1>1, <1>2, Invariance, DatedStep, PTL DEF Spec, DatesAreKept
=============================================================================
