------------------------ MODULE CommandDispatchProofs ------------------------
(***************************************************************************)
(* Proofs for the command dispatcher, for any relays, commands, actors,    *)
(* repositories and fields.                                                *)
(*                                                                         *)
(* The invariant is about one task (Working) and about two (Beside).       *)
(* Working says what a task at each call may rely on: its command is       *)
(* logged as accepted and not yet effected, the outcome it is about to log *)
(* is true, and the row it has read is still the stored one but for what   *)
(* overlapping commands on the same row wrote.                             *)
(***************************************************************************)
EXTENDS CommandDispatch, FiniteSetTheorems, TLAPS

Accounts == [status : {"active", "deleted"}, created : Commands, updated : Commands]
Profiles == [Fields -> Commands \union {NoCommand}]
Tasks == [pc : Pcs, cmd : Commands \union {NoCommand},
          row : {NoRow} \union Accounts \union Profiles \union [Fields -> Commands],
          outcome : {"none"} \union Outcomes]

\* Some command on the row of c was executed at the same time.
Beset(c) == \E d \in Commands : SameRow(c, d) /\ {c, d} \in overlap

\* The row that c has read is the stored one, or c is beset.
Current(c, row, stored) == \A f \in Fields : row[f] = stored[f] \/ Beset(c)

OwnerKnown(k) ==
    \/ maintainers[k][k[1]] # "none"
    \/ \E r \in Relays : At(r, "maintainer_write") /\ Verb[Cmd(r)] = "repo_create" /\ RepoKey(Cmd(r)) = k
    \/ faults > 0

\* Which verbs reach which call.
Place(r) ==
    /\ At(r, "account_read") =>
          Verb[Cmd(r)] \in {"account_create", "account_delete", "account_status", "account_invalid"}
    /\ At(r, "account_write") => Verb[Cmd(r)] \in {"account_create", "account_delete"}
    /\ At(r, "profile_write") => Verb[Cmd(r)] = "profile_set"
    /\ task[r].pc \in {"repo_read", "repo_write"} => Verb[Cmd(r)] \in {"repo_create", "repo_update"}
    /\ At(r, "maintainers_read") => Verb[Cmd(r)] # "repo_create"
    /\ task[r].pc \in {"repo_read", "maintainers_read", "repo_write", "maintainer_write"} =>
          Target[Cmd(r)] \in Names

\* The outcome that is about to be logged.
Truth(r) ==
    /\ ~At(r, "outcome") => Cmd(r) \notin effected
    /\ At(r, "outcome") =>
          /\ task[r].outcome \in Outcomes
          /\ (task[r].outcome = "ok" /\ Verb[Cmd(r)] \in Writing) => Cmd(r) \in effected
          /\ task[r].outcome \in {"exists", "not_found", "unauthorized", "invalid"} =>
                Cmd(r) \notin effected

\* What a task carries across a call.
Updating(r) ==
    task[r].pc \in {"maintainers_read", "repo_write"} /\ Verb[Cmd(r)] = "repo_update"
Carried(r) ==
    /\ At(r, "account_write") => task[r].row \in {NoRow} \union Accounts
    /\ At(r, "profile_write") =>
          task[r].row \in Profiles /\ Current(Cmd(r), task[r].row, profiles[Actor[Cmd(r)]])
    /\ Updating(r) =>
          /\ task[r].row \in [Fields -> Commands]
          /\ Current(Cmd(r), task[r].row, repos[RepoKey(Cmd(r))])
          /\ OwnerKnown(RepoKey(Cmd(r)))

Working(r) ==
    Applying(r) =>
        Cmd(r) \in Commands /\ log[Cmd(r)] = "accepted" /\ Place(r) /\ Truth(r) /\ Carried(r)

Beside(r, q) ==
    Applying(r) /\ Applying(q) /\ r # q => Cmd(r) # Cmd(q) /\ {Cmd(r), Cmd(q)} \in overlap

Effects ==
    /\ OutcomeIsTrue
    /\ \A c \in Commands : log[c] = "none" => c \notin effected

TablesOK ==
    /\ log \in [Commands -> {"none", "accepted"} \union Outcomes]
    /\ accounts \in [Actors -> {NoRow} \union Accounts]
    /\ profiles \in [Actors -> Profiles]
    /\ repos \in [Owned -> {NoRow} \union [Fields -> Commands]]
    /\ maintainers \in [Owned -> [Actors -> {"none", "active", "inactive"}]]
    /\ faults \in 0 .. MaxFaults

Inv ==
    /\ TablesOK /\ task \in [Relays -> Tasks]
    /\ Effects /\ OwnerIsMaintainer
    /\ \A r \in Relays : Working(r)
    /\ \A r, q \in Relays : Beside(r, q)

\* A step of one task while it applies its command.
Moved(r) ==
    /\ task \in [Relays -> Tasks] /\ task' \in [Relays -> Tasks]
    /\ \A s \in Relays \ {r} : task'[s] = task[s]
    /\ Applying(r) /\ Applying(r)' /\ Cmd(r)' = Cmd(r)
    /\ log' = log /\ overlap' = overlap
    /\ effected' \in {effected, effected \union {Cmd(r)}}

\* What it does to the tables.
Wrote(r) ==
    /\ \A a \in Actors : profiles'[a] # profiles[a] =>
          Verb[Cmd(r)] = "profile_set" /\ Actor[Cmd(r)] = a
    /\ \A k \in Owned : repos'[k] # repos[k] =>
          Verb[Cmd(r)] \in {"repo_create", "repo_update"} /\ RepoKey(Cmd(r)) = k
    /\ \A k \in Owned : OwnerKnown(k) => OwnerKnown(k)'

Lost(r) ==
    /\ \A a \in Actors : Explained(Cmd(r), profiles[a], profiles'[a])
    /\ \A k \in Owned : repos[k] # NoRow => Explained(Cmd(r), repos[k], repos'[k])

-----------------------------------------------------------------------------
LEMMA KeyIsOwned ==
    ASSUME NEW c \in Commands, Target[c] \in Names
    PROVE  RepoKey(c) \in Owned /\ RepoKey(c)[1] = Actor[c]
  BY DispatchAssumption, Zenon DEF RepoKey, Owned

\* The other tasks keep what they rely on.
LEMMA OthersKeep ==
    ASSUME Inv, NEW r \in Relays, Moved(r), Wrote(r), NEW s \in Relays, s # r
    PROVE  Working(s)'
<1> SUFFICES ASSUME Applying(s)'
             PROVE  (Cmd(s) \in Commands /\ log[Cmd(s)] = "accepted" /\ Place(s) /\ Truth(s) /\ Carried(s))'
  BY Zenon DEF Working
<1>1. task'[s] = task[s] /\ Applying(s) /\ Working(s) /\ Working(r) /\ Beside(s, r)
  BY Zenon DEF Inv, Moved, Applying, At
<1>2. /\ Cmd(s)' = Cmd(s) /\ Cmd(s) \in Commands /\ Cmd(r) \in Commands
      /\ \A pc : At(s, pc)' <=> At(s, pc)
      /\ Cmd(s) # Cmd(r) /\ {Cmd(s), Cmd(r)} \in overlap
  BY <1>1, Zenon DEF Cmd, At, Working, Beside, Moved
<1>3. (Cmd(s) \in Commands /\ log[Cmd(s)] = "accepted" /\ Place(s))'
  BY <1>1, <1>2, Zenon DEF Working, Moved, Place, Cmd, At
<1>4. Truth(s)'
  BY <1>1, <1>2, Zenon DEF Working, Moved, Truth, Cmd, At
<1>5. Carried(s)'
  <2>0. \A c : Beset(c)' <=> Beset(c)
    BY Zenon DEF Beset, Moved
  <2>1. At(s, "account_write") => task[s].row \in {NoRow} \union Accounts
    BY <1>1, Zenon DEF Working, Carried
  <2>2. ASSUME At(s, "profile_write")
        PROVE  task[s].row \in Profiles /\ Current(Cmd(s), task[s].row, profiles[Actor[Cmd(s)]])'
    <3>1. Verb[Cmd(s)] = "profile_set" /\ task[s].row \in Profiles
          /\ Current(Cmd(s), task[s].row, profiles[Actor[Cmd(s)]])
      BY <1>1, <2>2, Zenon DEF Working, Carried, Place
    <3>2. Actor[Cmd(s)] \in Actors BY <1>2, DispatchAssumption, Zenon
    <3>3. CASE profiles'[Actor[Cmd(s)]] = profiles[Actor[Cmd(s)]]
      BY <1>1, <1>2, <2>0, <3>1, <3>3, Zenon DEF Current
    <3>4. CASE profiles'[Actor[Cmd(s)]] # profiles[Actor[Cmd(s)]]
      <4>1. SameRow(Cmd(s), Cmd(r)) BY <3>1, <3>2, <3>4, Zenon DEF Wrote, SameRow
      <4>2. Beset(Cmd(s)) BY <1>2, <4>1, Zenon DEF Beset
      <4> QED BY <1>1, <1>2, <2>0, <3>1, <4>2, Zenon DEF Current
    <3> QED BY <3>3, <3>4, Zenon
  <2>3. ASSUME Updating(s)
        PROVE  /\ task[s].row \in [Fields -> Commands]
               /\ Current(Cmd(s), task[s].row, repos[RepoKey(Cmd(s))])'
               /\ OwnerKnown(RepoKey(Cmd(s)))'
    <3>1. /\ Verb[Cmd(s)] = "repo_update" /\ task[s].row \in [Fields -> Commands]
          /\ Current(Cmd(s), task[s].row, repos[RepoKey(Cmd(s))]) /\ Target[Cmd(s)] \in Names
          /\ OwnerKnown(RepoKey(Cmd(s)))
      BY <1>1, <2>3, Zenon DEF Working, Carried, Place, Updating
    <3>2. RepoKey(Cmd(s)) \in Owned BY <1>2, <3>1, KeyIsOwned, Zenon
    <3>3. RepoKey(Cmd(s))' = RepoKey(Cmd(s)) BY <1>2, Zenon DEF RepoKey
    <3>4. OwnerKnown(RepoKey(Cmd(s)))' BY <3>1, <3>2, <3>3, Zenon DEF Wrote
    <3>5. CASE repos'[RepoKey(Cmd(s))] = repos[RepoKey(Cmd(s))]
      BY <1>1, <1>2, <2>0, <3>1, <3>3, <3>4, <3>5, Zenon DEF Current
    <3>6. CASE repos'[RepoKey(Cmd(s))] # repos[RepoKey(Cmd(s))]
      <4>1. SameRow(Cmd(s), Cmd(r)) BY <3>1, <3>2, <3>6, Zenon DEF Wrote, SameRow
      <4>2. Beset(Cmd(s)) BY <1>2, <4>1, Zenon DEF Beset
      <4> QED BY <1>1, <1>2, <2>0, <3>1, <3>4, <4>2, Zenon DEF Current
    <3> QED BY <3>5, <3>6, Zenon
  <2> QED BY <1>1, <1>2, <2>1, <2>2, <2>3, Zenon DEF Carried, Updating, At, Cmd
<1> QED BY <1>3, <1>4, <1>5, Zenon

\* Rows keep their owner while maintainers are not forgotten and creators move on.
LEMMA OwnersStay ==
    ASSUME Inv, NEW r \in Relays, \A s \in Relays \ {r} : task'[s] = task[s],
           ~(At(r, "maintainer_write") /\ Verb[Cmd(r)] = "repo_create"),
           UNCHANGED <<maintainers, faults>>, NEW k \in Owned, OwnerKnown(k)
    PROVE  OwnerKnown(k)'
<1>1. CASE maintainers[k][k[1]] # "none" \/ faults > 0
  BY <1>1, Zenon DEF OwnerKnown
<1>2. CASE \E q \in Relays : At(q, "maintainer_write") /\ Verb[Cmd(q)] = "repo_create" /\ RepoKey(Cmd(q)) = k
  <2>1. PICK q \in Relays : At(q, "maintainer_write") /\ Verb[Cmd(q)] = "repo_create" /\ RepoKey(Cmd(q)) = k
    BY <1>2, Zenon
  <2>2. task'[q] = task[q] BY <2>1, Zenon
  <2> QED BY <2>1, <2>2, Zenon DEF OwnerKnown, At, Cmd, RepoKey
<1> QED BY <1>1, <1>2, Zenon DEF OwnerKnown

\* From the facts about one task's step to the invariant.
LEMMA Assemble ==
    ASSUME Inv, NEW r \in Relays, Moved(r), Wrote(r), TablesOK', Working(r)', OwnerIsMaintainer'
    PROVE  Inv'
<1>1. \A s \in Relays : Working(s)'
  BY OthersKeep, Zenon
<1>2. ASSUME NEW s \in Relays, NEW q \in Relays PROVE Beside(s, q)'
  <2>1. Beside(s, q) BY Zenon DEF Inv
  <2>2. \A x \in Relays : (Applying(x)' <=> Applying(x)) /\ Cmd(x)' = Cmd(x)
    BY Zenon DEF Moved, Applying, At, Cmd
  <2> QED BY <2>1, <2>2, Zenon DEF Beside, Moved
<1>3. Effects'
  <2>1. Cmd(r) \in Commands /\ log[Cmd(r)] = "accepted" BY Zenon DEF Inv, Working, Moved
  <2> QED BY <2>1, Zenon DEF Inv, Effects, OutcomeIsTrue, Moved
<1> QED BY <1>1, <1>2, <1>3, Zenon DEF Inv, Moved

\* A step that reads: the tables and the history stay.
Reads(r, t) ==
    /\ task' = [task EXCEPT ![r] = t] /\ t \in Tasks
    /\ t.cmd = Cmd(r) /\ t.pc # "idle"
    /\ Applying(r) /\ ~(At(r, "maintainer_write") /\ Verb[Cmd(r)] = "repo_create")
    /\ UNCHANGED <<log, tables, faults, history>>

LEMMA ReadMoves ==
    ASSUME Inv, NEW r \in Relays, NEW t, Reads(r, t)
    PROVE  /\ Moved(r) /\ Wrote(r) /\ OwnerIsMaintainer' /\ task'[r] = t
<1>1. task \in [Relays -> Tasks] /\ task' \in [Relays -> Tasks] /\ task'[r] = t
      /\ \A s \in Relays \ {r} : task'[s] = task[s]
  BY Zenon DEF Inv, Reads
<1>2. Moved(r)
  BY <1>1, Zenon DEF Moved, Reads, Applying, At, Cmd, history
<1>3. \A k \in Owned : OwnerKnown(k) => OwnerKnown(k)'
  BY <1>1, OwnersStay, Zenon DEF Reads, tables
<1>4. Wrote(r)
  BY <1>3, Zenon DEF Wrote, Reads, tables
<1>5. OwnerIsMaintainer'
  BY <1>3, Zenon DEF OwnerIsMaintainer, OwnerKnown, Inv, Reads, tables
<1> QED BY <1>1, <1>2, <1>4, <1>5, Zenon

-----------------------------------------------------------------------------
(***************************************************************************)
(* One lemma per call.                                                     *)
(***************************************************************************)
LEMMA TaskOf ==
    ASSUME Inv, NEW r \in Relays, Applying(r)
    PROVE  /\ task[r] \in Tasks /\ Cmd(r) \in Commands /\ Working(r)
           /\ log[Cmd(r)] = "accepted" /\ Place(r) /\ Truth(r) /\ Carried(r)
           /\ Actor[Cmd(r)] \in Actors /\ Whom[Cmd(r)] \in Actors
  BY DispatchAssumption, Zenon DEF Inv, Working

\* A command that is refused, or needs no write, goes on to its outcome.
LEMMA DecideKeeps ==
    ASSUME Inv, NEW r \in Relays, Applying(r), ~At(r, "outcome"), NEW o \in Outcomes,
           o = "ok" => Verb[Cmd(r)] \notin Writing,
           ~(At(r, "maintainer_write") /\ Verb[Cmd(r)] = "repo_create"),
           Decide(r, o), UNCHANGED <<log, tables, faults, history>>
    PROVE  Inv'
<1> DEFINE t == [task[r] EXCEPT !.pc = "outcome", !.outcome = o]
<1>1. task[r] \in Tasks /\ Cmd(r) \in Commands /\ log[Cmd(r)] = "accepted" /\ Truth(r)
  BY TaskOf, Zenon
<1>2. t \in Tasks /\ t.cmd = Cmd(r) /\ t.pc = "outcome" /\ t.outcome = o
  BY <1>1, Zenon DEF Tasks, Pcs, Cmd
<1>3. task' = [task EXCEPT ![r] = t]
  BY Zenon DEF Decide, Inv
<1>4. Reads(r, t)
  BY <1>2, <1>3, Zenon DEF Reads
<1> HIDE DEF t
<1>5. Moved(r) /\ Wrote(r) /\ OwnerIsMaintainer' /\ task'[r] = t
  BY <1>4, ReadMoves, Zenon
<1>6. Working(r)'
  BY <1>1, <1>2, <1>5, Zenon DEF Working, Applying, At, Cmd, Place, Truth, Carried, Updating, history
<1>7. TablesOK'
  BY Zenon DEF Inv, TablesOK, tables
<1> QED BY <1>5, <1>6, <1>7, Assemble, Zenon

\* A call that reads and goes on, with the row it has read or without.
LEMMA GoesOn ==
    ASSUME Inv, NEW r \in Relays, Applying(r), ~At(r, "outcome"), ~At(r, "maintainer_write"),
           NEW t \in Tasks, task' = [task EXCEPT ![r] = t],
           t.cmd = Cmd(r), t.pc \notin {"idle", "outcome"},
           UNCHANGED <<log, tables, faults, history>>, (Place(r) /\ Carried(r))'
    PROVE  Inv'
<1>1. Cmd(r) \in Commands /\ log[Cmd(r)] = "accepted" /\ Truth(r)
  BY TaskOf, Zenon
<1>2. Reads(r, t)
  BY Zenon DEF Reads
<1>3. Moved(r) /\ Wrote(r) /\ OwnerIsMaintainer' /\ task'[r] = t
  BY <1>2, ReadMoves, Zenon
<1>4. Working(r)'
  BY <1>1, <1>3 DEF Working, Applying, At, Cmd, Truth, history
<1>5. TablesOK'
  BY Zenon DEF Inv, TablesOK, tables
<1> QED BY <1>3, <1>4, <1>5, Assemble, Zenon

LEMMA AccountReadKeeps ==
    ASSUME Inv, NEW r \in Relays, AccountRead(r)
    PROVE  Inv'
<1> DEFINE c == Cmd(r)
           row == accounts[Actor[c]]
<1>0. At(r, "account_read") /\ Applying(r) /\ ~At(r, "outcome") /\ ~At(r, "maintainer_write")
      /\ UNCHANGED <<log, tables, faults, history>>
  BY Zenon DEF AccountRead, At, Applying
<1>1. CASE Verb[c] = "account_create" /\ row # NoRow /\ Decide(r, "exists")
  BY <1>0, <1>1, DecideKeeps, Zenon DEF Outcomes
<1>2. CASE Verb[c] = "account_status" /\ Decide(r, "ok")
  BY <1>0, <1>2, DecideKeeps, Zenon DEF Outcomes, Writing
<1>3. CASE Verb[c] = "account_invalid" /\ Decide(r, "invalid")
  BY <1>0, <1>3, DecideKeeps, Zenon DEF Outcomes
<1>4. CASE Verb[c] \in {"account_create", "account_delete"} /\ Keep(r, "account_write", row)
  <2> DEFINE t == [task[r] EXCEPT !.pc = "account_write", !.row = row]
  <2>1. task[r] \in Tasks /\ c \in Commands /\ row \in {NoRow} \union Accounts
    BY <1>0, TaskOf, Zenon DEF Inv, TablesOK
  <2>2. t \in Tasks /\ t.cmd = c /\ t.pc = "account_write" /\ t.row = row
    BY <2>1, Zenon DEF Tasks, Pcs, Cmd
  <2>3. task' = [task EXCEPT ![r] = t]
    BY <1>4, Zenon DEF Keep, Inv
  <2> HIDE DEF t
  <2>4. task'[r] = t
    BY <2>3, Zenon DEF Inv
  <2>5. (Place(r) /\ Carried(r))'
    BY <1>4, <2>1, <2>2, <2>4, Zenon DEF Place, Carried, Updating, At, Cmd
  <2> QED BY <1>0, <2>2, <2>3, <2>5, GoesOn, Zenon
<1>5. Verb[c] \in {"account_create", "account_delete", "account_status", "account_invalid"}
  BY <1>0, TaskOf, Zenon DEF Place, At
<1> QED BY <1>0, <1>1, <1>2, <1>3, <1>4, <1>5, Zenon DEF AccountRead

LEMMA ProfileReadKeeps ==
    ASSUME Inv, NEW r \in Relays, ProfileRead(r)
    PROVE  Inv'
<1> DEFINE c == Cmd(r)
           row == profiles[Actor[c]]
<1>0. At(r, "profile_read") /\ Applying(r) /\ ~At(r, "outcome") /\ ~At(r, "maintainer_write")
      /\ UNCHANGED <<log, tables, faults, history>>
  BY Zenon DEF ProfileRead, At, Applying
<1>1. CASE Decide(r, "invalid")
  BY <1>0, <1>1, DecideKeeps, Zenon DEF Outcomes
<1>2. CASE Verb[c] = "profile_set" /\ Keep(r, "profile_write", row)
  <2> DEFINE t == [task[r] EXCEPT !.pc = "profile_write", !.row = row]
  <2>1. task[r] \in Tasks /\ c \in Commands /\ row \in Profiles
    BY <1>0, TaskOf, Zenon DEF Inv, TablesOK
  <2>2. t \in Tasks /\ t.cmd = c /\ t.pc = "profile_write" /\ t.row = row
    BY <2>1, Zenon DEF Tasks, Pcs, Cmd
  <2>3. task' = [task EXCEPT ![r] = t]
    BY <1>2, Zenon DEF Keep, Inv
  <2> HIDE DEF t
  <2>4. task'[r] = t
    BY <2>3, Zenon DEF Inv
  <2>5. (Place(r) /\ Carried(r))'
    BY <1>0, <1>2, <2>1, <2>2, <2>4, Zenon DEF Place, Carried, Current, Updating, At, Cmd, tables
  <2> QED BY <1>0, <2>2, <2>3, <2>5, GoesOn, Zenon
<1> QED BY <1>0, <1>1, <1>2, Zenon DEF ProfileRead

LEMMA RepoReadKeeps ==
    ASSUME Inv, NEW r \in Relays, RepoRead(r)
    PROVE  Inv'
<1> DEFINE c == Cmd(r)
           row == repos[RepoKey(c)]
<1>0. At(r, "repo_read") /\ Applying(r) /\ ~At(r, "outcome") /\ ~At(r, "maintainer_write")
      /\ UNCHANGED <<log, tables, faults, history>>
  BY Zenon DEF RepoRead, At, Applying
<1>a. /\ task[r] \in Tasks /\ c \in Commands /\ Verb[c] \in {"repo_create", "repo_update"}
      /\ Target[c] \in Names
  BY <1>0, TaskOf, Zenon DEF Place, At
<1>b. RepoKey(c) \in Owned /\ row \in {NoRow} \union [Fields -> Commands]
  BY <1>a, KeyIsOwned, Zenon DEF Inv, TablesOK
<1>1. CASE Decide(r, "exists") \/ Decide(r, "not_found")
  BY <1>0, <1>1, DecideKeeps, Zenon DEF Outcomes
<1>2. CASE Verb[c] = "repo_create" /\ Goto(r, "repo_write")
  <2> DEFINE t == [task[r] EXCEPT !.pc = "repo_write"]
  <2>1. t \in Tasks /\ t.cmd = c /\ t.pc = "repo_write"
    BY <1>a, Zenon DEF Tasks, Pcs, Cmd
  <2>2. task' = [task EXCEPT ![r] = t]
    BY <1>2, Zenon DEF Goto, Inv
  <2> HIDE DEF t
  <2>3. task'[r] = t
    BY <2>2, Zenon DEF Inv
  <2>4. (Place(r) /\ Carried(r))'
    BY <1>a, <1>2, <2>1, <2>3, Zenon DEF Place, Carried, Updating, At, Cmd
  <2> QED BY <1>0, <2>1, <2>2, <2>4, GoesOn, Zenon
<1>3. CASE Verb[c] = "repo_update" /\ row # NoRow /\ Keep(r, "maintainers_read", row)
  <2> DEFINE t == [task[r] EXCEPT !.pc = "maintainers_read", !.row = row]
  <2>1. t \in Tasks /\ t.cmd = c /\ t.pc = "maintainers_read" /\ t.row = row
    BY <1>a, <1>b, Zenon DEF Tasks, Pcs, Cmd
  <2>2. task' = [task EXCEPT ![r] = t]
    BY <1>3, Zenon DEF Keep, Inv
  <2> HIDE DEF t
  <2>3. task'[r] = t /\ \A s \in Relays \ {r} : task'[s] = task[s]
    BY <2>2, Zenon DEF Inv
  <2>4. OwnerKnown(RepoKey(c))
    BY <1>b, <1>3, Zenon DEF Inv, OwnerIsMaintainer, OwnerKnown
  <2>5. OwnerKnown(RepoKey(c))'
    <3>1. PICK k \in Owned : k = RepoKey(c)
      BY <1>b, Zenon
    <3>2. OwnerKnown(k)'
      BY <1>0, <2>3, <2>4, <3>1, OwnersStay, Zenon DEF tables
    <3>3. RepoKey(c)' = k
      BY <2>1, <2>3, <3>1, Zenon DEF RepoKey, Cmd
    <3> QED BY <3>2, <3>3, Zenon DEF OwnerKnown
  <2>6. (Place(r) /\ Carried(r))'
    BY <1>0, <1>a, <1>b, <1>3, <2>1, <2>3, <2>5, Zenon
    DEF Place, Carried, Current, Updating, At, Cmd, RepoKey, tables
  <2> QED BY <1>0, <2>1, <2>2, <2>6, GoesOn, Zenon
<1> QED BY <1>0, <1>a, <1>1, <1>2, <1>3, Zenon DEF RepoRead

LEMMA MaintainersReadKeeps ==
    ASSUME Inv, NEW r \in Relays, MaintainersRead(r)
    PROVE  Inv'
<1> DEFINE c == Cmd(r)
<1>0. At(r, "maintainers_read") /\ Applying(r) /\ ~At(r, "outcome") /\ ~At(r, "maintainer_write")
      /\ UNCHANGED <<log, tables, faults, history>>
  BY Zenon DEF MaintainersRead, At, Applying
<1>a. /\ task[r] \in Tasks /\ c \in Commands /\ Verb[c] # "repo_create" /\ Target[c] \in Names
      /\ Carried(r)
  BY <1>0, TaskOf, Zenon DEF Place, At
<1>b. RepoKey(c) \in Owned
  BY <1>a, KeyIsOwned, Zenon
<1>1. CASE Decide(r, "unauthorized") \/ Decide(r, "invalid")
  BY <1>0, <1>1, DecideKeeps, Zenon DEF Outcomes
<1>2. ASSUME NEW pc \in {"repo_write", "maintainer_write"}, Goto(r, pc),
             pc = "repo_write" => Verb[c] = "repo_update"
      PROVE  Inv'
  <2> DEFINE t == [task[r] EXCEPT !.pc = pc]
  <2>1. t \in Tasks /\ t.cmd = c /\ t.pc = pc /\ t.row = task[r].row
    BY <1>a, Zenon DEF Tasks, Pcs, Cmd
  <2>2. task' = [task EXCEPT ![r] = t]
    BY <1>2, Zenon DEF Goto, Inv
  <2> HIDE DEF t
  <2>3. task'[r] = t /\ \A s \in Relays \ {r} : task'[s] = task[s]
    BY <2>2, Zenon DEF Inv
  <2>4. Place(r)'
    BY <1>a, <1>2, <2>1, <2>3, Zenon DEF Place, At, Cmd
  <2>5. Carried(r)'
    <3>1. CASE pc = "maintainer_write"
      BY <2>1, <2>3, <3>1, Zenon DEF Carried, Updating, At, Cmd
    <3>2. CASE pc = "repo_write"
      <4>1. /\ task[r].row \in [Fields -> Commands] /\ OwnerKnown(RepoKey(c))
            /\ Current(c, task[r].row, repos[RepoKey(c)])
        BY <1>0, <1>a, <1>2, <3>2, Zenon DEF Carried, Updating, At
      <4>3. RepoKey(c)' = RepoKey(c)
        BY <2>1, <2>3, Zenon DEF RepoKey, Cmd
      <4>2. OwnerKnown(RepoKey(c))'
        <5>1. PICK k \in Owned : k = RepoKey(c)
          BY <1>b, Zenon
        <5>2. OwnerKnown(k)'
          BY <1>0, <2>3, <4>1, <5>1, OwnersStay, Zenon DEF tables
        <5> QED BY <4>3, <5>1, <5>2, Zenon DEF OwnerKnown
      <4>4. Current(c, task[r].row, repos[RepoKey(c)])'
        BY <1>0, <2>1, <2>3, <4>1, <4>3, Zenon DEF Current, Beset, Cmd, tables, history
      <4> QED BY <2>1, <2>3, <3>2, <4>1, <4>2, <4>3, <4>4, Zenon DEF Carried, Updating, At, Cmd
    <3> QED BY <3>1, <3>2, Zenon
  <2> QED BY <1>0, <1>2, <2>1, <2>2, <2>4, <2>5, GoesOn, Zenon
<1> QED BY <1>0, <1>1, <1>2, Zenon DEF MaintainersRead

\* The last write of a command.
LEMMA DoneMoves ==
    ASSUME Inv, NEW r \in Relays, Applying(r), ~At(r, "outcome"), Done(r), log' = log
    PROVE  /\ Moved(r) /\ \A s \in Relays \ {r} : task'[s] = task[s]
           /\ (Wrote(r) /\ TablesOK' /\ OwnerIsMaintainer' => Inv')
<1> DEFINE t == [task[r] EXCEPT !.pc = "outcome", !.outcome = "ok"]
<1>1. task[r] \in Tasks /\ Cmd(r) \in Commands /\ log[Cmd(r)] = "accepted"
  BY TaskOf, Zenon
<1>2. t \in Tasks /\ t.cmd = Cmd(r) /\ t.pc = "outcome" /\ t.outcome = "ok"
  BY <1>1, Zenon DEF Tasks, Pcs, Outcomes, Cmd
<1>3. task' = [task EXCEPT ![r] = t]
  BY Zenon DEF Done, Decide, Inv
<1> HIDE DEF t
<1>4. task'[r] = t /\ task' \in [Relays -> Tasks] /\ \A s \in Relays \ {r} : task'[s] = task[s]
  BY <1>2, <1>3, Zenon DEF Inv
<1>5. Moved(r)
  BY <1>1, <1>2, <1>4, Zenon DEF Moved, Done, Applying, At, Cmd, Inv
<1>6. Working(r)'
  BY <1>1, <1>2, <1>4, Zenon
  DEF Working, Applying, At, Cmd, Place, Truth, Carried, Updating, Done, Outcomes
<1> QED BY <1>4, <1>5, <1>6, Assemble, Zenon

LEMMA AccountWriteKeeps ==
    ASSUME Inv, NEW r \in Relays, AccountWrite(r)
    PROVE  Inv' /\ Lost(r)
<1> DEFINE c == Cmd(r)
<1>0. At(r, "account_write") /\ Applying(r) /\ ~At(r, "outcome") /\ ~At(r, "maintainer_write") /\ Done(r)
      /\ UNCHANGED <<log, profiles, repos, maintainers, faults>>
  BY Zenon DEF AccountWrite, At, Applying
<1>1. c \in Commands /\ Actor[c] \in Actors /\ task[r].row \in {NoRow} \union Accounts
  BY <1>0, TaskOf, Zenon DEF Carried
<1>2. TablesOK'
  <2> DEFINE existing == task[r].row
             stored == accounts[Actor[c]]
             created_at == IF existing = NoRow THEN c ELSE existing.created
             new == [status |-> IF Verb[c] = "account_create" THEN "active" ELSE "deleted",
                     created |-> IF stored = NoRow THEN created_at ELSE stored.created,
                     updated |-> c]
  <2>1. stored \in {NoRow} \union Accounts
    BY <1>1, Zenon DEF Inv, TablesOK
  <2>2. new \in Accounts
    BY <1>1, <2>1, Zenon DEF Accounts
  <2>3. accounts' = [accounts EXCEPT ![Actor[c]] = new]
    BY Zenon DEF AccountWrite
  <2> HIDE DEF new
  <2> QED BY <1>0, <2>2, <2>3, Zenon DEF Inv, TablesOK
<1>3. \A s \in Relays \ {r} : task'[s] = task[s]
  BY <1>0, DoneMoves, Zenon
<1>4. \A k \in Owned : OwnerKnown(k) => OwnerKnown(k)'
  BY <1>0, <1>3, OwnersStay, Zenon
<1>5. Wrote(r) /\ Lost(r)
  BY <1>0, <1>4, Zenon DEF Wrote, Lost, Explained
<1>6. OwnerIsMaintainer'
  BY <1>0, <1>4, Zenon DEF Inv, OwnerIsMaintainer, OwnerKnown
<1> QED BY <1>0, <1>2, <1>5, <1>6, DoneMoves, Zenon

LEMMA ProfileWriteKeeps ==
    ASSUME Inv, NEW r \in Relays, ProfileWrite(r)
    PROVE  Inv' /\ Lost(r)
<1> DEFINE c == Cmd(r)
<1>0. At(r, "profile_write") /\ Applying(r) /\ ~At(r, "outcome") /\ ~At(r, "maintainer_write") /\ Done(r)
      /\ UNCHANGED <<log, accounts, repos, maintainers, faults>>
      /\ profiles' = [profiles EXCEPT ![Actor[c]] = Merge(task[r].row, c)]
  BY Zenon DEF ProfileWrite, At, Applying
<1>1. /\ c \in Commands /\ Actor[c] \in Actors /\ task[r].row \in Profiles /\ Verb[c] = "profile_set"
      /\ Current(c, task[r].row, profiles[Actor[c]])
  BY <1>0, TaskOf, Zenon DEF Carried, Place
<1>2. Merge(task[r].row, c) \in Profiles
  BY <1>1, Zenon DEF Merge, Profiles
<1>3. TablesOK'
  BY <1>0, <1>2, Zenon DEF Inv, TablesOK
<1>4. \A s \in Relays \ {r} : task'[s] = task[s]
  BY <1>0, DoneMoves, Zenon
<1>5. \A k \in Owned : OwnerKnown(k) => OwnerKnown(k)'
  BY <1>0, <1>4, OwnersStay, Zenon
<1>6. Wrote(r)
  BY <1>0, <1>1, <1>5, Zenon DEF Wrote, Inv, TablesOK
<1>7. Lost(r)
  <2>1. ASSUME NEW a \in Actors, NEW f \in Fields, profiles'[a][f] # profiles[a][f]
        PROVE  profiles'[a][f] = c \/ \E d \in Commands : SameRow(c, d) /\ {c, d} \in overlap
    <3>1. a = Actor[c] /\ profiles'[a] = Merge(task[r].row, c)
      BY <1>0, <1>1, <2>1, Zenon DEF Inv, TablesOK
    <3>2. CASE f \in Sets[c]
      BY <3>1, <3>2, Zenon DEF Merge
    <3>3. CASE f \notin Sets[c]
      BY <1>1, <2>1, <3>1, <3>3, Zenon DEF Merge, Current, Beset
    <3> QED BY <3>2, <3>3, Zenon
  <2> QED BY <1>0, <2>1, Zenon DEF Lost, Explained
<1>8. OwnerIsMaintainer'
  BY <1>0, <1>5, Zenon DEF Inv, OwnerIsMaintainer, OwnerKnown
<1> QED BY <1>0, <1>3, <1>6, <1>7, <1>8, DoneMoves, Zenon

LEMMA RepoWriteKeeps ==
    ASSUME Inv, NEW r \in Relays, RepoWrite(r)
    PROVE  Inv' /\ Lost(r)
<1> DEFINE c == Cmd(r)
<1>0. At(r, "repo_write") /\ Applying(r) /\ ~At(r, "outcome") /\ ~At(r, "maintainer_write")
      /\ UNCHANGED <<log, accounts, profiles, maintainers, faults>>
  BY Zenon DEF RepoWrite, At, Applying
<1>1. /\ task[r] \in Tasks /\ c \in Commands /\ log[c] = "accepted" /\ Truth(r) /\ Carried(r)
      /\ Verb[c] \in {"repo_create", "repo_update"} /\ Target[c] \in Names
  BY <1>0, TaskOf, Zenon DEF Place, At
<1>2. RepoKey(c) \in Owned
  BY <1>1, KeyIsOwned, Zenon
<1>3. ASSUME NEW row \in [Fields -> Commands], repos' = [repos EXCEPT ![RepoKey(c)] = row]
      PROVE  /\ TablesOK'
             /\ \A k \in Owned : repos'[k] = IF k = RepoKey(c) THEN row ELSE repos[k]
  BY <1>0, <1>2, <1>3, Zenon DEF Inv, TablesOK
<1>4. CASE Verb[c] = "repo_create"
  <2> DEFINE row == [f \in Fields |-> c]
             t == [task[r] EXCEPT !.pc = "maintainer_write"]
  <2>1. row \in [Fields -> Commands] /\ repos' = [repos EXCEPT ![RepoKey(c)] = row]
        /\ Goto(r, "maintainer_write") /\ UNCHANGED history
    BY <1>1, <1>4, Zenon DEF RepoWrite
  <2>2. t \in Tasks /\ t.cmd = c /\ t.pc = "maintainer_write"
    BY <1>1, Zenon DEF Tasks, Pcs, Cmd
  <2>3. task' = [task EXCEPT ![r] = t]
    BY <2>1, Zenon DEF Goto, Inv
  <2> HIDE DEF t
  <2>4. task'[r] = t /\ task' \in [Relays -> Tasks] /\ \A s \in Relays \ {r} : task'[s] = task[s]
    BY <2>2, <2>3, Zenon DEF Inv
  <2>5. Moved(r)
    BY <1>0, <2>1, <2>2, <2>4, Zenon DEF Moved, Inv, Applying, At, Cmd, history
  <2>6. \A k \in Owned : OwnerKnown(k) => OwnerKnown(k)'
    BY <1>0, <2>4, OwnersStay, Zenon
  <2>7. TablesOK' /\ \A k \in Owned : repos'[k] = IF k = RepoKey(c) THEN row ELSE repos[k]
    BY <1>3, <2>1, Zenon
  <2>8. Wrote(r)
    BY <1>0, <1>4, <2>6, <2>7, Zenon DEF Wrote
  <2>9. Working(r)'
    BY <1>0, <1>1, <1>4, <2>1, <2>2, <2>4, Zenon
    DEF Working, Applying, At, Cmd, Place, Truth, Carried, Updating, history
  <2>10. OwnerIsMaintainer'
    <3>1. ASSUME NEW k \in Owned, repos'[k] # NoRow PROVE OwnerKnown(k)'
      <4>1. CASE k = RepoKey(c)
        BY <1>4, <2>2, <2>4, <4>1, Zenon DEF OwnerKnown, At, Cmd, RepoKey
      <4>2. CASE k # RepoKey(c)
        BY <2>6, <2>7, <3>1, <4>2, Zenon DEF Inv, OwnerIsMaintainer, OwnerKnown
      <4> QED BY <4>1, <4>2, Zenon
    <3> QED BY <3>1, Zenon DEF OwnerIsMaintainer, OwnerKnown
  <2>11. Lost(r)
    BY <1>0, <2>7, Zenon DEF Lost, Explained
  <2> QED BY <2>5, <2>7, <2>8, <2>9, <2>10, <2>11, Assemble, Zenon
<1>5. CASE Verb[c] = "repo_update"
  <2> DEFINE row == Merge(task[r].row, c)
  <2>1. /\ task[r].row \in [Fields -> Commands] /\ OwnerKnown(RepoKey(c))
        /\ Current(c, task[r].row, repos[RepoKey(c)])
    BY <1>0, <1>1, <1>5, Zenon DEF Carried, Updating, At
  <2>2. row \in [Fields -> Commands]
    BY <1>1, <2>1, Zenon DEF Merge
  <2>3. repos' = [repos EXCEPT ![RepoKey(c)] = row] /\ Done(r)
    BY <1>5, Zenon DEF RepoWrite
  <2>4. TablesOK' /\ \A k \in Owned : repos'[k] = IF k = RepoKey(c) THEN row ELSE repos[k]
    BY <1>3, <2>2, <2>3, Zenon
  <2>5. \A s \in Relays \ {r} : task'[s] = task[s]
    BY <1>0, <2>3, DoneMoves, Zenon
  <2>6. \A k \in Owned : OwnerKnown(k) => OwnerKnown(k)'
    BY <1>0, <2>5, OwnersStay, Zenon
  <2>7. Wrote(r)
    BY <1>0, <1>5, <2>4, <2>6, Zenon DEF Wrote
  <2>8. OwnerIsMaintainer'
    BY <1>2, <2>1, <2>4, <2>6, Zenon DEF Inv, OwnerIsMaintainer, OwnerKnown
  <2>9. Lost(r)
    <3>1. ASSUME NEW k \in Owned, NEW f \in Fields, repos'[k][f] # repos[k][f]
          PROVE  repos'[k][f] = c \/ \E d \in Commands : SameRow(c, d) /\ {c, d} \in overlap
      <4>1. k = RepoKey(c) /\ repos'[k] = row
        BY <2>4, <3>1, Zenon
      <4>2. CASE f \in Sets[c]
        BY <4>1, <4>2, Zenon DEF Merge
      <4>3. CASE f \notin Sets[c]
        BY <2>1, <3>1, <4>1, <4>3, Zenon DEF Merge, Current, Beset
      <4> QED BY <4>2, <4>3, Zenon
    <3> QED BY <1>0, <3>1, Zenon DEF Lost, Explained
  <2> QED BY <1>0, <2>3, <2>4, <2>7, <2>8, <2>9, DoneMoves, Zenon
<1> QED BY <1>1, <1>4, <1>5, Zenon

LEMMA MaintainerWriteKeeps ==
    ASSUME Inv, NEW r \in Relays, MaintainerWrite(r)
    PROVE  Inv' /\ Lost(r)
<1> DEFINE c == Cmd(r)
           whom == IF Verb[c] = "repo_create" THEN Actor[c] ELSE Whom[c]
           state == IF Verb[c] = "maintainer_remove" THEN "inactive" ELSE "active"
<1>0. At(r, "maintainer_write") /\ Applying(r) /\ ~At(r, "outcome") /\ Done(r)
      /\ UNCHANGED <<log, accounts, profiles, repos, faults>>
      /\ maintainers' = [maintainers EXCEPT ![RepoKey(c)][whom] = state]
  BY Zenon DEF MaintainerWrite, At, Applying
<1>1. c \in Commands /\ Actor[c] \in Actors /\ Whom[c] \in Actors /\ Target[c] \in Names
  BY <1>0, TaskOf, Zenon DEF Place, At
<1>2. RepoKey(c) \in Owned /\ RepoKey(c)[1] = Actor[c] /\ whom \in Actors
  BY <1>1, KeyIsOwned, Zenon
<1>3. maintainers \in [Owned -> [Actors -> {"none", "active", "inactive"}]]
  BY Zenon DEF Inv, TablesOK
<1>4. /\ maintainers' \in [Owned -> [Actors -> {"none", "active", "inactive"}]]
      /\ \A k \in Owned, a \in Actors :
            maintainers'[k][a] = IF k = RepoKey(c) /\ a = whom THEN state ELSE maintainers[k][a]
  BY <1>0, <1>2, <1>3, Zenon
<1>5. TablesOK'
  BY <1>0, <1>4, Zenon DEF Inv, TablesOK
<1>6. Moved(r) /\ \A s \in Relays \ {r} : task'[s] = task[s]
  BY <1>0, DoneMoves, Zenon
<1>7. ASSUME NEW k \in Owned, OwnerKnown(k) PROVE OwnerKnown(k)'
  <2>0. k[1] \in Actors
    BY Zenon DEF Owned
  <2>1. CASE faults > 0
    BY <1>0, <2>1, Zenon DEF OwnerKnown
  <2>2. CASE maintainers[k][k[1]] # "none"
    BY <1>4, <2>0, <2>2, Zenon DEF OwnerKnown
  <2>3. ASSUME NEW q \in Relays, At(q, "maintainer_write"), Verb[Cmd(q)] = "repo_create",
               RepoKey(Cmd(q)) = k
        PROVE  OwnerKnown(k)'
    <3>1. CASE q = r
      BY <1>2, <1>4, <2>0, <2>3, <3>1, Zenon DEF OwnerKnown
    <3>2. CASE q # r
      BY <1>6, <2>3, <3>2, Zenon DEF OwnerKnown, At, Cmd, RepoKey
    <3> QED BY <3>1, <3>2, Zenon
  <2> QED BY <1>7, <2>1, <2>2, <2>3, Zenon DEF OwnerKnown
<1>8. Wrote(r) /\ Lost(r)
  BY <1>0, <1>7, Zenon DEF Wrote, Lost, Explained
<1>9. OwnerIsMaintainer'
  BY <1>0, <1>7, Zenon DEF Inv, OwnerIsMaintainer, OwnerKnown
<1> QED BY <1>0, <1>5, <1>8, <1>9, DoneMoves, Zenon

-----------------------------------------------------------------------------
(***************************************************************************)
(* Tasks begin and end while the tables stay as they are.                  *)
(***************************************************************************)
LEMMA StaysWorking ==
    ASSUME Inv, NEW s \in Relays, Applying(s), task'[s] = task[s], log'[Cmd(s)] = log[Cmd(s)],
           UNCHANGED <<tables, effected>>, overlap \subseteq overlap',
           \A k \in Owned : OwnerKnown(k) => OwnerKnown(k)'
    PROVE  Working(s)'
<1>1. Cmd(s) \in Commands /\ log[Cmd(s)] = "accepted" /\ Place(s) /\ Truth(s) /\ Carried(s)
  BY TaskOf, Zenon
<1>2. Cmd(s)' = Cmd(s) /\ \A pc : At(s, pc)' <=> At(s, pc)
  BY Zenon DEF Cmd, At
<1>3. Place(s)' /\ Truth(s)'
  BY <1>1, <1>2, Zenon DEF Place, Truth
<1>4. Carried(s)'
  <2>1. \A c, row, stored : Current(c, row, stored) =>
            \A f \in Fields : row[f] = stored[f] \/ \E d \in Commands : SameRow(c, d) /\ {c, d} \in overlap'
    BY Zenon DEF Current, Beset
  <2>2. ASSUME At(s, "profile_write")
        PROVE  task[s].row \in Profiles /\ Current(Cmd(s), task[s].row, profiles[Actor[Cmd(s)]])'
    BY <1>1, <1>2, <2>1, <2>2, Zenon DEF Carried, Current, Beset, tables
  <2>3. ASSUME Updating(s)
        PROVE  /\ task[s].row \in [Fields -> Commands]
               /\ Current(Cmd(s), task[s].row, repos[RepoKey(Cmd(s))])'
               /\ OwnerKnown(RepoKey(Cmd(s)))'
    <3>1. PICK k : k = RepoKey(Cmd(s))
      OBVIOUS
    <3>2. k \in Owned
      BY <1>1, <2>3, <3>1, KeyIsOwned, Zenon DEF Place, Updating
    <3>3. OwnerKnown(k)'
      BY <1>1, <2>3, <3>1, <3>2, Zenon DEF Carried
    <3>4. RepoKey(Cmd(s))' = k
      BY <1>2, <3>1, Zenon DEF RepoKey
    <3>5. OwnerKnown(RepoKey(Cmd(s)))'
      BY <3>3, <3>4, Zenon DEF OwnerKnown
    <3>6. Current(Cmd(s), task[s].row, repos[RepoKey(Cmd(s))])'
      BY <1>1, <1>2, <2>1, <2>3, <3>1, <3>4, Zenon DEF Carried, Current, Beset, tables
    <3> QED BY <1>1, <2>3, <3>5, <3>6, Zenon DEF Carried
  <2> QED BY <1>1, <1>2, <2>2, <2>3, Zenon DEF Carried, Updating, At, Cmd
<1> QED BY <1>1, <1>2, <1>3, <1>4, Zenon DEF Working

LEMMA IdleIsTask == Idle \in Tasks /\ Idle.pc = "idle" /\ Idle.cmd = NoCommand
  BY Zenon DEF Idle, Tasks, Pcs

\* A task ends: its outcome is logged, or a fault keeps it from being logged.
LEMMA EndKeeps ==
    ASSUME Inv, NEW r \in Relays, At(r, "outcome"), task' = [task EXCEPT ![r] = Idle],
           log' = [log EXCEPT ![Cmd(r)] = task[r].outcome] \/ log' = log,
           UNCHANGED <<tables, history>>, faults' \in 0 .. MaxFaults, faults' >= faults
    PROVE  Inv'
<1>1. /\ Applying(r) /\ Cmd(r) \in Commands /\ log[Cmd(r)] = "accepted" /\ Truth(r)
      /\ task[r].outcome \in Outcomes
  BY TaskOf, Zenon DEF At, Applying, Truth
<1>2. task' \in [Relays -> Tasks] /\ task'[r] = Idle /\ \A s \in Relays \ {r} : task'[s] = task[s]
  BY IdleIsTask, Zenon DEF Inv
<1>3. ~Applying(r)'
  BY <1>2, IdleIsTask, Zenon DEF Applying, At
<1>4. TablesOK'
  BY <1>1, Zenon DEF Inv, TablesOK, tables
<1>5. \A k \in Owned : OwnerKnown(k) => OwnerKnown(k)'
  <2> SUFFICES ASSUME NEW k \in Owned, OwnerKnown(k) PROVE OwnerKnown(k)'
    OBVIOUS
  <2>1. CASE maintainers[k][k[1]] # "none"
    BY <2>1, Zenon DEF OwnerKnown, tables
  <2>2. CASE faults > 0
    BY <2>2, DispatchAssumption DEF OwnerKnown, Inv, TablesOK
  <2>3. ASSUME NEW q \in Relays, At(q, "maintainer_write"), Verb[Cmd(q)] = "repo_create",
               RepoKey(Cmd(q)) = k
        PROVE  OwnerKnown(k)'
    <3>1. q # r BY <2>3, Zenon DEF At
    <3> QED BY <1>2, <2>3, <3>1, Zenon DEF OwnerKnown, At, Cmd, RepoKey
  <2> QED BY <2>1, <2>2, <2>3, Zenon DEF OwnerKnown
<1>6. ASSUME NEW s \in Relays PROVE Working(s)'
  <2>1. CASE s = r \/ ~Applying(s)
    BY <1>2, <1>3, <2>1, Zenon DEF Working, Applying, At
  <2>2. CASE s # r /\ Applying(s)
    <3>1. Cmd(s) # Cmd(r) /\ Cmd(s) \in Commands
      BY <1>1, <2>2, TaskOf, Zenon DEF Inv, Beside
    <3>2. log'[Cmd(s)] = log[Cmd(s)]
      BY <1>1, <3>1, Zenon DEF Inv, TablesOK
    <3> QED BY <1>2, <1>5, <2>2, <3>2, StaysWorking, Zenon DEF history
  <2> QED BY <2>1, <2>2, Zenon
<1>7. ASSUME NEW s \in Relays, NEW q \in Relays PROVE Beside(s, q)'
  <2>1. Beside(s, q) BY Zenon DEF Inv
  <2> QED BY <1>2, <1>3, <2>1, Zenon DEF Beside, Applying, At, Cmd, history
<1>8. Effects'
  BY <1>1, Zenon DEF Inv, Effects, OutcomeIsTrue, TablesOK, Truth, history, Outcomes
<1>9. OwnerIsMaintainer'
  BY <1>5, Zenon DEF Inv, OwnerIsMaintainer, OwnerKnown, tables
<1> QED BY <1>2, <1>4, <1>6, <1>7, <1>8, <1>9, Zenon DEF Inv

LEMMA UpdateOutcomeKeeps ==
    ASSUME Inv, NEW r \in Relays, UpdateOutcome(r)
    PROVE  Inv'
<1>1. faults' \in 0 .. MaxFaults /\ faults' >= faults
  BY DispatchAssumption DEF UpdateOutcome, Inv, TablesOK
<1> QED BY <1>1, EndKeeps, Zenon DEF UpdateOutcome

\* A command that cannot be applied any further is answered "internal".
LEMMA FailKeeps ==
    ASSUME Inv, NEW r \in Relays, Fail(r)
    PROVE  Inv'
<1>0. /\ Applying(r) /\ UNCHANGED <<log, tables, history>>
      /\ faults' \in 0 .. MaxFaults /\ faults' >= faults /\ faults' > 0
  BY DispatchAssumption DEF Fail, Inv, TablesOK
<1>1. CASE At(r, "outcome")
  BY <1>0, <1>1, EndKeeps, Zenon DEF Fail
<1>2. CASE ~At(r, "outcome")
  <2> DEFINE t == [task[r] EXCEPT !.pc = "outcome", !.outcome = "internal"]
  <2>1. task[r] \in Tasks /\ Cmd(r) \in Commands /\ log[Cmd(r)] = "accepted"
    BY <1>0, TaskOf, Zenon
  <2>2. t \in Tasks /\ t.cmd = Cmd(r) /\ t.pc = "outcome" /\ t.outcome = "internal"
    BY <2>1, Zenon DEF Tasks, Pcs, Outcomes, Cmd
  <2>3. task' = [task EXCEPT ![r] = t]
    BY <1>2, Zenon DEF Fail, Decide, Inv
  <2> HIDE DEF t
  <2>4. task'[r] = t /\ task' \in [Relays -> Tasks] /\ \A s \in Relays \ {r} : task'[s] = task[s]
    BY <2>2, <2>3, Zenon DEF Inv
  <2>5. Moved(r)
    BY <1>0, <2>2, <2>4, Zenon DEF Moved, Applying, At, Cmd, Inv, history
  <2>6. \A k \in Owned : OwnerKnown(k)'
    BY <1>0, Zenon DEF OwnerKnown
  <2>7. Wrote(r) /\ OwnerIsMaintainer'
    BY <1>0, <2>6, Zenon DEF Wrote, OwnerIsMaintainer, OwnerKnown, tables
  <2>8. Working(r)'
    BY <1>0, <2>1, <2>2, <2>4, Zenon
    DEF Working, Applying, At, Cmd, Place, Truth, Carried, Updating, Outcomes
  <2>9. TablesOK'
    BY <1>0, Zenon DEF Inv, TablesOK, tables
  <2> QED BY <2>5, <2>7, <2>8, <2>9, Assemble, Zenon
<1> QED BY <1>1, <1>2, Zenon

LEMMA RestartKeeps ==
    ASSUME Inv, Restart
    PROVE  Inv'
<1>0. /\ UNCHANGED <<log, tables, history>> /\ task' = [r \in Relays |-> Idle]
      /\ faults' \in 0 .. MaxFaults /\ faults' > 0
  BY DispatchAssumption DEF Restart, Inv, TablesOK
<1>1. task' \in [Relays -> Tasks] /\ \A r \in Relays : ~Applying(r)'
  BY <1>0, IdleIsTask, Zenon DEF Applying, At
<1>2. TablesOK' /\ Effects' /\ OwnerIsMaintainer'
  BY <1>0, Zenon DEF Inv, TablesOK, Effects, OutcomeIsTrue, OwnerIsMaintainer, tables, history
<1> QED BY <1>1, <1>2, Zenon DEF Inv, Working, Beside

\* A new command: nobody works on it, and everyone who works now overlaps it.
LEMMA BeginKeeps ==
    ASSUME Inv, NEW r \in Relays, NEW c \in Commands, At(r, "idle"), c \notin Logged, Begin(r, c)
    PROVE  Inv'
<1> DEFINE o == IF Verb[c] = "accepted_only" /\ Target[c] # NoName THEN "ok" ELSE "invalid"
           t == [pc |-> FirstCall(c), cmd |-> c, row |-> NoRow, outcome |-> o]
<1>0. /\ log' = [log EXCEPT ![c] = "accepted"] /\ task' = [task EXCEPT ![r] = t]
      /\ overlap' = overlap \union {{c, Cmd(q)} : q \in {x \in Relays : Applying(x)}}
      /\ UNCHANGED <<tables, faults, effected>> /\ ~Applying(r)
  BY Zenon DEF Begin, Applying
<1>1. log[c] = "none" /\ c \notin effected
  BY Zenon DEF Logged, Inv, Effects
<1>2. /\ FirstCall(c) \in {"account_read", "profile_read", "repo_read", "maintainers_read", "outcome"}
      /\ FirstCall(c) = "account_read" =>
            Verb[c] \in {"account_create", "account_delete", "account_status", "account_invalid"}
      /\ FirstCall(c) = "repo_read" => Verb[c] \in {"repo_create", "repo_update"} /\ Target[c] # NoName
      /\ FirstCall(c) = "maintainers_read" =>
            /\ Verb[c] \in {"maintainer_add", "maintainer_remove", "maintainer_invalid"}
            /\ Target[c] # NoName
  BY Zenon DEF FirstCall
<1>3. Target[c] # NoName => Target[c] \in Names
  BY DispatchAssumption, Zenon
<1>4. t \in Tasks /\ t.pc = FirstCall(c) /\ t.cmd = c /\ t.outcome = o
  BY <1>2, Zenon DEF Tasks, Pcs, Outcomes
<1> HIDE DEF t
<1>5. task' \in [Relays -> Tasks] /\ task'[r] = t /\ \A s \in Relays \ {r} : task'[s] = task[s]
  BY <1>0, <1>4, Zenon DEF Inv
<1>6. TablesOK'
  BY <1>0, Zenon DEF Inv, TablesOK, tables
<1>7. \A k \in Owned : OwnerKnown(k) => OwnerKnown(k)'
  <2>1. ~At(r, "maintainer_write")
    BY Zenon DEF At
  <2> QED BY <1>0, <1>5, <2>1, OwnersStay, Zenon DEF tables
<1>8. ASSUME NEW s \in Relays, s # r, Applying(s)
      PROVE  Cmd(s) \in Commands /\ Cmd(s) # c /\ log'[Cmd(s)] = log[Cmd(s)]
  BY <1>0, <1>1, <1>8, TaskOf, Zenon DEF Inv, TablesOK
<1>9. ASSUME NEW s \in Relays PROVE Working(s)'
  <2>1. CASE s = r
    <3>1. o = "ok" => Verb[c] \notin Writing
      BY Zenon DEF Writing
    <3>2. log'[c] = "accepted" /\ effected' = effected
      BY <1>0, Zenon DEF Inv, TablesOK
    <3> QED BY <1>1, <1>2, <1>3, <1>4, <1>5, <2>1, <3>1, <3>2, ZenonT(30)
            DEF Working, Applying, At, Cmd, Place, Truth, Carried, Updating, Outcomes
  <2>2. CASE s # r /\ ~Applying(s)
    BY <1>5, <2>2, Zenon DEF Working, Applying, At
  <2>3. CASE s # r /\ Applying(s)
    BY <1>0, <1>5, <1>7, <1>8, <2>3, StaysWorking, Zenon
  <2> QED BY <2>1, <2>2, <2>3, Zenon
<1>10. ASSUME NEW s \in Relays, NEW q \in Relays PROVE Beside(s, q)'
  <2>1. Beside(s, q) BY Zenon DEF Inv
  <2>2. \A x \in Relays \ {r} : (Applying(x)' <=> Applying(x)) /\ Cmd(x)' = Cmd(x)
    BY <1>5, Zenon DEF Applying, At, Cmd
  <2>3. Cmd(r)' = c
    BY <1>4, <1>5, Zenon DEF Cmd
  <2>4. ASSUME NEW x \in Relays, x # r, Applying(x)
        PROVE  Cmd(x) # c /\ {c, Cmd(x)} \in overlap' /\ {Cmd(x), c} \in overlap'
    BY <1>0, <1>8, <2>4, Zenon
  <2> QED BY <1>0, <2>1, <2>2, <2>3, <2>4, Zenon DEF Beside
<1>11. Effects'
  BY <1>0, <1>1, Zenon DEF Inv, Effects, OutcomeIsTrue, TablesOK
<1>12. OwnerIsMaintainer'
  BY <1>0, <1>7, Zenon DEF Inv, OwnerIsMaintainer, OwnerKnown, tables
<1> QED BY <1>5, <1>6, <1>9, <1>10, <1>11, <1>12, Zenon DEF Inv

-----------------------------------------------------------------------------
LEMMA InitInv == Init => Inv
<1> SUFFICES ASSUME Init PROVE Inv
  OBVIOUS
<1>1. task \in [Relays -> Tasks] /\ \A r \in Relays : ~Applying(r)
  BY IdleIsTask, Zenon DEF Init, Applying, At
<1>2. Unset \in Profiles
  BY Zenon DEF Unset, Profiles
<1>3. TablesOK
  BY <1>2, DispatchAssumption DEF Init, TablesOK
<1>4. Effects /\ OwnerIsMaintainer
  BY Zenon DEF Init, Effects, OutcomeIsTrue, OwnerIsMaintainer
<1> QED BY <1>1, <1>3, <1>4, Zenon DEF Inv, Working, Beside

LEMMA NextInv == Inv /\ [Next]_vars => Inv'
<1> SUFFICES ASSUME Inv, [Next]_vars PROVE Inv'
  OBVIOUS
<1>1. ASSUME NEW r \in Relays, ApplyStep(r) PROVE Inv'
  BY <1>1, AccountReadKeeps, AccountWriteKeeps, ProfileReadKeeps, ProfileWriteKeeps, RepoReadKeeps, Zenon,
     MaintainersReadKeeps, RepoWriteKeeps, MaintainerWriteKeeps, UpdateOutcomeKeeps DEF ApplyStep
<1>2. CASE UNCHANGED vars
  <2>1. /\ TablesOK' /\ task' \in [Relays -> Tasks] /\ Effects' /\ OwnerIsMaintainer'
        /\ \A k \in Owned : OwnerKnown(k) => OwnerKnown(k)'
    BY <1>2, Zenon DEF vars, tables, history, Inv, TablesOK, Effects, OutcomeIsTrue, OwnerIsMaintainer,
       OwnerKnown, At, Cmd
  <2>2. ASSUME NEW r \in Relays PROVE Working(r)'
    <3>1. CASE Applying(r)
      BY <1>2, <2>1, <3>1, StaysWorking, Zenon DEF vars, history
    <3>2. CASE ~Applying(r)
      BY <1>2, <3>2, Zenon DEF Working, Applying, At, vars
    <3> QED BY <3>1, <3>2, Zenon
  <2>3. \A r, q \in Relays : Beside(r, q)'
    BY <1>2, Zenon DEF Inv, Beside, Applying, At, Cmd, vars, history
  <2> QED BY <2>1, <2>2, <2>3, Zenon DEF Inv
<1>3. ASSUME NEW r \in Relays, NEW c \in Commands, Execute(r, c) PROVE Inv'
  <2>1. CASE c \in Logged
    BY <1>2, <1>3, <2>1, Zenon DEF Execute
  <2>2. CASE c \notin Logged
    BY <1>3, <2>2, BeginKeeps, Zenon DEF Execute
  <2> QED BY <2>1, <2>2, Zenon
<1> QED BY <1>1, <1>2, <1>3, FailKeeps, RestartKeeps, Zenon DEF Next

LEMMA Invariance == Spec => []Inv
  BY InitInv, NextInv, PTL DEF Spec

\* However many relays send a command and however often, one task executes it and
\* none does once its outcome is logged (insert_command_log).
THEOREM CommandsAreAppliedOnce == Spec => []AppliedOnce
<1>1. Inv => AppliedOnce
  BY Zenon DEF Inv, AppliedOnce, Working, Beside
<1> QED BY <1>1, Invariance, PTL

\* The command log tells what was written (update_command_outcome).
THEOREM OutcomesAreTrue == Spec => []OutcomeIsTrue
<1>1. Inv => OutcomeIsTrue
  BY Zenon DEF Inv, Effects
<1> QED BY <1>1, Invariance, PTL

\* Without faults, a repository that is not being created has had its owner as a
\* maintainer (apply_repo_create).
THEOREM OwnersAreMaintainers == Spec => []OwnerIsMaintainer
<1>1. Inv => OwnerIsMaintainer
  BY Zenon DEF Inv
<1> QED BY <1>1, Invariance, PTL

\* A value of a profile or a repository gives way only to a command that sets it,
\* or to one that overlapped another on the same row (apply_profile, apply_repo_update).
THEOREM ValuesAreLostByOverlap == Spec => LostOnlyByOverlap
<1> DEFINE Step == \A r \in Relays : Applying(r) /\ task'[r] # task[r] => Lost(r)
<1>1. Inv /\ [Next]_vars => [Step]_vars
  <2> SUFFICES ASSUME Inv, Next, NEW r \in Relays, Applying(r), task'[r] # task[r]
               PROVE  Lost(r)
    OBVIOUS
  <2>1. CASE UNCHANGED tables
    BY <2>1, Zenon DEF Lost, Explained, tables
  <2>2. ASSUME NEW q \in Relays, AccountWrite(q) \/ ProfileWrite(q) \/ RepoWrite(q) \/ MaintainerWrite(q)
        PROVE  Lost(r)
    <3>1. Lost(q)
      BY <2>2, AccountWriteKeeps, ProfileWriteKeeps, RepoWriteKeeps, MaintainerWriteKeeps, Zenon
    <3>2. q = r
      BY <2>2, Zenon DEF Inv, AccountWrite, ProfileWrite, RepoWrite, MaintainerWrite, Done, Decide, Goto
    <3> QED BY <3>1, <3>2, Zenon
  <2>3. ASSUME NEW q \in Relays, AccountRead(q) \/ ProfileRead(q) \/ RepoRead(q) \/ MaintainersRead(q)
                                 \/ UpdateOutcome(q) \/ Fail(q)
        PROVE  UNCHANGED tables
    BY <2>3, Zenon DEF AccountRead, ProfileRead, RepoRead, MaintainersRead, UpdateOutcome, Fail
  <2>4. ASSUME NEW q \in Relays, NEW c \in Commands, Execute(q, c)
        PROVE  UNCHANGED tables
    BY <2>4, Zenon DEF Execute, Begin, vars
  <2>5. Restart => UNCHANGED tables
    BY Zenon DEF Restart
  <2> QED BY <2>1, <2>2, <2>3, <2>4, <2>5, Zenon DEF Next, ApplyStep
<1>2. [Step]_vars => [\A r \in Relays : (Applying(r) /\ task'[r] # task[r]) =>
          /\ \A a \in Actors : Explained(Cmd(r), profiles[a], profiles'[a])
          /\ \A k \in Owned : repos[k] # NoRow => Explained(Cmd(r), repos[k], repos'[k])]_vars
  BY Zenon DEF Lost
<1> HIDE DEF Step
<1> QED BY <1>1, <1>2, Invariance, PTL DEF Spec, LostOnlyByOverlap

\* The tables and the tasks keep their types.
THEOREM DispatchTypes == Spec => []TypeOK
<1>1. Inv => TypeOK
  BY Zenon DEF Inv, TypeOK, TablesOK, Accounts, Profiles, Tasks, Working, Truth, Carried, Applying, At, Cmd
<1> QED BY <1>1, Invariance, PTL
-----------------------------------------------------------------------------
(***************************************************************************)
(* Stranded commands.  A task lets go of a command only after it has       *)
(* logged an outcome, or in a fault; all tasks together hold no more       *)
(* commands than there are relays.                                         *)
(***************************************************************************)
Stranded == {c \in Logged : log[c] = "accepted" /\ \A r \in Relays : Cmd(r) # c}
InHand == {Cmd(r) : r \in Relays}
Resting == \A r \in Relays : At(r, "idle") => Cmd(r) = NoCommand

\* A task goes on with the command it has.
GoesOnWith(r) ==
    /\ \A s \in Relays : Cmd(s)' = Cmd(s)
    /\ Applying(r)' /\ \A s \in Relays \ {r} : task'[s] = task[s]

LEMMA CommandIsKept ==
    ASSUME Inv, NEW r \in Relays, NEW t, task' = [task EXCEPT ![r] = t], t.cmd = Cmd(r), t.pc # "idle"
    PROVE  GoesOnWith(r)
<1>1. task'[r] = t /\ \A s \in Relays \ {r} : task'[s] = task[s]
  BY Zenon DEF Inv
<1> QED BY <1>1, Zenon DEF GoesOnWith, Applying, At, Cmd

LEMMA DecideGoesOn ==
    ASSUME Inv, NEW r \in Relays, NEW o, Decide(r, o)
    PROVE  GoesOnWith(r)
<1> DEFINE t == [task[r] EXCEPT !.pc = "outcome", !.outcome = o]
<1>1. task[r] \in Tasks
  BY Zenon DEF Inv
<1>2. t.cmd = Cmd(r) /\ t.pc = "outcome"
  BY <1>1, Zenon DEF Tasks, Cmd
<1>3. task' = [task EXCEPT ![r] = t]
  BY Zenon DEF Decide
<1> HIDE DEF t
<1> QED BY <1>2, <1>3, CommandIsKept, Zenon

LEMMA CallGoesOn ==
    ASSUME Inv, NEW r \in Relays, NEW pc, NEW row, pc # "idle", Goto(r, pc) \/ Keep(r, pc, row)
    PROVE  GoesOnWith(r)
<1> DEFINE t == [task[r] EXCEPT !.pc = pc]
           u == [task[r] EXCEPT !.pc = pc, !.row = row]
<1>1. task[r] \in Tasks
  BY Zenon DEF Inv
<1>2. t.cmd = Cmd(r) /\ t.pc = pc /\ u.cmd = Cmd(r) /\ u.pc = pc
  BY <1>1, Zenon DEF Tasks, Cmd
<1>3. task' = [task EXCEPT ![r] = t] \/ task' = [task EXCEPT ![r] = u]
  BY Zenon DEF Goto, Keep
<1> HIDE DEF t, u
<1> QED BY <1>2, <1>3, CommandIsKept, Zenon

LEMMA ApplyGoesOn ==
    ASSUME Inv, NEW r \in Relays, ApplyStep(r), ~UpdateOutcome(r)
    PROVE  GoesOnWith(r) /\ UNCHANGED <<log, faults>>
<1>1. CASE AccountRead(r)
  <2>1. (\E o : Decide(r, o)) \/ Keep(r, "account_write", accounts[Actor[Cmd(r)]])
    BY <1>1, Zenon DEF AccountRead
  <2> QED BY <1>1, <2>1, DecideGoesOn, CallGoesOn, Zenon DEF AccountRead
<1>2. CASE ProfileRead(r)
  <2>1. (\E o : Decide(r, o)) \/ Keep(r, "profile_write", profiles[Actor[Cmd(r)]])
    BY <1>2, Zenon DEF ProfileRead
  <2> QED BY <1>2, <2>1, DecideGoesOn, CallGoesOn, Zenon DEF ProfileRead
<1>3. CASE RepoRead(r)
  <2>1. \/ \E o : Decide(r, o)
        \/ Goto(r, "repo_write") \/ Keep(r, "maintainers_read", repos[RepoKey(Cmd(r))])
    BY <1>3, Zenon DEF RepoRead
  <2> QED BY <1>3, <2>1, DecideGoesOn, CallGoesOn, Zenon DEF RepoRead
<1>4. CASE MaintainersRead(r)
  <2>1. (\E o : Decide(r, o)) \/ Goto(r, "repo_write") \/ Goto(r, "maintainer_write")
    BY <1>4, Zenon DEF MaintainersRead
  <2> QED BY <1>4, <2>1, DecideGoesOn, CallGoesOn, Zenon DEF MaintainersRead
<1>5. CASE AccountWrite(r) \/ ProfileWrite(r) \/ RepoWrite(r) \/ MaintainerWrite(r)
  <2>1. Decide(r, "ok") \/ Goto(r, "maintainer_write")
    BY <1>5, Zenon DEF AccountWrite, ProfileWrite, RepoWrite, MaintainerWrite, Done
  <2>2. UNCHANGED <<log, faults>>
    BY <1>5, Zenon DEF AccountWrite, ProfileWrite, RepoWrite, MaintainerWrite
  <2> QED BY <2>1, <2>2, DecideGoesOn, CallGoesOn, Zenon
<1> QED BY <1>1, <1>2, <1>3, <1>4, <1>5, Zenon DEF ApplyStep

LEMMA GoingOnStrandsNone ==
    ASSUME Resting, NEW r \in Relays, GoesOnWith(r), log' = log
    PROVE  Resting' /\ Stranded' = Stranded
<1>1. Resting'
  <2> SUFFICES ASSUME NEW s \in Relays, At(s, "idle")' PROVE Cmd(s)' = NoCommand
    BY Zenon DEF Resting
  <2>1. s # r
    BY Zenon DEF GoesOnWith, Applying
  <2> QED BY <2>1, Zenon DEF GoesOnWith, Resting, At
<1> QED BY <1>1, Zenon DEF Stranded, GoesOnWith, Logged

LEMMA BeginStrandsNone ==
    ASSUME Inv, Resting, NEW r \in Relays, NEW c \in Commands, At(r, "idle"), Begin(r, c)
    PROVE  Resting' /\ Stranded' \subseteq Stranded
<1> DEFINE o == IF Verb[c] = "accepted_only" /\ Target[c] # NoName THEN "ok" ELSE "invalid"
           t == [pc |-> FirstCall(c), cmd |-> c, row |-> NoRow, outcome |-> o]
<1>1. log' = [log EXCEPT ![c] = "accepted"] /\ task' = [task EXCEPT ![r] = t]
  BY Zenon DEF Begin
<1>2. task'[r] = t /\ \A s \in Relays \ {r} : task'[s] = task[s]
  BY <1>1, Zenon DEF Inv
<1>3. FirstCall(c) # "idle"
  BY Zenon DEF FirstCall
<1>4. t.cmd = c /\ t.pc = FirstCall(c)
  BY Zenon
<1> HIDE DEF t
<1>5. Resting'
  BY <1>2, <1>3, <1>4, Zenon DEF Resting, At, Cmd
<1>6. \A d \in Commands : d # c => log'[d] = log[d]
  BY <1>1, Zenon DEF Inv, TablesOK
<1>7. Cmd(r) \notin Commands
  BY DispatchAssumption, Zenon DEF Resting
<1>8. ASSUME NEW d \in Stranded' PROVE d \in Stranded
  <2>1. d \in Commands /\ log'[d] = "accepted" /\ \A s \in Relays : Cmd(s)' # d
    BY <1>8, Zenon DEF Stranded, Logged
  <2>2. d # c
    BY <1>2, <1>4, <2>1, Zenon DEF Cmd
  <2>3. \A s \in Relays : Cmd(s) # d
    BY <1>2, <1>7, <2>1, Zenon DEF Cmd
  <2>4. log[d] = "accepted"
    BY <1>6, <2>1, <2>2, Zenon
  <2> QED BY <2>1, <2>3, <2>4, Zenon DEF Stranded, Logged
<1> QED BY <1>5, <1>8, Zenon

LEMMA EndStrands ==
    ASSUME Inv, Resting, NEW r \in Relays, At(r, "outcome"), task' = [task EXCEPT ![r] = Idle],
           log' = [log EXCEPT ![Cmd(r)] = task[r].outcome] \/ log' = log
    PROVE  /\ Resting' /\ Stranded' \subseteq Stranded \union {Cmd(r)}
           /\ log' # log => Stranded' \subseteq Stranded
<1>1. /\ Cmd(r) \in Commands /\ log[Cmd(r)] = "accepted" /\ task[r].outcome \in Outcomes
  BY TaskOf, Zenon DEF At, Applying, Truth
<1>2. task'[r] = Idle /\ \A s \in Relays \ {r} : task'[s] = task[s]
  BY Zenon DEF Inv
<1>3. Resting'
  BY <1>2, IdleIsTask, Zenon DEF Resting, At, Cmd
<1>4. \A d \in Commands : d # Cmd(r) => log'[d] = log[d]
  BY Zenon DEF Inv, TablesOK
<1>5. ASSUME NEW d \in Stranded', d # Cmd(r) PROVE d \in Stranded
  BY <1>2, <1>4, <1>5, Zenon DEF Stranded, Logged, Cmd
<1>6. log' # log => Cmd(r) \notin Stranded'
  <2>1. "accepted" \notin Outcomes
    BY Zenon DEF Outcomes
  <2>2. log' # log => log'[Cmd(r)] \in Outcomes
    BY <1>1, Zenon DEF Inv, TablesOK
  <2> QED BY <2>1, <2>2, Zenon DEF Stranded
<1> QED BY <1>3, <1>5, <1>6, Zenon

\* What a step does to the stranded commands: a fault adds those in hand at most.
LEMMA StrandedMoves ==
    ASSUME Inv, Resting, [Next]_vars
    PROVE  /\ Resting'
           /\ \/ Stranded' \subseteq Stranded /\ faults' = faults
              \/ Stranded' \subseteq Stranded \union InHand /\ faults' = faults + 1
<1>1. ASSUME NEW r \in Relays, ApplyStep(r) PROVE Resting' /\ Stranded' \subseteq Stranded /\ faults' = faults
  <2>1. CASE UpdateOutcome(r)
    <3>1. At(r, "outcome") /\ log' = [log EXCEPT ![Cmd(r)] = task[r].outcome] /\ task' = [task EXCEPT ![r] = Idle]
          /\ faults' = faults
      BY <2>1, Zenon DEF UpdateOutcome
    <3>2. Cmd(r) \in Commands /\ log[Cmd(r)] = "accepted" /\ task[r].outcome \in Outcomes
      BY <3>1, TaskOf, Zenon DEF At, Applying, Truth
    <3>3. log' # log
      BY <3>1, <3>2, Zenon DEF Inv, TablesOK, Outcomes
    <3> QED BY <3>1, <3>3, EndStrands, Zenon
  <2>2. CASE ~UpdateOutcome(r)
    BY <1>1, <2>2, ApplyGoesOn, GoingOnStrandsNone, Zenon
  <2> QED BY <2>1, <2>2, Zenon
<1>2. ASSUME NEW r \in Relays, Fail(r)
      PROVE  Resting' /\ Stranded' \subseteq Stranded \union InHand /\ faults' = faults + 1
  <2>1. Applying(r) /\ faults' = faults + 1 /\ log' = log
        /\ (At(r, "outcome") => task' = [task EXCEPT ![r] = Idle])
        /\ (~At(r, "outcome") => Decide(r, "internal"))
    BY <1>2, Zenon DEF Fail
  <2>2. CASE At(r, "outcome")
    <3>1. Cmd(r) \in InHand
      BY Zenon DEF InHand
    <3> QED BY <2>1, <2>2, <3>1, EndStrands, Zenon
  <2>3. CASE ~At(r, "outcome")
    BY <2>1, <2>3, DecideGoesOn, GoingOnStrandsNone, Zenon
  <2> QED BY <2>2, <2>3, Zenon
<1>3. CASE UNCHANGED vars
  <2>1. log' = log /\ task' = task /\ faults' = faults
    BY <1>3, Zenon DEF vars
  <2> QED BY <2>1, Zenon DEF Resting, Stranded, Logged, At, Cmd
<1>4. ASSUME NEW r \in Relays, NEW c \in Commands, Execute(r, c)
      PROVE  Resting' /\ Stranded' \subseteq Stranded /\ faults' = faults
  <2>1. CASE c \in Logged
    <3>1. log' = log /\ task' = task /\ faults' = faults
      BY <1>4, <2>1, Zenon DEF Execute, vars
    <3> QED BY <3>1, Zenon DEF Resting, Stranded, Logged, At, Cmd
  <2>2. CASE c \notin Logged
    BY <1>4, <2>2, BeginStrandsNone, Zenon DEF Execute, Begin
  <2> QED BY <2>1, <2>2, Zenon
<1>5. CASE Restart
  <2>1. log' = log /\ task' = [r \in Relays |-> Idle] /\ faults' = faults + 1
    BY <1>5, Zenon DEF Restart
  <2>2. Resting'
    BY <2>1, IdleIsTask, Zenon DEF Resting, At, Cmd
  <2>3. Stranded' \subseteq Stranded \union InHand
    BY <2>1, Zenon DEF Stranded, InHand, Logged
  <2> QED BY <2>1, <2>2, <2>3, Zenon
<1> QED BY <1>1, <1>2, <1>3, <1>4, <1>5, Zenon DEF Next

LEMMA InHandIsBounded == IsFiniteSet(InHand) /\ Cardinality(InHand) <= Cardinality(Relays)
<1> DEFINE f == [r \in Relays |-> Cmd(r)]
<1>1. f \in Surjection(Relays, InHand)
  BY Zenon DEF InHand, Surjection
<1>2. IsFiniteSet(Relays)
  BY DispatchAssumption, Zenon
<1> QED BY <1>1, <1>2, FS_Surjection, Zenon

LEMMA GrowsByRelays ==
    ASSUME NEW S, NEW T, NEW U, IsFiniteSet(S), IsFiniteSet(U), T \subseteq S \union U
    PROVE  IsFiniteSet(T) /\ Cardinality(T) <= Cardinality(S) + Cardinality(U)
<1>1. /\ IsFiniteSet(S \cup U)
      /\ Cardinality(S \cup U) = Cardinality(S) + Cardinality(U) - Cardinality(S \cap U)
  BY FS_Union, Zenon
<1>2. IsFiniteSet(T) /\ Cardinality(T) <= Cardinality(S \cup U)
  BY <1>1, FS_Subset, Zenon
<1>3. IsFiniteSet(S \cap U)
  <2>1. S \cap U \subseteq S
    BY Zenon
  <2> QED BY <2>1, FS_Subset, Zenon
<1>4. Cardinality(S) \in Nat /\ Cardinality(T) \in Nat /\ Cardinality(U) \in Nat /\ Cardinality(S \cap U) \in Nat
  BY <1>2, <1>3, FS_CardinalityType, Zenon
<1> QED BY <1>1, <1>2, <1>4

StrandedInv ==
    Resting /\ IsFiniteSet(Stranded) /\ Cardinality(Stranded) <= faults * Cardinality(Relays)

LEMMA StrandedStep == Inv /\ StrandedInv /\ [Next]_vars => StrandedInv'
<1> SUFFICES ASSUME Inv, StrandedInv, [Next]_vars PROVE StrandedInv'
  OBVIOUS
<1>1. Resting /\ IsFiniteSet(Stranded) /\ Cardinality(Stranded) <= faults * Cardinality(Relays)
  BY Zenon DEF StrandedInv
<1>2. /\ Cardinality(Stranded) \in Nat /\ Cardinality(Relays) \in Nat
      /\ IsFiniteSet(InHand) /\ Cardinality(InHand) \in Nat
  BY <1>1, InHandIsBounded, FS_CardinalityType, DispatchAssumption, Zenon
<1>3. faults \in Nat
  BY DispatchAssumption DEF Inv, TablesOK
<1>4. CASE Stranded' \subseteq Stranded /\ faults' = faults
  <2>1. IsFiniteSet(Stranded') /\ Cardinality(Stranded') <= Cardinality(Stranded) /\ Cardinality(Stranded') \in Nat
    BY <1>1, <1>4, FS_Subset, FS_CardinalityType, Zenon
  <2>2. Cardinality(Stranded') <= faults' * Cardinality(Relays)
    <3>1. ASSUME NEW a \in Nat, NEW b \in Nat, NEW n \in Int, a <= b, b <= n PROVE a <= n
      BY <3>1
    <3>2. faults * Cardinality(Relays) \in Int
      BY <1>2, <1>3
    <3>3. Cardinality(Stranded') <= faults * Cardinality(Relays)
      BY <1>1, <1>2, <2>1, <3>1, <3>2, Zenon
    <3> QED BY <1>4, <3>3, Zenon
  <2> QED BY <1>1, <1>4, <2>1, <2>2, StrandedMoves, Zenon DEF StrandedInv
<1>5. CASE Stranded' \subseteq Stranded \union InHand /\ faults' = faults + 1
  <2>1. IsFiniteSet(Stranded') /\ Cardinality(Stranded') <= Cardinality(Stranded) + Cardinality(InHand)
        /\ Cardinality(Stranded') \in Nat
    BY <1>1, <1>2, <1>5, GrowsByRelays, FS_CardinalityType, Zenon
  <2>2. Cardinality(Stranded') <= faults' * Cardinality(Relays)
    <3>1. ASSUME NEW a \in Nat, NEW b \in Nat, NEW h \in Nat, NEW n \in Nat, NEW f \in Nat,
                 a <= b + h, h <= n, b <= f * n
          PROVE  a <= (f + 1) * n
      BY <3>1
    <3>2. Cardinality(Stranded') <= (faults + 1) * Cardinality(Relays)
      BY <1>1, <1>2, <1>3, <2>1, <3>1, InHandIsBounded, Zenon
    <3> QED BY <1>5, <3>2, Zenon
  <2> QED BY <1>1, <2>1, <2>2, StrandedMoves, Zenon DEF StrandedInv
<1> QED BY <1>1, <1>4, <1>5, StrandedMoves, Zenon

\* A command logged as "accepted" that no task executes was stranded by a failed update
\* of its outcome or by a restart, at most one per relay each, for any number of relays
\* and commands (process_event_envelope).
THEOREM StrandedCommandsAreFaults == Spec => []StrandedByFaults
<1>1. Init => StrandedInv
  <2> SUFFICES ASSUME Init PROVE StrandedInv
    OBVIOUS
  <2>1. log = [c \in Commands |-> "none"] /\ task = [r \in Relays |-> Idle] /\ faults = 0
    BY Zenon DEF Init
  <2>2. Resting
    BY <2>1, IdleIsTask, Zenon DEF Resting, At, Cmd
  <2>3. Stranded = {}
    BY <2>1, Zenon DEF Stranded, Logged
  <2>4. IsFiniteSet({}) /\ Cardinality({}) = 0
    BY FS_EmptySet, Zenon
  <2>5. Cardinality(Relays) \in Nat
    BY DispatchAssumption, FS_CardinalityType, Zenon
  <2>6. Cardinality(Stranded) <= faults * Cardinality(Relays)
    BY <2>1, <2>3, <2>4, <2>5
  <2> QED BY <2>2, <2>3, <2>4, <2>6, Zenon DEF StrandedInv
<1>2. StrandedInv => StrandedByFaults
  BY Zenon DEF StrandedInv, Stranded, StrandedByFaults
<1> QED BY <1>1, <1>2, StrandedStep, Invariance, PTL DEF Spec
-----------------------------------------------------------------------------
(***************************************************************************)
(* Who writes what.  A task that changes a table is at the call that       *)
(* changes it, and what it found out before is still so: rows and          *)
(* maintainers do not go away, and a repository that appeared since a      *)
(* create looked for it was made by a create that overlaps it.             *)
(***************************************************************************)
LEMMA WriterActs ==
    ASSUME Inv, [Next]_vars, NEW r \in Relays, Writes(r)
    PROVE  AccountWrite(r) \/ ProfileWrite(r) \/ RepoWrite(r) \/ MaintainerWrite(r)
<1>1. tables' # tables /\ task'[r] # task[r] BY Zenon DEF Writes
<1>2. ASSUME NEW q \in Relays, AccountRead(q) \/ ProfileRead(q) \/ RepoRead(q) \/ MaintainersRead(q)
                               \/ UpdateOutcome(q) \/ Fail(q)
      PROVE  UNCHANGED tables
  BY <1>2, Zenon DEF AccountRead, ProfileRead, RepoRead, MaintainersRead, UpdateOutcome, Fail
<1>3. ASSUME NEW q \in Relays, NEW c \in Commands, Execute(q, c) PROVE UNCHANGED tables
  BY <1>3, Zenon DEF Execute, Begin, vars
<1>4. Restart => UNCHANGED tables BY Zenon DEF Restart
<1>5. ASSUME NEW q \in Relays, AccountWrite(q) \/ ProfileWrite(q) \/ RepoWrite(q) \/ MaintainerWrite(q)
      PROVE  q = r
  BY <1>1, <1>5, Zenon DEF Inv, AccountWrite, ProfileWrite, RepoWrite, MaintainerWrite, Done, Decide, Goto
<1> QED BY <1>1, <1>2, <1>3, <1>4, <1>5, Zenon DEF Next, ApplyStep, vars

\* insert_command_log and update_command_outcome, for any relays and commands, faults
\* included: a logged outcome stays, and a command that has made its last write makes
\* no other.
THEOREM OutcomesStay == Spec => OutcomesAreFinal
<1> DEFINE Final == /\ \A c \in Commands : log[c] \in Outcomes => log'[c] = log[c]
                    /\ \A r \in Relays : Writes(r) => Cmd(r) \notin effected
<1>1. Inv /\ [Next]_vars => Final
  <2> SUFFICES ASSUME Inv, [Next]_vars PROVE Final OBVIOUS
  <2>1. ASSUME NEW c \in Commands, log[c] \in Outcomes PROVE log'[c] = log[c]
    <3>1. CASE log' = log BY <3>1, Zenon
    <3>2. ASSUME NEW q \in Relays, UpdateOutcome(q) PROVE log'[c] = log[c]
      <4>1. At(q, "outcome") /\ log' = [log EXCEPT ![Cmd(q)] = task[q].outcome]
        BY <3>2, Zenon DEF UpdateOutcome
      <4>2. log[Cmd(q)] = "accepted" BY <4>1, TaskOf, Zenon DEF Applying, At
      <4>3. c # Cmd(q) BY <2>1, <4>2, Zenon DEF Outcomes
      <4> QED BY <4>1, <4>3, Zenon DEF Inv, TablesOK
    <3>3. ASSUME NEW q \in Relays, NEW d \in Commands, Execute(q, d) PROVE log'[c] = log[c]
      <4>1. CASE d \in Logged BY <3>3, <4>1, Zenon DEF Execute, vars
      <4>2. CASE d \notin Logged
        <5>1. log' = [log EXCEPT ![d] = "accepted"] /\ log[d] = "none"
          BY <3>3, <4>2, Zenon DEF Execute, Begin, Logged
        <5>2. c # d BY <2>1, <5>1, Zenon DEF Outcomes
        <5> QED BY <5>1, <5>2, Zenon DEF Inv, TablesOK
      <4> QED BY <4>1, <4>2, Zenon
    <3>4. ASSUME NEW q \in Relays, ApplyStep(q) \/ Fail(q), ~UpdateOutcome(q) PROVE log' = log
      BY <3>4, Zenon DEF ApplyStep, AccountRead, AccountWrite, ProfileRead, ProfileWrite, RepoRead,
         MaintainersRead, RepoWrite, MaintainerWrite, Fail
    <3>5. Restart \/ UNCHANGED vars => log' = log BY Zenon DEF Restart, vars
    <3> QED BY <3>1, <3>2, <3>3, <3>4, <3>5, Zenon DEF Next
  <2>2. ASSUME NEW r \in Relays, Writes(r) PROVE Cmd(r) \notin effected
    <3>1. ~At(r, "outcome")
      BY <2>2, WriterActs, Zenon DEF AccountWrite, ProfileWrite, RepoWrite, MaintainerWrite, At
    <3>2. Truth(r) BY <2>2, TaskOf, Zenon DEF Writes
    <3> QED BY <3>1, <3>2, Zenon DEF Truth
  <2> QED BY <2>1, <2>2, Zenon
<1> QED BY <1>1, Invariance, PTL DEF Spec, OutcomesAreFinal

\* Another create of c's repository was executed at the same time.
Doubled(c) ==
    \E d \in Commands : Verb[d] = "repo_create" /\ RepoKey(d) = RepoKey(c) /\ {c, d} \in overlap

Found(r) ==
    LET k == RepoKey(Cmd(r)) IN
    /\ At(r, "repo_write") /\ Verb[Cmd(r)] = "repo_create" /\ repos[k] # NoRow => Doubled(Cmd(r))
    /\ Updating(r) => repos[k] # NoRow
    /\ task[r].pc \in {"repo_write", "maintainer_write"} /\ Verb[Cmd(r)] # "repo_create" =>
          maintainers[k][k[1]] # "none"

AllFound == \A r \in Relays : Applying(r) => Found(r)

\* What no step takes from the tables, and who adds a repository to them.
LEMMA TablesGrow ==
    ASSUME Inv, [Next]_vars
    PROVE  /\ \A k \in Owned : repos[k] # NoRow => repos'[k] # NoRow
           /\ \A k \in Owned, a \in Actors : maintainers[k][a] # "none" => maintainers'[k][a] # "none"
           /\ overlap \subseteq overlap'
           /\ \A k \in Owned : repos'[k] # repos[k] /\ repos[k] = NoRow =>
                 \E q \in Relays : At(q, "repo_write") /\ task'[q] # task[q] /\ RepoKey(Cmd(q)) = k
                                   /\ (Verb[Cmd(q)] = "repo_create" \/ Updating(q))
<1>0. repos \in [Owned -> {NoRow} \union [Fields -> Commands]]
      /\ maintainers \in [Owned -> [Actors -> {"none", "active", "inactive"}]]
  BY Zenon DEF Inv, TablesOK
<1>1. overlap \subseteq overlap'
  <2>1. ASSUME NEW q \in Relays, NEW c \in Commands, Execute(q, c) PROVE overlap \subseteq overlap'
    BY <2>1, Zenon DEF Execute, Begin, vars, history
  <2>2. ASSUME NEW q \in Relays, ApplyStep(q) \/ Fail(q) PROVE overlap' = overlap
    BY <2>2, Zenon DEF ApplyStep, AccountRead, AccountWrite, ProfileRead, ProfileWrite, RepoRead,
         MaintainersRead, RepoWrite, MaintainerWrite, UpdateOutcome, Fail, Done, history
  <2>3. Restart \/ UNCHANGED vars => overlap' = overlap BY Zenon DEF Restart, vars, history
  <2> QED BY <2>1, <2>2, <2>3, Zenon DEF Next
<1>2. UNCHANGED <<repos, maintainers>>
      \/ \E q \in Relays : RepoWrite(q) \/ MaintainerWrite(q)
  <2>1. ASSUME NEW q \in Relays, NEW c \in Commands, Execute(q, c) PROVE UNCHANGED tables
    BY <2>1, Zenon DEF Execute, Begin, vars
  <2>2. ASSUME NEW q \in Relays, ApplyStep(q) \/ Fail(q), ~RepoWrite(q), ~MaintainerWrite(q)
        PROVE  UNCHANGED <<repos, maintainers>>
    BY <2>2, Zenon DEF ApplyStep, AccountRead, AccountWrite, ProfileRead, ProfileWrite, RepoRead,
         MaintainersRead, UpdateOutcome, Fail, tables
  <2>3. Restart \/ UNCHANGED vars => UNCHANGED tables BY Zenon DEF Restart, vars
  <2> QED BY <2>1, <2>2, <2>3, Zenon DEF Next, tables
<1>3. ASSUME NEW q \in Relays, RepoWrite(q)
      PROVE  /\ maintainers' = maintainers
             /\ \A k \in Owned : repos'[k] # repos[k] =>
                   /\ repos'[k] # NoRow /\ At(q, "repo_write") /\ task'[q] # task[q]
                   /\ RepoKey(Cmd(q)) = k /\ (Verb[Cmd(q)] = "repo_create" \/ Updating(q))
  <2> DEFINE c == Cmd(q)
  <2>1. At(q, "repo_write") /\ maintainers' = maintainers BY <1>3, Zenon DEF RepoWrite
  <2>2. /\ task[q] \in Tasks /\ c \in Commands /\ Carried(q) /\ Target[c] \in Names
        /\ Verb[c] \in {"repo_create", "repo_update"}
    BY <2>1, TaskOf, Zenon DEF Applying, At, Place
  <2>3. RepoKey(c) \in Owned BY <2>2, KeyIsOwned, Zenon
  <2>4. Verb[c] = "repo_create" \/ Updating(q) BY <2>1, <2>2, Zenon DEF Updating, At
  <2>5. PICK row : row \in [Fields -> Commands] /\ repos' = [repos EXCEPT ![RepoKey(c)] = row]
    <3>1. CASE Verb[c] = "repo_create"
      <4>1. [f \in Fields |-> c] \in [Fields -> Commands] BY <2>2, Zenon
      <4> QED BY <1>3, <3>1, <4>1, Zenon DEF RepoWrite
    <3>2. CASE Verb[c] = "repo_update"
      <4>1. task[q].row \in [Fields -> Commands] BY <2>1, <2>2, <3>2, Zenon DEF Carried, Updating, At
      <4>2. Merge(task[q].row, c) \in [Fields -> Commands] BY <2>2, <4>1, Zenon DEF Merge
      <4> QED BY <1>3, <3>2, <4>2, Zenon DEF RepoWrite
    <3> QED BY <2>2, <3>1, <3>2, Zenon
  <2>6. row # NoRow BY <2>5, DispatchAssumption, Zenon
  <2>7. task'[q].pc # task[q].pc
    <3>1. CASE Verb[c] = "repo_create"
      <4>1. Goto(q, "maintainer_write") BY <1>3, <3>1, Zenon DEF RepoWrite
      <4>2. task'[q] = [task[q] EXCEPT !.pc = "maintainer_write"] BY <4>1, Zenon DEF Goto, Inv
      <4> QED BY <2>1, <2>2, <4>2, Zenon DEF Tasks, At
    <3>2. CASE Verb[c] # "repo_create"
      <4>1. Decide(q, "ok") BY <1>3, <3>2, Zenon DEF RepoWrite, Done
      <4>2. task'[q] = [task[q] EXCEPT !.pc = "outcome", !.outcome = "ok"] BY <4>1, Zenon DEF Decide, Inv
      <4> QED BY <2>1, <2>2, <4>2, Zenon DEF Tasks, At
    <3> QED BY <3>1, <3>2, Zenon
  <2> HIDE DEF c
  <2>8. ASSUME NEW k \in Owned, repos'[k] # repos[k] PROVE k = RepoKey(c) /\ repos'[k] = row
    BY <1>0, <2>5, <2>8, Zenon
  <2> QED BY <2>1, <2>4, <2>6, <2>7, <2>8, Zenon DEF c
<1>4. ASSUME NEW q \in Relays, MaintainerWrite(q)
      PROVE  /\ repos' = repos
             /\ \A k \in Owned, a \in Actors : maintainers[k][a] # "none" => maintainers'[k][a] # "none"
  <2> DEFINE key == RepoKey(Cmd(q))
             whom == IF Verb[Cmd(q)] = "repo_create" THEN Actor[Cmd(q)] ELSE Whom[Cmd(q)]
             state == IF Verb[Cmd(q)] = "maintainer_remove" THEN "inactive" ELSE "active"
  <2>0. state # "none"
    BY Zenon
  <2>1. maintainers' = [maintainers EXCEPT ![key][whom] = state]
    BY <1>4, Zenon DEF MaintainerWrite
  <2> HIDE DEF key, whom, state
  <2>2. ASSUME NEW k \in Owned, NEW a \in Actors, maintainers[k][a] # "none"
        PROVE  maintainers'[k][a] # "none"
    <3>1. maintainers[k] \in [Actors -> {"none", "active", "inactive"}] BY <1>0, Zenon
    <3>2. maintainers'[k] = maintainers[k] \/ maintainers'[k] = [maintainers[k] EXCEPT ![whom] = state]
      BY <1>0, <2>1, Zenon
    <3> QED BY <2>0, <2>2, <3>1, <3>2, ZenonT(30)
  <2> QED BY <1>4, <2>2, Zenon DEF MaintainerWrite
<1> QED BY <1>1, <1>2, <1>3, <1>4, Zenon

\* The steps that bring a task to a call on a repository.
LEMMA RepoTaskMoves ==
    ASSUME Inv, [Next]_vars, NEW s \in Relays, task'[s] # task[s],
           task'[s].pc \in {"maintainers_read", "repo_write", "maintainer_write"}
    PROVE  \/ RepoRead(s) \/ MaintainersRead(s) \/ RepoWrite(s)
           \/ task'[s].pc = "maintainers_read" /\ Verb[task'[s].cmd] # "repo_update"
<1>0. task \in [Relays -> Tasks] BY Zenon DEF Inv
<1>1. ASSUME NEW q \in Relays, NEW o, Decide(q, o) PROVE FALSE
  <2>1. task'[q] = [task[q] EXCEPT !.pc = "outcome", !.outcome = o] BY <1>0, <1>1, Zenon DEF Decide
  <2>2. task[q] \in Tasks BY <1>0, Zenon
  <2>3. task'[q].pc = "outcome" BY <2>1, <2>2, Zenon DEF Tasks
  <2>4. q # s => task'[s] = task[s] BY <1>0, <1>1, Zenon DEF Decide
  <2> QED BY <2>3, <2>4, Zenon
<1>2. ASSUME NEW q \in Relays, NEW row, NEW pc \in {"account_write", "profile_write"}, Keep(q, pc, row)
      PROVE  FALSE
  <2>1. task'[q] = [task[q] EXCEPT !.pc = pc, !.row = row] BY <1>0, <1>2, Zenon DEF Keep
  <2>2. task[q] \in Tasks BY <1>0, Zenon
  <2>3. task'[q].pc = pc BY <2>1, <2>2, Zenon DEF Tasks
  <2>4. q # s => task'[s] = task[s] BY <1>0, <1>2, Zenon DEF Keep
  <2> QED BY <1>2, <2>3, <2>4, Zenon
<1>3. ASSUME NEW q \in Relays, task' = [task EXCEPT ![q] = Idle] PROVE FALSE
  BY <1>0, <1>3, IdleIsTask, Zenon
<1>4. Restart => FALSE BY IdleIsTask, Zenon DEF Restart
<1>5. ASSUME NEW q \in Relays, NEW c \in Commands, Execute(q, c)
      PROVE  task'[s].pc = "maintainers_read" /\ Verb[task'[s].cmd] # "repo_update"
  <2>1. Begin(q, c) BY <1>5, Zenon DEF Execute, vars
  <2>2. PICK t : t.pc = FirstCall(c) /\ t.cmd = c /\ task' = [task EXCEPT ![q] = t]
    BY <2>1, Zenon DEF Begin
  <2>3. task'[s] = t BY <1>0, <2>2, Zenon
  <2>4. /\ FirstCall(c) \in {"account_read", "profile_read", "repo_read", "maintainers_read", "outcome"}
        /\ FirstCall(c) = "maintainers_read" => Verb[c] # "repo_update"
    BY Zenon DEF FirstCall
  <2> QED BY <2>2, <2>3, <2>4, Zenon
<1>6. ASSUME NEW q \in Relays, RepoRead(q) \/ MaintainersRead(q) \/ RepoWrite(q) PROVE q = s
  BY <1>0, <1>6, Zenon DEF RepoRead, MaintainersRead, RepoWrite, Done, Decide, Goto, Keep
<1>7. ASSUME NEW q \in Relays, \/ AccountRead(q) \/ AccountWrite(q) \/ ProfileRead(q) \/ ProfileWrite(q)
                               \/ MaintainerWrite(q)
      PROVE  FALSE
  BY <1>1, <1>2, <1>7, Zenon
  DEF AccountRead, AccountWrite, ProfileRead, ProfileWrite, MaintainerWrite, Done
<1>8. ASSUME NEW q \in Relays, UpdateOutcome(q) \/ Fail(q) PROVE FALSE
  BY <1>1, <1>3, <1>8, Zenon DEF UpdateOutcome, Fail
<1>9. ~UNCHANGED vars BY Zenon DEF vars
<1> QED BY <1>4, <1>5, <1>6, <1>7, <1>8, <1>9, Zenon DEF Next, ApplyStep

\* What a task has found out stays so while the others work.
LEMMA OthersLeaveFound ==
    ASSUME Inv, AllFound, [Next]_vars, NEW s \in Relays, Applying(s), task'[s] = task[s]
    PROVE  Found(s)'
<1> DEFINE c == Cmd(s)
           k == RepoKey(c)
<1>1. Found(s) /\ c \in Commands /\ Place(s) BY TaskOf, Zenon DEF AllFound
<1>2. /\ Cmd(s)' = c /\ RepoKey(Cmd(s))' = k /\ (Updating(s)' <=> Updating(s))
      /\ \A pc : At(s, pc)' <=> At(s, pc)
  BY Zenon DEF Cmd, RepoKey, At, Updating
<1>3. CASE task[s].pc \notin {"maintainers_read", "repo_write", "maintainer_write"}
  BY <1>2, <1>3, Zenon DEF Found, Updating, At
<1>4. CASE task[s].pc \in {"maintainers_read", "repo_write", "maintainer_write"}
  <2>1. k \in Owned /\ k[1] = Actor[c] /\ Actor[c] \in Actors
    BY <1>1, <1>4, KeyIsOwned, DispatchAssumption, Zenon DEF Place
  <2>2. ASSUME At(s, "repo_write"), Verb[c] = "repo_create", repos'[k] # NoRow
        PROVE  \E d \in Commands : Verb[d] = "repo_create" /\ RepoKey(d) = k /\ {c, d} \in overlap'
    <3>1. CASE repos[k] # NoRow
      <4>1. Doubled(c) BY <1>1, <2>2, <3>1, Zenon DEF Found
      <4> QED BY <4>1, TablesGrow, Zenon DEF Doubled
    <3>2. CASE repos[k] = NoRow
      <4>1. PICK q \in Relays : /\ At(q, "repo_write") /\ task'[q] # task[q] /\ RepoKey(Cmd(q)) = k
                                /\ (Verb[Cmd(q)] = "repo_create" \/ Updating(q))
        BY <2>1, <2>2, <3>2, TablesGrow, Zenon
      <4>2. Applying(q) /\ q # s BY <4>1, Zenon DEF Applying, At
      <4>3. Found(q) BY <4>2, Zenon DEF AllFound
      <4>4. Verb[Cmd(q)] = "repo_create" BY <3>2, <4>1, <4>3, Zenon DEF Found
      <4>5. Cmd(q) \in Commands /\ {c, Cmd(q)} \in overlap
        BY <4>2, TaskOf, Zenon DEF Inv, Beside
      <4>6. {c, Cmd(q)} \in overlap' BY <4>5, TablesGrow, Zenon
      <4> QED BY <4>1, <4>4, <4>5, <4>6, Zenon
    <3> QED BY <3>1, <3>2, Zenon
  <2>3. Updating(s) => repos'[k] # NoRow BY <1>1, <2>1, TablesGrow, Zenon DEF Found
  <2>4. task[s].pc \in {"repo_write", "maintainer_write"} /\ Verb[c] # "repo_create" =>
            maintainers'[k][k[1]] # "none"
    BY <1>1, <2>1, TablesGrow, Zenon DEF Found
  <2>5. PICK x, y : x = c /\ y = k /\ x = Cmd(s)' /\ y = RepoKey(Cmd(s))' BY <1>2, Zenon
  <2>6. (At(s, "repo_write") /\ Verb[Cmd(s)] = "repo_create" /\ repos[RepoKey(Cmd(s))] # NoRow)' =>
            Doubled(Cmd(s))'
    BY <1>2, <2>2, <2>5, Zenon DEF Doubled, RepoKey
  <2>7. Updating(s)' => repos'[y] # NoRow BY <1>2, <2>3, <2>5, Zenon
  <2>8. task'[s].pc \in {"repo_write", "maintainer_write"} /\ Verb[x] # "repo_create" =>
            maintainers'[y][y[1]] # "none"
    BY <2>4, <2>5, Zenon
  <2> QED BY <2>5, <2>6, <2>7, <2>8, Zenon DEF Found
<1> QED BY <1>3, <1>4, Zenon

LEMMA StepFinds ==
    ASSUME Inv, AllFound, [Next]_vars, NEW s \in Relays, task'[s] # task[s],
           RepoRead(s) \/ MaintainersRead(s) \/ RepoWrite(s)
    PROVE  Found(s)'
<1> DEFINE c == Cmd(s)
           k == RepoKey(c)
<1>0. Applying(s) /\ task[s].pc \in {"repo_read", "maintainers_read", "repo_write"}
  BY Zenon DEF RepoRead, MaintainersRead, RepoWrite, Applying, At
<1>1. /\ Found(s) /\ c \in Commands /\ Place(s) /\ task[s] \in Tasks /\ Target[c] \in Names
      /\ task \in [Relays -> Tasks]
  BY <1>0, TaskOf, Zenon DEF AllFound, Place, Inv
<1>2. k \in Owned /\ k[1] = Actor[c] BY <1>1, KeyIsOwned, Zenon
<1>3. ASSUME NEW o, Decide(s, o) PROVE Found(s)'
  <2>1. task'[s] = [task[s] EXCEPT !.pc = "outcome", !.outcome = o] BY <1>1, <1>3, Zenon DEF Decide
  <2>2. task'[s].pc = "outcome" BY <1>1, <2>1, Zenon DEF Tasks
  <2> QED BY <2>2, Zenon DEF Found, Updating, At
<1>4. ASSUME NEW pc, Goto(s, pc) PROVE task'[s].pc = pc /\ task'[s].cmd = c
  BY <1>1, <1>4, Zenon DEF Goto, Tasks, Cmd
<1>5. ASSUME NEW pc, NEW row, Keep(s, pc, row) PROVE task'[s].pc = pc /\ task'[s].cmd = c
  BY <1>1, <1>5, Zenon DEF Keep, Tasks, Cmd
<1>6. CASE RepoRead(s)
  <2>1. repos' = repos /\ Verb[c] \in {"repo_create", "repo_update"}
    BY <1>1, <1>6, Zenon DEF RepoRead, tables, Place, At
  <2>2. CASE Verb[c] = "repo_create" /\ repos[k] = NoRow /\ Goto(s, "repo_write")
    <3>1. task'[s].pc = "repo_write" /\ task'[s].cmd = c BY <1>4, <2>2, Zenon
    <3>2. Cmd(s)' = c /\ RepoKey(Cmd(s))' = k BY <3>1, Zenon DEF Cmd, RepoKey
    <3> QED BY <2>1, <2>2, <3>1, <3>2, Zenon DEF Found, Updating, At
  <2>3. CASE Verb[c] = "repo_update" /\ repos[k] # NoRow /\ Keep(s, "maintainers_read", repos[k])
    <3>1. task'[s].pc = "maintainers_read" /\ task'[s].cmd = c BY <1>5, <2>3, Zenon
    <3>2. Cmd(s)' = c /\ RepoKey(Cmd(s))' = k BY <3>1, Zenon DEF Cmd, RepoKey
    <3> QED BY <2>1, <2>3, <3>1, <3>2, Zenon DEF Found, Updating, At
  <2> QED BY <1>3, <1>6, <2>1, <2>2, <2>3, Zenon DEF RepoRead
<1>7. CASE MaintainersRead(s)
  <2>1. repos' = repos /\ maintainers' = maintainers /\ At(s, "maintainers_read")
    BY <1>7, Zenon DEF MaintainersRead, tables
  <2>2. ASSUME NEW pc \in {"repo_write", "maintainer_write"}, Goto(s, pc), maintainers[k][Actor[c]] = "active",
               pc = "repo_write" => Verb[c] = "repo_update"
        PROVE  Found(s)'
    <3>1. task'[s].pc = pc /\ task'[s].cmd = c BY <1>4, <2>2, Zenon
    <3>2. Cmd(s)' = c /\ RepoKey(Cmd(s))' = k BY <3>1, Zenon DEF Cmd, RepoKey
    <3>3. Updating(s)' => Updating(s) BY <2>1, <3>1, <3>2, Zenon DEF Updating, At
    <3>4. Updating(s) => repos[k] # NoRow BY <1>1, Zenon DEF Found
    <3>5. Verb[c] # "repo_create" BY <1>1, <2>1, Zenon DEF Place
    <3>6. maintainers[k][k[1]] # "none" BY <1>2, <2>2, Zenon
    <3> HIDE DEF c, k
    <3> QED BY <2>1, <3>1, <3>2, <3>3, <3>4, <3>5, <3>6, Zenon DEF Found
  <2> QED BY <1>3, <1>7, <2>2, Zenon DEF MaintainersRead
<1>8. CASE RepoWrite(s)
  <2>1. CASE Verb[c] # "repo_create" BY <1>3, <1>8, <2>1, Zenon DEF RepoWrite, Done
  <2>2. CASE Verb[c] = "repo_create"
    <3>1. task'[s].pc = "maintainer_write" /\ task'[s].cmd = c BY <1>4, <1>8, <2>2, Zenon DEF RepoWrite
    <3> QED BY <2>2, <3>1, Zenon DEF Found, Updating, At, Cmd
  <2> QED BY <2>1, <2>2, Zenon
<1> QED BY <1>6, <1>7, <1>8, Zenon

LEMMA FoundStep == Inv /\ AllFound /\ [Next]_vars => AllFound'
<1> SUFFICES ASSUME Inv, AllFound, [Next]_vars, NEW s \in Relays, Applying(s)' PROVE Found(s)'
  BY Zenon DEF AllFound
<1>1. CASE task'[s] = task[s]
  <2>1. Applying(s) BY <1>1, Zenon DEF Applying, At
  <2> QED BY <1>1, <2>1, OthersLeaveFound, Zenon
<1>2. CASE task'[s] # task[s] /\ task'[s].pc \notin {"maintainers_read", "repo_write", "maintainer_write"}
  BY <1>2, Zenon DEF Found, Updating, At
<1>3. CASE task'[s].pc = "maintainers_read" /\ Verb[task'[s].cmd] # "repo_update"
  BY <1>3, Zenon DEF Found, Updating, At, Cmd
<1> QED BY <1>1, <1>2, <1>3, RepoTaskMoves, StepFinds, Zenon

LEMMA FoundInvariant == Spec => [](Inv /\ AllFound)
<1>1. Init => AllFound BY IdleIsTask, Zenon DEF Init, AllFound, Applying, At
<1> QED BY <1>1, FoundStep, Invariance, PTL DEF Spec

\* apply_repo_create looks for the repository a call before it writes it: it replaces
\* one only past another create executed at the same time, for any relays and commands.
THEOREM CreatesAreReplacedByOverlap == Spec => CreatedOverByOverlap
<1>1. (Inv /\ AllFound) /\ [Next]_vars => \A r \in Relays : LET c == Cmd(r) IN
          (Writes(r) /\ Verb[c] = "repo_create" /\ repos' # repos /\ repos[RepoKey(c)] # NoRow) =>
              \E d \in Commands :
                  Verb[d] = "repo_create" /\ RepoKey(d) = RepoKey(c) /\ {c, d} \in overlap
  <2> SUFFICES ASSUME Inv, AllFound, [Next]_vars, NEW r \in Relays, Writes(r),
                      Verb[Cmd(r)] = "repo_create", repos' # repos, repos[RepoKey(Cmd(r))] # NoRow
               PROVE  Doubled(Cmd(r))
    BY Zenon DEF Doubled
  <2>1. RepoWrite(r)
    BY WriterActs, Zenon DEF AccountWrite, ProfileWrite, MaintainerWrite
  <2>2. Found(r) /\ At(r, "repo_write") BY <2>1, Zenon DEF AllFound, RepoWrite, Writes
  <2> QED BY <2>2, Zenon DEF Found
<1> QED BY <1>1, FoundInvariant, PTL DEF Spec, CreatedOverByOverlap

\* actor_is_maintainer is asked a call before the write: whatever happens in between, a
\* repository that is updated is there and has had its owner as a maintainer.
THEOREM OnlyMaintainersUpdate == Spec => UpdatesAreByMaintainers
<1>1. (Inv /\ AllFound) /\ [Next]_vars => \A r \in Relays : LET k == RepoKey(Cmd(r)) IN
          (Writes(r) /\ Verb[Cmd(r)] # "repo_create" /\ <<repos, maintainers>>' # <<repos, maintainers>>) =>
              /\ maintainers[k][k[1]] # "none"
              /\ repos' # repos => repos[k] # NoRow
  <2> SUFFICES ASSUME Inv, AllFound, [Next]_vars, NEW r \in Relays, Writes(r),
                      Verb[Cmd(r)] # "repo_create", <<repos, maintainers>>' # <<repos, maintainers>>
               PROVE  /\ maintainers[RepoKey(Cmd(r))][RepoKey(Cmd(r))[1]] # "none"
                      /\ repos' # repos => repos[RepoKey(Cmd(r))] # NoRow
    BY Zenon
  <2>1. RepoWrite(r) \/ (MaintainerWrite(r) /\ repos' = repos)
    BY WriterActs, Zenon DEF AccountWrite, ProfileWrite, MaintainerWrite
  <2>2. Found(r) /\ Place(r) BY TaskOf, Zenon DEF AllFound, Writes
  <2>3. task[r].pc \in {"repo_write", "maintainer_write"} /\ (RepoWrite(r) => At(r, "repo_write"))
    BY <2>1, Zenon DEF RepoWrite, MaintainerWrite, At
  <2>4. repos' # repos => Updating(r) BY <2>1, <2>2, <2>3, Zenon DEF Place, Updating, At
  <2> QED BY <2>2, <2>3, <2>4, Zenon DEF Found
<1> QED BY <1>1, FoundInvariant, PTL DEF Spec, UpdatesAreByMaintainers
=============================================================================
