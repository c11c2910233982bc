--------------------------- MODULE CommandDispatch ---------------------------
(***************************************************************************)
(* The command dispatcher: one task per relay subscribes to the commands   *)
(* addressed to the service, logs each one and applies it to the account,  *)
(* profile and repository tables.                                          *)
(*                                                                         *)
(* A relay sends everything it has stored again on each reconnect, and     *)
(* several relays carry the same command, so a task may receive any        *)
(* command at any time.  Each store call is one atomic step.  A row stands *)
(* for who wrote it: per field, the command whose value it holds.          *)
(***************************************************************************)
EXTENDS Integers, FiniteSets

CONSTANTS
    Relays,        \* config.relay_urls, one task each
    Commands,      \* events that pass the filter and parse, by event id
    Actors, Names, \* public keys, repository names
    Actor, Verb,   \* Commands -> Actors, Commands -> Verbs
    Target,        \* Commands -> Names \union {NoName}
    Sets,          \* Commands -> the fields a command gives a value
    Whom,          \* Commands -> Actors: whom "maintainers" adds or removes
    Fields,        \* fields of a profile or a repository
    MaxCommands,   \* bound on the commands that reach the log
    MaxFaults,     \* bound on failed calls and restarts
    NoCommand, NoName, NoRow

Verbs == {"account_create", "account_delete", "account_status", "profile_set",
          "repo_create", "repo_update", "maintainer_add", "maintainer_remove",
          "accepted_only", "account_invalid", "profile_invalid", "maintainer_invalid",
          "repo_invalid"}

ASSUME DispatchAssumption ==
    /\ Actor \in [Commands -> Actors] /\ Whom \in [Commands -> Actors]
    /\ Verb \in [Commands -> Verbs]
    /\ Target \in [Commands -> Names \union {NoName}]
    /\ Sets \in [Commands -> SUBSET Fields]
    /\ MaxCommands \in Nat /\ MaxFaults \in Nat /\ IsFiniteSet(Relays)
    /\ NoCommand \notin Commands /\ NoName \notin Names /\ NoRow \notin [Fields -> Commands]

VARIABLES
    log,          \* v1_command_log: command -> "none", "accepted" or its outcome
    accounts,     \* v1_account_state
    profiles,     \* v1_profile_state; a missing row reads as one without values
    repos,        \* v1_repo_state, by owner and name
    maintainers,  \* v1_repo_maintainer
    task,         \* per relay: the command being executed
    faults,
    effected,     \* history: commands whose writes are all done
    overlap       \* history: pairs of commands executed at the same time

tables == <<accounts, profiles, repos, maintainers>>
history == <<effected, overlap>>
vars == <<log, tables, task, faults, history>>

Owned == Actors \X Names
Idle == [pc |-> "idle", cmd |-> NoCommand, row |-> NoRow, outcome |-> "none"]
Unset == [f \in Fields |-> NoCommand]

Init ==
    /\ log = [c \in Commands |-> "none"]
    /\ accounts = [a \in Actors |-> NoRow]
    /\ profiles = [a \in Actors |-> Unset]
    /\ repos = [k \in Owned |-> NoRow]
    /\ maintainers = [k \in Owned |-> [a \in Actors |-> "none"]]
    /\ task = [r \in Relays |-> Idle]
    /\ faults = 0
    /\ effected = {}
    /\ overlap = {}

At(r, pc) == task[r].pc = pc
Cmd(r) == task[r].cmd
Goto(r, pc) == task' = [task EXCEPT ![r].pc = pc]
Keep(r, pc, row) == task' = [task EXCEPT ![r].pc = pc, ![r].row = row]
Decide(r, outcome) == task' = [task EXCEPT ![r].pc = "outcome", ![r].outcome = outcome]
RepoKey(c) == <<Actor[c], Target[c]>>   \* owner_pubkey is the actor's
Applying(r) == ~At(r, "idle")

\* The row a command writes: its values over those of the row it has read.
Merge(row, c) == [f \in Fields |-> IF f \in Sets[c] THEN c ELSE row[f]]

(***************************************************************************)
(* process_event_envelope and execute_command.                             *)
(***************************************************************************)
\* apply_command: the first call the command needs.
FirstCall(c) ==
    CASE Verb[c] \in {"account_create", "account_delete", "account_status", "account_invalid"}
            -> "account_read"
      [] Verb[c] \in {"profile_set", "profile_invalid"} -> "profile_read"
      [] Verb[c] \in {"repo_create", "repo_update"} /\ Target[c] # NoName -> "repo_read"
      [] Verb[c] \in {"maintainer_add", "maintainer_remove", "maintainer_invalid"}
            /\ Target[c] # NoName -> "maintainers_read"
      [] OTHER -> "outcome"

\* The new log row says "accepted" until the outcome replaces it.
Begin(r, c) ==
    /\ log' = [log EXCEPT ![c] = "accepted"]
    /\ task' = [task EXCEPT ![r] = [pc |-> FirstCall(c), cmd |-> c, row |-> NoRow,
           outcome |-> IF Verb[c] = "accepted_only" /\ Target[c] # NoName
                       THEN "ok" ELSE "invalid"]]
    /\ overlap' = overlap \union {{c, Cmd(q)} : q \in {x \in Relays : Applying(x)}}
    /\ UNCHANGED <<tables, faults, effected>>

Logged == {c \in Commands : log[c] # "none"}

\* Mutant: the insert overwrites the row of a command seen before.
ExecuteAgain(r, c) ==
    /\ At(r, "idle")
    /\ Cardinality(Logged \union {c}) <= MaxCommands
    /\ Begin(r, c)

\* A relay delivers a command and insert_command_log tries to add it: ON CONFLICT
\* DO NOTHING, so a known event id is a duplicate and changes nothing.  A failed
\* insert changes nothing either.
Execute(r, c) ==
    /\ At(r, "idle")
    /\ IF c \in Logged THEN UNCHANGED vars
       ELSE Cardinality(Logged) < MaxCommands /\ Begin(r, c)

UpdateOutcome(r) ==
    /\ At(r, "outcome")
    /\ log' = [log EXCEPT ![Cmd(r)] = task[r].outcome]
    /\ task' = [task EXCEPT ![r] = Idle]
    /\ UNCHANGED <<tables, faults, history>>

Done(r) ==
    /\ Decide(r, "ok")
    /\ effected' = effected \union {Cmd(r)}
    /\ UNCHANGED overlap

(***************************************************************************)
(* apply_account.                                                          *)
(***************************************************************************)
AccountRead(r) ==
    LET c == Cmd(r)
        row == accounts[Actor[c]]
    IN  /\ At(r, "account_read")
        /\ CASE Verb[c] = "account_create" /\ row # NoRow -> Decide(r, "exists")
             [] Verb[c] = "account_status" -> Decide(r, "ok")
             [] Verb[c] = "account_invalid" -> Decide(r, "invalid")
             [] OTHER -> Keep(r, "account_write", row)
        /\ UNCHANGED <<log, tables, faults, history>>

\* upsert_account_state: a stored row keeps its created_at.
AccountWrite(r) ==
    LET c == Cmd(r)
        existing == task[r].row
        stored == accounts[Actor[c]]
        created_at == IF existing = NoRow THEN c ELSE existing.created
    IN  /\ At(r, "account_write")
        /\ accounts' = [accounts EXCEPT ![Actor[c]] =
               [status |-> IF Verb[c] = "account_create" THEN "active" ELSE "deleted",
                created |-> IF stored = NoRow THEN created_at ELSE stored.created,
                updated |-> c]]
        /\ Done(r)
        /\ UNCHANGED <<log, profiles, repos, maintainers, faults>>

(***************************************************************************)
(* apply_profile: set and visibility read, change and write the whole row. *)
(***************************************************************************)
\* Mutant: the command starts from an empty profile.
ProfileReadDefault(r) ==
    /\ At(r, "profile_read")
    /\ Keep(r, "profile_write", Unset)
    /\ UNCHANGED <<log, tables, faults, history>>

ProfileRead(r) ==
    /\ At(r, "profile_read")
    /\ IF Verb[Cmd(r)] = "profile_set"
       THEN Keep(r, "profile_write", profiles[Actor[Cmd(r)]])
       ELSE Decide(r, "invalid")
    /\ UNCHANGED <<log, tables, faults, history>>

ProfileWrite(r) ==
    /\ At(r, "profile_write")
    /\ profiles' = [profiles EXCEPT ![Actor[Cmd(r)]] = Merge(task[r].row, Cmd(r))]
    /\ Done(r)
    /\ UNCHANGED <<log, accounts, repos, maintainers, faults>>

(***************************************************************************)
(* apply_repo: create, update, archive, unarchive, maintainers.            *)
(***************************************************************************)
\* Mutant: a command on a missing repository is dropped without an outcome.
RepoReadDropped(r) ==
    LET c == Cmd(r)
        row == repos[RepoKey(c)]
    IN  /\ At(r, "repo_read")
        /\ CASE Verb[c] = "repo_create" /\ row # NoRow -> Decide(r, "exists")
             [] Verb[c] = "repo_create" /\ row = NoRow -> Goto(r, "repo_write")
             [] Verb[c] = "repo_update" /\ row = NoRow -> task' = [task EXCEPT ![r] = Idle]
             [] OTHER -> Keep(r, "maintainers_read", row)
        /\ UNCHANGED <<log, tables, faults, history>>

RepoRead(r) ==
    LET c == Cmd(r)
        row == repos[RepoKey(c)]
    IN  /\ At(r, "repo_read")
        /\ CASE Verb[c] = "repo_create" /\ row # NoRow -> Decide(r, "exists")
             [] Verb[c] = "repo_create" /\ row = NoRow -> Goto(r, "repo_write")
             [] Verb[c] = "repo_update" /\ row = NoRow -> Decide(r, "not_found")
             [] OTHER -> Keep(r, "maintainers_read", row)
        /\ UNCHANGED <<log, tables, faults, history>>

\* actor_is_maintainer.
MaintainersRead(r) ==
    LET c == Cmd(r) IN
    /\ At(r, "maintainers_read")
    /\ CASE maintainers[RepoKey(c)][Actor[c]] # "active" -> Decide(r, "unauthorized")
         [] OTHER ->
              CASE Verb[c] = "repo_update" -> Goto(r, "repo_write")
                [] Verb[c] = "maintainer_invalid" -> Decide(r, "invalid")
                [] OTHER -> Goto(r, "maintainer_write")
    /\ UNCHANGED <<log, tables, faults, history>>

\* Mutant: a created repository is answered before its first maintainer is set.
RepoWriteOnly(r) ==
    LET c == Cmd(r) IN
    /\ At(r, "repo_write")
    /\ repos' = [repos EXCEPT ![RepoKey(c)] =
           IF Verb[c] = "repo_create" THEN [f \in Fields |-> c] ELSE Merge(task[r].row, c)]
    /\ Done(r)
    /\ UNCHANGED <<log, accounts, profiles, maintainers, faults>>

RepoWrite(r) ==
    LET c == Cmd(r) IN
    /\ At(r, "repo_write")
    /\ IF Verb[c] = "repo_create"
       THEN /\ repos' = [repos EXCEPT ![RepoKey(c)] = [f \in Fields |-> c]]
            /\ Goto(r, "maintainer_write")
            /\ UNCHANGED history
       ELSE /\ repos' = [repos EXCEPT ![RepoKey(c)] = Merge(task[r].row, c)]
            /\ Done(r)
    /\ UNCHANGED <<log, accounts, profiles, maintainers, faults>>

\* set_repo_maintainer, for the owner of a new repository or whom a command names.
MaintainerWrite(r) ==
    LET c == Cmd(r)
        whom == IF Verb[c] = "repo_create" THEN Actor[c] ELSE Whom[c]
        state == IF Verb[c] = "maintainer_remove" THEN "inactive" ELSE "active"
    IN  /\ At(r, "maintainer_write")
        /\ maintainers' = [maintainers EXCEPT ![RepoKey(c)][whom] = state]
        /\ Done(r)
        /\ UNCHANGED <<log, accounts, profiles, repos, faults>>

(***************************************************************************)
(* A call fails: while the command is applied its outcome is "internal",   *)
(* after that the log keeps "accepted".  A restart aborts the tasks        *)
(* wherever they are.                                                      *)
(***************************************************************************)
\* Mutant: an error while the command is applied is answered like a success.
FailUnnoticed(r) ==
    /\ Applying(r)
    /\ faults < MaxFaults
    /\ faults' = faults + 1
    /\ IF At(r, "outcome") THEN task' = [task EXCEPT ![r] = Idle]
       ELSE Decide(r, "ok")
    /\ UNCHANGED <<log, tables, history>>

Fail(r) ==
    /\ Applying(r)
    /\ faults < MaxFaults
    /\ faults' = faults + 1
    /\ IF At(r, "outcome") THEN task' = [task EXCEPT ![r] = Idle]
       ELSE Decide(r, "internal")
    /\ UNCHANGED <<log, tables, history>>

Restart ==
    /\ \E r \in Relays : Applying(r)
    /\ faults < MaxFaults
    /\ faults' = faults + 1
    /\ task' = [r \in Relays |-> Idle]
    /\ UNCHANGED <<log, tables, history>>

ApplyStep(r) ==
    \/ AccountRead(r) \/ AccountWrite(r) \/ ProfileRead(r) \/ ProfileWrite(r)
    \/ RepoRead(r) \/ MaintainersRead(r) \/ RepoWrite(r) \/ MaintainerWrite(r)
    \/ UpdateOutcome(r)

Next ==
    \/ \E r \in Relays : ApplyStep(r) \/ Fail(r) \/ \E c \in Commands : Execute(r, c)
    \/ Restart

Spec == Init /\ [][Next]_vars
-----------------------------------------------------------------------------
Pcs == {"idle", "account_read", "account_write", "profile_read", "profile_write",
        "repo_read", "maintainers_read", "repo_write", "maintainer_write", "outcome"}
Outcomes == {"ok", "exists", "not_found", "unauthorized", "invalid", "internal"}

\* Every table and every task has the shape the code gives it.
TypeOK ==
    /\ log \in [Commands -> {"none", "accepted"} \union Outcomes]
    /\ accounts \in [Actors -> {NoRow} \union
           [status : {"active", "deleted"}, created : Commands, updated : Commands]]
    /\ profiles \in [Actors -> [Fields -> Commands \union {NoCommand}]]
    /\ repos \in [Owned -> {NoRow} \union [Fields -> Commands]]
    /\ maintainers \in [Owned -> [Actors -> {"none", "active", "inactive"}]]
    /\ \A r \in Relays :
          /\ task[r].pc \in Pcs
          /\ Applying(r) => Cmd(r) \in Commands
          /\ At(r, "outcome") => task[r].outcome \in Outcomes
          /\ At(r, "profile_write") => task[r].row \in [Fields -> Commands \union {NoCommand}]
    /\ faults \in 0 .. MaxFaults

\* A command is executed once, however many relays send it and however often:
\* one task at a time works on it, and none once its outcome is logged.
AppliedOnce ==
    \A r, q \in Relays : Applying(r) =>
        /\ log[Cmd(r)] = "accepted"
        /\ (Applying(q) /\ Cmd(q) = Cmd(r)) => q = r

\* The log tells the truth about the tables: "ok" commands have all their
\* writes done, commands refused for what was read have none.  Only a command
\* that failed half way, or was cut off, leaves it open.
Writing == {"account_create", "account_delete", "profile_set", "repo_create",
            "repo_update", "maintainer_add", "maintainer_remove"}
OutcomeIsTrue ==
    \A c \in Commands :
        /\ (log[c] = "ok" /\ Verb[c] \in Writing) => c \in effected
        /\ log[c] \in {"exists", "not_found", "unauthorized", "invalid"} => c \notin effected

\* A repository has had its owner as a maintainer, unless its creation is still
\* under way or a fault cut it off; otherwise nobody could ever update it.
OwnerIsMaintainer ==
    \A k \in Owned : repos[k] # NoRow =>
        \/ maintainers[k][k[1]] # "none"
        \/ \E r \in Relays : At(r, "maintainer_write") /\ Verb[Cmd(r)] = "repo_create" /\ RepoKey(Cmd(r)) = k
        \/ faults > 0

\* A field of a profile or a repository is given only to a command that sets
\* it; read, change and write put back an older value only past a command on
\* the same row that was executed at the same time, over another relay.
SameRow(c, d) ==
    \/ Verb[c] = "profile_set" /\ Verb[d] = "profile_set" /\ Actor[c] = Actor[d]
    \/ {Verb[c], Verb[d]} \subseteq {"repo_create", "repo_update"} /\ RepoKey(c) = RepoKey(d)
Explained(c, row, new) ==
    \A f \in Fields : new[f] # row[f] =>
        new[f] = c \/ \E d \in Commands : SameRow(c, d) /\ {c, d} \in overlap
LostOnlyByOverlap ==
    [][\A r \in Relays : (Applying(r) /\ task'[r] # task[r]) =>
          /\ \A a \in Actors : Explained(Cmd(r), profiles[a], profiles'[a])
          /\ \A k \in Owned : repos[k] # NoRow => Explained(Cmd(r), repos[k], repos'[k])]_vars

\* A command logged as "accepted" is being executed.  Only a fault strands one,
\* for good since it is a duplicate from then on: a failed update of the outcome
\* strands one, a restart at most one per relay.
StrandedByFaults ==
    Cardinality({c \in Logged : log[c] = "accepted" /\ \A r \in Relays : Cmd(r) # c})
        <= faults * Cardinality(Relays)

\* The task of relay r makes a write.
Writes(r) == Applying(r) /\ task'[r] # task[r] /\ tables' # tables

\* insert_command_log and update_command_outcome: an outcome once logged stays, and a
\* command whose last write was made writes nothing more, however often relays send it
\* again and wherever faults cut tasks off.
OutcomesAreFinal ==
    [][/\ \A c \in Commands : log[c] \in Outcomes => log'[c] = log[c]
       /\ \A r \in Relays : Writes(r) => Cmd(r) \notin effected]_vars

\* apply_repo looks for the row and writes it in two calls: a create replaces a row only
\* if another create of the same repository was executed at the same time.
CreatedOverByOverlap ==
    [][\A r \in Relays : LET c == Cmd(r) IN
          (Writes(r) /\ Verb[c] = "repo_create" /\ repos' # repos /\ repos[RepoKey(c)] # NoRow) =>
              \E d \in Commands :
                  Verb[d] = "repo_create" /\ RepoKey(d) = RepoKey(c) /\ {c, d} \in overlap]_vars

\* actor_is_maintainer is asked a call before the write: a repository is updated, and
\* its maintainers are changed other than by its creation, only once it has been given
\* its owner as a maintainer, and it exists when it is updated.
UpdatesAreByMaintainers ==
    [][\A r \in Relays : LET k == RepoKey(Cmd(r)) IN
          (Writes(r) /\ Verb[Cmd(r)] # "repo_create" /\ <<repos, maintainers>>' # <<repos, maintainers>>) =>
              /\ maintainers[k][k[1]] # "none"
              /\ repos' # repos => repos[k] # NoRow]_vars
=============================================================================
