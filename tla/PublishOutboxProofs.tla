------------------------- MODULE PublishOutboxProofs -------------------------
(***************************************************************************)
(* Proofs for the publish outbox and the provisioning of repositories, for *)
(* any announcements, requests, relays, coordinators and faults.           *)
(*                                                                         *)
(* The invariant says what a task at each call may rely on (TaskOK), that  *)
(* no two tasks hold one row or provision one event (Apart), and what the  *)
(* tables show of the order of the calls.  A task's part survives the      *)
(* steps of the others because rows keep their event and their relay, what *)
(* was delivered, announced or created stays (Grows), and nobody changes   *)
(* the status of a row another task holds.                                 *)
(***************************************************************************)
EXTENDS PublishOutbox, FiniteSetTheorems, TLAPS

TaskRec == [pc : LoopPcs \union ProvisionPcs, id : Nat, at : Time, event : Events \union {NoEvent}]

Provisioning(p) == task[p].pc \in ProvisionPcs \ {"announce"}

TaskOK(p) ==
    /\ task[p].pc \notin {"idle", "claim"} => task[p].event \in Events
    /\ task[p].pc \in Holding =>
          /\ p \in Workers /\ task[p].id \in DOMAIN outbox
          /\ outbox[task[p].id].event = task[p].event
          /\ outbox[task[p].id].status = "publishing"
    /\ At(p, "mark_ok") => <<outbox[task[p].id].url, task[p].event>> \in delivered
    /\ p \in Workers /\ task[p].pc \in {"count"} \union ProvisionPcs =>
          \E u \in Urls : <<u, task[p].event>> \in delivered
    /\ Provisioning(p) => announcements[task[p].event] = Route(p)
    /\ task[p].pc \in {"list_hooks", "create_hook", "map"} => Fork(p) \in forgejo
    /\ At(p, "map") => webhooks[Fork(p)] > 0

Apart(p, q) ==
    /\ task[p].pc \in Holding /\ task[q].pc \in Holding => task[p].id # task[q].id
    /\ Provisioning(p) /\ Provisioning(q) => task[p].event # task[q].event

Tables ==
    /\ outbox \in Seq(Row)
    /\ delivered \subseteq Urls \X Events
    /\ announcements \in [Events -> Routes \union {"none"}]
    /\ forgejo \subseteq ForgejoRepos
    /\ webhooks \in [ForgejoRepos -> Nat]
    /\ mapping \in [Repos -> Routes \union {"none"}]
    /\ disk \in [Repos -> {"none", "bare", "hooked"}]
    /\ request \in [Requests -> [pc : {"new", "enqueue", "answered", "failed"},
                                 next : 1 .. Len(RelayUrls)]]
    /\ now \in Time
    /\ faults \in 0 .. MaxFaults

Shown == PublishedWasDelivered /\ AnnouncedWasDelivered /\ MappedIsSetUp /\ HooklessByFaults

Inv ==
    /\ Tables /\ task \in [Tasks -> TaskRec] /\ Shown
    /\ \A p \in Tasks : TaskOK(p)
    /\ \A p, q \in Tasks : p # q => Apart(p, q)

\* What no step takes back.
Grows ==
    /\ DOMAIN outbox \subseteq DOMAIN outbox'
    /\ \A id \in DOMAIN outbox :
          outbox'[id].event = outbox[id].event /\ outbox'[id].url = outbox[id].url
    /\ delivered \subseteq delivered' /\ forgejo \subseteq forgejo'
    /\ \A e \in Events : announcements[e] # "none" => announcements'[e] = announcements[e]
    /\ \A f \in ForgejoRepos : webhooks'[f] \in Nat /\ webhooks'[f] >= webhooks[f]

\* A row that a task holds is left alone.
Spares(s) == task[s].pc \in Holding => outbox'[task[s].id].status = outbox[task[s].id].status

LEMMA TaskTypes ==
    ASSUME Inv, NEW p \in Tasks
    PROVE  /\ task[p] \in TaskRec /\ TaskOK(p)
           /\ task[p].event \in Events => Key(p) \in Repos /\ Fork(p) \in ForgejoRepos
           /\ Route(p) \in Routes
  BY Zenon DEF Inv, Key, Fork, Repos, ForgejoRepos, Route, Routes

LEMMA OthersStay ==
    ASSUME Inv, NEW s \in Tasks, task'[s] = task[s], Grows, Spares(s)
    PROVE  TaskOK(s)'
<1>1. task[s] \in TaskRec /\ TaskOK(s) /\ (task[s].event \in Events => Fork(s) \in ForgejoRepos)
  BY TaskTypes, Zenon
<1>2. Fork(s)' = Fork(s) /\ Route(s)' = Route(s) /\ (Provisioning(s)' <=> Provisioning(s))
  BY Zenon DEF Fork, Key, Route, Provisioning
<1>3. /\ task[s].pc \in Holding => task[s].pc \notin {"idle", "claim"}
      /\ Provisioning(s) => task[s].pc \notin {"idle", "claim"} /\ Route(s) # "none"
      /\ task[s].pc \in {"list_hooks", "create_hook", "map"} => task[s].pc \notin {"idle", "claim"}
  BY Zenon DEF Holding, Provisioning, ProvisionPcs, Route
<1>4. /\ task[s].pc \in Holding =>
            /\ s \in Workers /\ task[s].id \in DOMAIN outbox'
            /\ outbox'[task[s].id].event = task[s].event
            /\ outbox'[task[s].id].status = "publishing"
            /\ outbox'[task[s].id].url = outbox[task[s].id].url
  BY <1>1, Zenon DEF TaskOK, Grows, Spares
<1>5. At(s, "mark_ok") => <<outbox'[task[s].id].url, task[s].event>> \in delivered'
  BY <1>1, <1>4, Zenon DEF TaskOK, Grows, At, Holding
<1>6. s \in Workers /\ task[s].pc \in {"count"} \union ProvisionPcs =>
          \E u \in Urls : <<u, task[s].event>> \in delivered'
  BY <1>1, Zenon DEF TaskOK, Grows
<1>7. Provisioning(s) => announcements'[task[s].event] = Route(s)
  BY <1>1, <1>3, Zenon DEF TaskOK, Grows
<1>8. task[s].pc \in {"list_hooks", "create_hook", "map"} => Fork(s) \in forgejo'
  BY <1>1, Zenon DEF TaskOK, Grows
<1>9. At(s, "map") => webhooks'[Fork(s)] > 0
  <2> SUFFICES ASSUME At(s, "map") PROVE webhooks'[Fork(s)] > 0
    OBVIOUS
  <2>1. webhooks[Fork(s)] > 0 /\ Fork(s) \in ForgejoRepos
    BY <1>1, Zenon DEF TaskOK, At
  <2>2. webhooks[Fork(s)] \in Nat
    BY <2>1, Zenon DEF Inv, Tables
  <2>3. webhooks'[Fork(s)] \in Nat /\ webhooks'[Fork(s)] >= webhooks[Fork(s)]
    BY <2>1, Zenon DEF Grows
  <2> QED BY <2>1, <2>2, <2>3
<1> QED BY <1>1, <1>2, <1>4, <1>5, <1>6, <1>7, <1>8, <1>9, Zenon DEF TaskOK, At

\* A step of one task, p: what remains to be shown of it.
LEMMA Assemble ==
    ASSUME Inv, NEW p \in Tasks, NEW t \in TaskRec, task' = [task EXCEPT ![p] = t],
           Tables', Shown', Grows,
           \A s \in Tasks \ {p} : Spares(s),
           TaskOK(p)',
           t.pc \in Holding =>
               \A s \in Tasks \ {p} : task[s].pc \in Holding => task[s].id # t.id,
           t.pc \in ProvisionPcs \ {"announce"} =>
               \A s \in Tasks \ {p} : Provisioning(s) => task[s].event # t.event
    PROVE  Inv'
<1>1. task \in [Tasks -> TaskRec]
  BY Zenon DEF Inv
<1>2. task'[p] = t /\ \A s \in Tasks \ {p} : task'[s] = task[s]
  BY <1>1, Zenon
<1>3. task' \in [Tasks -> TaskRec]
  BY <1>1, Zenon
<1>4. \A s \in Tasks : TaskOK(s)'
  BY <1>2, OthersStay, Zenon
<1>5. ASSUME NEW s \in Tasks, s # p PROVE Apart(p, s)' /\ Apart(s, p)'
  BY <1>2, <1>5, Zenon DEF Apart, Provisioning
<1>6. ASSUME NEW s \in Tasks, NEW q \in Tasks, s # q, s # p, q # p PROVE Apart(s, q)'
  <2>1. Apart(s, q)
    BY <1>6, Zenon DEF Inv
  <2> QED BY <2>1, <1>2, <1>6, Zenon DEF Apart, Provisioning
<1>7. \A s, q \in Tasks : s # q => Apart(s, q)'
  BY <1>5, <1>6, Zenon
<1> QED BY <1>3, <1>4, <1>7, Zenon DEF Inv

\* The tables stay as they are.
LEMMA SameTables ==
    ASSUME Inv, UNCHANGED <<tables, world>>
    PROVE  /\ Grows /\ \A s \in Tasks : Spares(s)
           /\ PublishedWasDelivered' /\ AnnouncedWasDelivered' /\ MappedIsSetUp'
<1>1. UNCHANGED <<outbox, announcements, mapping, delivered, forgejo, webhooks, disk>>
  BY Zenon DEF tables, world
<1>2. \A f \in ForgejoRepos : webhooks[f] \in Nat
  BY Zenon DEF Inv, Tables
<1>3. Grows /\ \A s \in Tasks : Spares(s)
  BY <1>1, <1>2 DEF Grows, Spares
<1>4. PublishedWasDelivered' /\ AnnouncedWasDelivered' /\ MappedIsSetUp'
  BY <1>1, Zenon DEF Inv, Shown, PublishedWasDelivered, AnnouncedWasDelivered, MappedIsSetUp
<1> QED BY <1>3, <1>4, Zenon

\* Only the task that created a bare repository may be on its way to the hooks.
LEMMA HooksStay ==
    ASSUME Inv, NEW p \in Tasks, NEW t, task' = [task EXCEPT ![p] = t],
           UNCHANGED disk, faults' >= faults, faults' \in Nat,
           faults' > 0 \/ ~At(p, "hooks")
    PROVE  HooklessByFaults'
<1>0. task \in [Tasks -> TaskRec] /\ faults \in Nat
  BY OutboxAssumption DEF Inv, Tables
<1>1. \A s \in Tasks \ {p} : task'[s] = task[s]
  BY <1>0, Zenon
<1> SUFFICES ASSUME NEW k \in Repos, disk[k] = "bare", ~(faults' > 0)
             PROVE  \E s \in Tasks : At(s, "hooks")' /\ Key(s)' = k
  BY Zenon DEF HooklessByFaults
<1>2. ~(faults > 0)
  BY <1>0
<1>3. PICK s \in Tasks : At(s, "hooks") /\ Key(s) = k
  BY <1>2, Zenon DEF Inv, Shown, HooklessByFaults
<1>4. s # p
  BY <1>3, Zenon
<1> QED BY <1>1, <1>3, <1>4, Zenon DEF At, Key

LEMMA HooksKept ==
    ASSUME Inv, NEW p \in Tasks, NEW t, task' = [task EXCEPT ![p] = t],
           UNCHANGED <<disk, faults>>, ~At(p, "hooks")
    PROVE  HooklessByFaults'
<1>1. faults' \in Nat /\ faults' >= faults
  BY OutboxAssumption DEF Inv, Tables
<1> QED BY <1>1, HooksStay, Zenon

\* A step that only moves its task.
LEMMA QuietStep ==
    ASSUME Inv, NEW p \in Tasks, NEW t \in TaskRec, task' = [task EXCEPT ![p] = t],
           UNCHANGED <<tables, world, request, now>>,
           faults' \in 0 .. MaxFaults, faults' >= faults,
           faults' > 0 \/ ~At(p, "hooks"),
           TaskOK(p)',
           t.pc \in Holding => task[p].pc \in Holding /\ t.id = task[p].id,
           t.pc \in ProvisionPcs \ {"announce"} => Provisioning(p) /\ t.event = task[p].event
    PROVE  Inv'
<1>1. /\ Grows /\ \A s \in Tasks : Spares(s)
      /\ PublishedWasDelivered' /\ AnnouncedWasDelivered' /\ MappedIsSetUp'
  BY SameTables, Zenon
<1>2. HooklessByFaults'
  <2>1. faults' \in Nat /\ UNCHANGED disk
    BY OutboxAssumption DEF world
  <2> QED BY <2>1, HooksStay, Zenon
<1>3. Tables'
  BY Zenon DEF Inv, Tables, tables, world
<1>4. \A s \in Tasks \ {p} : Apart(p, s)
  BY Zenon DEF Inv
<1> QED BY <1>1, <1>2, <1>3, <1>4, Assemble, Zenon DEF Shown, Apart

LEMMA NoTaskStep ==
    ASSUME Inv, UNCHANGED task, Tables', Shown', Grows, \A s \in Tasks : Spares(s)
    PROVE  Inv'
<1>1. \A s \in Tasks : TaskOK(s)'
  BY OthersStay, Zenon
<1>2. \A s, q \in Tasks : s # q => Apart(s, q)'
  BY Zenon DEF Inv, Apart, Provisioning
<1> QED BY <1>1, <1>2, Zenon DEF Inv

LEMMA IdleIsTask == Idle \in TaskRec
  BY OutboxAssumption DEF Idle, TaskRec, LoopPcs, Time

LEMMA IdleIsOK == ASSUME NEW p, task'[p].pc \in {"idle", "claim"} PROVE TaskOK(p)'
  BY Zenon DEF TaskOK, At, Provisioning, Holding, ProvisionPcs

LEMMA FinishStep ==
    ASSUME Inv, NEW p \in Tasks, Finish(p), UNCHANGED <<tables, world, request, now>>,
           faults' \in 0 .. MaxFaults, faults' >= faults, faults' > 0 \/ ~At(p, "hooks")
    PROVE  Inv'
<1>1. task' = [task EXCEPT ![p] = Idle] /\ task \in [Tasks -> TaskRec]
  BY Zenon DEF Finish, Inv
<1>2. TaskOK(p)'
  BY <1>1, IdleIsOK DEF Idle
<1>3. Idle.pc \notin Holding /\ Idle.pc \notin ProvisionPcs
  BY Zenon DEF Idle, Holding, ProvisionPcs
<1> QED BY <1>1, <1>2, <1>3, IdleIsTask, QuietStep, Zenon

LEMMA FaultsStay == ASSUME Inv, UNCHANGED faults PROVE faults' \in 0 .. MaxFaults /\ faults' >= faults
  BY OutboxAssumption DEF Inv, Tables

-----------------------------------------------------------------------------
(***************************************************************************)
(* The requests and the clock.                                             *)
(***************************************************************************)
LEMMA CreateRepoStep == ASSUME Inv, NEW r \in Requests, CreateRepo(r) PROVE Inv'
<1>0. UNCHANGED <<outbox, announcements, mapping, delivered, webhooks, disk, task, now, faults>>
  BY Zenon DEF CreateRepo, tables
<1>1. <<"outbox", Repo[Posts[r]]>> \in ForgejoRepos
  BY OutboxAssumption, Zenon DEF ForgejoRepos, Routes, Repos
<1>2. Tables'
  <2>1. Tables
    BY Zenon DEF Inv
  <2>2. forgejo' \subseteq ForgejoRepos
    BY <1>1, <2>1, Zenon DEF Tables, CreateRepo
  <2>3. request' = [request EXCEPT ![r].pc = "enqueue"]
    BY Zenon DEF CreateRepo
  <2>4. request' \in [Requests -> [pc : {"new", "enqueue", "answered", "failed"},
                                  next : 1 .. Len(RelayUrls)]]
    BY <2>1, <2>3 DEF Tables
  <2> QED BY <1>0, <2>1, <2>2, <2>4, Zenon DEF Tables
<1>3. Shown'
  BY <1>0 DEF Inv, Shown, PublishedWasDelivered, AnnouncedWasDelivered, MappedIsSetUp,
              HooklessByFaults, At, Key, CreateRepo
<1>4. Grows /\ \A s \in Tasks : Spares(s)
  BY <1>0 DEF Grows, Spares, CreateRepo, Inv, Tables
<1> QED BY <1>0, <1>2, <1>3, <1>4, NoTaskStep, Zenon

LEMMA EnqueueStep == ASSUME Inv, NEW r \in Requests, Enqueue(r) PROVE Inv'
<1> DEFINE n == request[r].next
           row == [event |-> Posts[r], url |-> RelayUrls[n], status |-> "pending",
                   attempt |-> 0, publish_after |-> now]
<1>0. UNCHANGED <<announcements, mapping, delivered, forgejo, webhooks, disk, task, now, faults>>
  BY Zenon DEF Enqueue, world
<1>1. n \in 1 .. Len(RelayUrls) /\ Len(RelayUrls) \in Nat /\ now \in Nat
  BY OutboxAssumption DEF Inv, Tables, Time
<1>2. row \in Row
  BY <1>1, OutboxAssumption, Zenon DEF Row, Urls
<1>3. outbox' = Append(outbox, row)
  BY Zenon DEF Enqueue, enqueue_relay_publish
<1> HIDE DEF row
<1>4. outbox \in Seq(Row) /\ outbox' \in Seq(Row)
  BY <1>2, <1>3 DEF Inv, Tables
<1>5. /\ DOMAIN outbox \subseteq DOMAIN outbox'
      /\ \A id \in DOMAIN outbox : outbox'[id] = outbox[id]
      /\ \A id \in DOMAIN outbox' : id \in DOMAIN outbox \/ outbox'[id] = row
  BY <1>2, <1>3, <1>4, SMTT(30)
<1>6. Tables'
  BY SMTT(20), <1>0, <1>1, <1>4 DEF Inv, Tables, Enqueue
<1>7. row.status # "published"
  BY Zenon DEF row
<1>8. Shown'
  BY <1>0, <1>5, <1>7 DEF Inv, Shown, PublishedWasDelivered, AnnouncedWasDelivered, MappedIsSetUp,
              HooklessByFaults, At, Key
<1>9. Grows
  BY <1>0, <1>5 DEF Grows, Inv, Tables
<1>10. ASSUME NEW s \in Tasks PROVE Spares(s)
  BY <1>5, Zenon DEF Spares, Inv, TaskOK
<1> QED BY <1>0, <1>6, <1>8, <1>9, <1>10, NoTaskStep, Zenon

LEMMA OtherStep ==
    ASSUME Inv, (\E r \in Requests : EnqueueFail(r)) \/ Tick \/ UNCHANGED vars PROVE Inv'
<1>1. UNCHANGED <<tables, world, task>> /\ faults' >= faults /\ faults' \in 0 .. MaxFaults
  BY SMTT(20), OutboxAssumption DEF EnqueueFail, Tick, vars, Inv, Tables
<1>2. Tables'
  <2> DEFINE R == [pc : {"new", "enqueue", "answered", "failed"}, next : 1 .. Len(RelayUrls)]
  <2>1. request \in [Requests -> R] /\ now \in Time
    BY Zenon DEF Inv, Tables
  <2>2. request' \in [Requests -> R]
    <3>1. ASSUME NEW r \in Requests, EnqueueFail(r) PROVE request' \in [Requests -> R]
      BY <2>1, <3>1, Zenon DEF EnqueueFail
    <3>2. ASSUME Tick \/ UNCHANGED vars PROVE request' \in [Requests -> R]
      BY <2>1, <3>2, Zenon DEF Tick, vars
    <3> QED BY <3>1, <3>2, Zenon
  <2>3. now' \in Time
    BY <2>1, OutboxAssumption DEF EnqueueFail, Tick, vars, Time
  <2> QED BY <1>1, <2>2, <2>3, Zenon DEF Inv, Tables, tables, world
<1>3. faults \in Nat /\ faults' \in Nat
  BY <1>1, OutboxAssumption DEF Inv, Tables
<1>4. HooklessByFaults'
  <2> SUFFICES ASSUME NEW k \in Repos, disk[k] = "bare", ~(faults' > 0)
               PROVE  \E p \in Tasks : At(p, "hooks")' /\ Key(p)' = k
    BY <1>1, Zenon DEF HooklessByFaults, world
  <2>1. ~(faults > 0)
    BY <1>1, <1>3
  <2> QED BY <2>1, <1>1, Zenon DEF Inv, Shown, HooklessByFaults, At, Key
<1> QED BY <1>1, <1>2, <1>4, SameTables, NoTaskStep, Zenon DEF Shown

-----------------------------------------------------------------------------
(***************************************************************************)
(* The outbox loop.                                                        *)
(***************************************************************************)
LEMMA WorkersAreTasks == ASSUME NEW w \in Workers PROVE w \in Tasks /\ Route(w) = "outbox"
  BY Zenon DEF Tasks, Route

LEMMA PollStep == ASSUME Inv, NEW w \in Workers, Poll(w) PROVE Inv'
<1> DEFINE t == [Idle EXCEPT !.pc = "claim", !.at = now]
<1>1. t \in TaskRec /\ t.pc = "claim"
  BY IdleIsTask, Zenon DEF TaskRec, LoopPcs, Inv, Tables, Idle
<1>2. task' = [task EXCEPT ![w] = t] /\ task \in [Tasks -> TaskRec] /\ w \in Tasks
  BY WorkersAreTasks, Zenon DEF Poll, Inv
<1> HIDE DEF t
<1>3. TaskOK(w)'
  BY <1>1, <1>2, IdleIsOK
<1>4. t.pc \notin Holding /\ t.pc \notin ProvisionPcs /\ ~At(w, "hooks")
  BY <1>1, Zenon DEF Holding, ProvisionPcs, Poll, At
<1> QED BY <1>1, <1>2, <1>3, <1>4, FaultsStay, QuietStep, Zenon DEF Poll

LEMMA ClaimNoneStep == ASSUME Inv, NEW w \in Workers, ClaimNone(w) PROVE Inv'
  BY WorkersAreTasks, FaultsStay, FinishStep, Zenon DEF ClaimNone, At

LEMMA CountStep == ASSUME Inv, NEW w \in Workers, Count(w) PROVE Inv'
<1>1. CASE Finish(w)
  BY <1>1, WorkersAreTasks, FaultsStay, FinishStep, Zenon DEF Count, At
<1>2. CASE Goto(w, "announce")
  <2> DEFINE t == [task[w] EXCEPT !.pc = "announce"]
  <2>1. w \in Tasks /\ task[w] \in TaskRec /\ TaskOK(w) /\ task[w].pc = "count" /\ task \in [Tasks -> TaskRec]
    BY WorkersAreTasks, TaskTypes, Zenon DEF Count, At, Inv
  <2>2. t \in TaskRec /\ t.pc = "announce" /\ t.event = task[w].event
    BY <2>1, Zenon DEF TaskRec, ProvisionPcs
  <2>3. task' = [task EXCEPT ![w] = t]
    BY <1>2, <2>1, Zenon DEF Goto
  <2> HIDE DEF t
  <2>4. UNCHANGED delivered
    BY Zenon DEF Count, world
  <2>5. TaskOK(w)'
    <3>1. task'[w] = t
      BY <2>1, <2>3, Zenon
    <3>2. (task[w].event \in Events) /\ \E u \in Urls : <<u, task[w].event>> \in delivered
      BY <2>1, Zenon DEF TaskOK
    <3> QED BY <3>1, <3>2, <2>2, <2>4, Zenon DEF TaskOK, At, Provisioning, Holding
  <2>6. t.pc \notin Holding /\ t.pc \notin ProvisionPcs \ {"announce"} /\ ~At(w, "hooks")
    BY <2>1, <2>2, Zenon DEF Holding, At
  <2> QED BY <2>1, <2>2, <2>3, <2>5, <2>6, FaultsStay, QuietStep, Zenon DEF Count
<1> QED BY <1>1, <1>2, Zenon DEF Count

\* One row of the outbox is rewritten, its event and its relay kept.
LEMMA RowWritten ==
    ASSUME Inv, NEW id \in DOMAIN outbox, NEW row \in Row,
           row.event = outbox[id].event, row.url = outbox[id].url,
           outbox' = [outbox EXCEPT ![id] = row],
           UNCHANGED <<announcements, mapping, world, request, now, faults>>
    PROVE  /\ Tables' /\ Grows /\ DOMAIN outbox' = DOMAIN outbox
           /\ outbox'[id] = row /\ \A j \in DOMAIN outbox \ {id} : outbox'[j] = outbox[j]
           /\ AnnouncedWasDelivered' /\ MappedIsSetUp'
           /\ (row.status = "published" => <<row.url, row.event>> \in delivered) => PublishedWasDelivered'
<1>0. UNCHANGED <<announcements, mapping, delivered, forgejo, webhooks, disk, request, now, faults>>
  BY Zenon DEF world
<1>1. outbox \in Seq(Row)
  BY Zenon DEF Inv, Tables
<1>2. /\ outbox' \in Seq(Row) /\ DOMAIN outbox' = DOMAIN outbox
      /\ outbox'[id] = row /\ \A j \in DOMAIN outbox \ {id} : outbox'[j] = outbox[j]
  BY <1>1
<1>3. Tables'
  BY <1>0, <1>2 DEF Inv, Tables
<1>4. Grows
  BY <1>0, <1>2 DEF Grows, Inv, Tables
<1>5. AnnouncedWasDelivered' /\ MappedIsSetUp'
  BY <1>0 DEF Inv, Shown, AnnouncedWasDelivered, MappedIsSetUp
<1>6. (row.status = "published" => <<row.url, row.event>> \in delivered) => PublishedWasDelivered'
  BY <1>0, <1>2, Zenon DEF Inv, Shown, PublishedWasDelivered
<1> QED BY <1>2, <1>3, <1>4, <1>5, <1>6, Zenon

LEMMA ClaimStep == ASSUME Inv, NEW w \in Workers, Claim(w) PROVE Inv'
<1>0. w \in Tasks /\ task[w] \in TaskRec /\ task[w].pc = "claim" /\ task \in [Tasks -> TaskRec]
  BY WorkersAreTasks, TaskTypes, Zenon DEF Claim, At, Inv
<1>1. PICK id \in DOMAIN outbox :
          /\ outbox[id].status = "pending"
          /\ outbox' = [outbox EXCEPT ![id].status = "publishing", ![id].attempt = @ + 1]
          /\ task' = [task EXCEPT ![w].pc = "publish", ![w].id = id, ![w].event = outbox[id].event]
  BY Zenon DEF Claim, Due
<1> DEFINE row == [outbox[id] EXCEPT !.status = "publishing",
                                     !.attempt = outbox[id].attempt + 1]
           t == [task[w] EXCEPT !.pc = "publish", !.id = id, !.event = outbox[id].event]
<1>2. outbox \in Seq(Row) /\ outbox[id] \in Row /\ id \in Nat
  BY DEF Inv, Tables
<1>3. outbox' = [outbox EXCEPT ![id] = row] /\ task' = [task EXCEPT ![w] = t]
  BY <1>0, <1>1, <1>2, Zenon
<1>4. /\ row \in Row /\ row.event = outbox[id].event /\ row.url = outbox[id].url
      /\ row.status = "publishing"
  <2> DEFINE old == outbox[id]
  <2>1. old \in Row
    BY <1>2, Zenon
  <2> HIDE DEF old
  <2>2. old.attempt + 1 \in Nat
    BY <2>1 DEF Row
  <2>3. [old EXCEPT !.status = "publishing", !.attempt = old.attempt + 1] \in Row
    BY <2>1, <2>2, Zenon DEF Row
  <2>4. LET r == [old EXCEPT !.status = "publishing", !.attempt = old.attempt + 1]
        IN  r.event = old.event /\ r.url = old.url /\ r.status = "publishing"
    BY <2>1, Zenon DEF Row
  <2> QED BY <2>3, <2>4, Zenon DEF old
<1>5. /\ t \in TaskRec /\ t.pc = "publish" /\ t.id = id
      /\ t.event = outbox[id].event /\ t.event \in Events
  BY <1>0, <1>2, Zenon DEF TaskRec, Row, LoopPcs
<1> HIDE DEF row, t
<1>6. /\ Tables' /\ Grows /\ DOMAIN outbox' = DOMAIN outbox
      /\ outbox'[id] = row /\ \A j \in DOMAIN outbox \ {id} : outbox'[j] = outbox[j]
      /\ AnnouncedWasDelivered' /\ MappedIsSetUp' /\ PublishedWasDelivered'
  BY <1>3, <1>4, RowWritten, Zenon DEF Claim
<1>7. HooklessByFaults'
  <2>1. UNCHANGED <<disk, faults>> /\ ~At(w, "hooks")
    BY <1>0, Zenon DEF Claim, world, At
  <2> QED BY <2>1, <1>0, <1>3, HooksKept, Zenon
<1>8. \A s \in Tasks \ {w} : task[s].pc \in Holding => task[s].id # id /\ task[s].id \in DOMAIN outbox
  BY <1>1, Zenon DEF Inv, TaskOK
<1>9. \A s \in Tasks \ {w} : Spares(s)
  BY <1>6, <1>8, Zenon DEF Spares
<1>10. TaskOK(w)'
  <2>1. task'[w] = t
    BY <1>0, <1>3, Zenon
  <2> QED BY <2>1, <1>4, <1>5, <1>6, Zenon DEF TaskOK, At, Provisioning, Holding, ProvisionPcs
<1>11. t.pc \notin ProvisionPcs
  BY <1>5, Zenon DEF ProvisionPcs
<1> QED BY <1>0, <1>3, <1>5, <1>6, <1>7, <1>8, <1>9, <1>10, <1>11, Assemble, Zenon DEF Shown

\* The relay stores the event of the row, or nothing changes there.
LEMMA DeliveredGrows ==
    ASSUME Inv, NEW w \in Workers, At(w, "publish"), Deliver(w) \/ UNCHANGED delivered,
           UNCHANGED <<tables, forgejo, webhooks, disk, request, now, faults>>
    PROVE  /\ Tables' /\ Grows /\ \A s \in Tasks : Spares(s)
           /\ PublishedWasDelivered' /\ AnnouncedWasDelivered' /\ MappedIsSetUp'
<1>0. UNCHANGED <<outbox, announcements, mapping, forgejo, webhooks, disk, request, now, faults>>
  BY Zenon DEF tables
<1>1. outbox[task[w].id] \in Row /\ task[w].event \in Events
  <2>1. TaskOK(w) /\ outbox \in Seq(Row)
    BY WorkersAreTasks, Zenon DEF Inv, Tables
  <2>2. task[w].id \in DOMAIN outbox /\ task[w].event \in Events
    BY <2>1, Zenon DEF TaskOK, At, Holding
  <2> QED BY <2>1, <2>2
<1>2. delivered \subseteq delivered' /\ delivered' \subseteq Urls \X Events
  BY SMTT(20), <1>1 DEF Deliver, Inv, Tables, Row
<1>3. Tables' /\ Grows
  BY <1>0, <1>2 DEF Inv, Tables, Grows
<1>4. \A s \in Tasks : Spares(s)
  BY <1>0, Zenon DEF Spares
<1>5. PublishedWasDelivered' /\ AnnouncedWasDelivered' /\ MappedIsSetUp'
  BY <1>0, <1>2, Zenon DEF Inv, Shown, PublishedWasDelivered, AnnouncedWasDelivered, MappedIsSetUp
<1> QED BY <1>3, <1>4, <1>5, Zenon

LEMMA PublishStep == ASSUME Inv, NEW w \in Workers, PublishOk(w) \/ PublishErr(w) PROVE Inv'
<1>0. /\ w \in Tasks /\ task[w] \in TaskRec /\ task[w].pc = "publish" /\ TaskOK(w)
      /\ task \in [Tasks -> TaskRec]
  BY WorkersAreTasks, TaskTypes, Zenon DEF PublishOk, PublishErr, At, Inv
<1>1. PICK pc \in {"mark_ok", "mark_failed"} : Goto(w, pc) /\ (pc = "mark_ok" => Deliver(w))
  BY Zenon DEF PublishOk, PublishErr
<1>2. /\ At(w, "publish") /\ (Deliver(w) \/ UNCHANGED delivered)
      /\ UNCHANGED <<tables, forgejo, webhooks, disk, request, now, faults>>
  BY Zenon DEF PublishOk, PublishErr
<1> DEFINE t == [task[w] EXCEPT !.pc = pc]
<1>3. task' = [task EXCEPT ![w] = t]
  BY <1>0, <1>1, Zenon DEF Goto
<1>4. t \in TaskRec /\ t.pc = pc /\ t.id = task[w].id /\ t.event = task[w].event
  BY <1>0, Zenon DEF TaskRec, LoopPcs
<1> HIDE DEF t
<1>5. /\ Tables' /\ Grows /\ \A s \in Tasks : Spares(s)
      /\ PublishedWasDelivered' /\ AnnouncedWasDelivered' /\ MappedIsSetUp'
  BY <1>2, DeliveredGrows, Zenon
<1>6. HooklessByFaults'
  <2>1. UNCHANGED <<disk, faults>> /\ ~At(w, "hooks")
    BY <1>0, <1>2, Zenon DEF At
  <2> QED BY <2>1, <1>0, <1>3, HooksKept, Zenon
<1>7. TaskOK(w)'
  <2>1. task'[w] = t /\ UNCHANGED outbox
    BY <1>0, <1>2, <1>3, Zenon DEF tables
  <2>2. /\ task[w].id \in DOMAIN outbox /\ outbox[task[w].id].event = task[w].event
        /\ outbox[task[w].id].status = "publishing" /\ task[w].event \in Events
    BY <1>0, Zenon DEF TaskOK, Holding
  <2>3. pc = "mark_ok" => <<outbox[task[w].id].url, task[w].event>> \in delivered'
    BY <1>1, Zenon DEF Deliver
  <2> QED BY <2>1, <2>2, <2>3, <1>4, Zenon DEF TaskOK, At, Provisioning, Holding, ProvisionPcs
<1>8. \A s \in Tasks \ {w} : task[s].pc \in Holding => task[s].id # t.id
  BY <1>0, <1>4, Zenon DEF Inv, Apart, Holding
<1>9. t.pc \notin ProvisionPcs
  BY <1>4, Zenon DEF ProvisionPcs
<1> QED BY <1>0, <1>3, <1>4, <1>5, <1>6, <1>7, <1>8, <1>9, Assemble, Zenon DEF Shown

LEMMA RetryType ==
    ASSUME NEW at \in Nat, NEW attempt \in Nat PROVE retry_after(at, attempt) \in Nat
<1> DEFINE n == IF attempt < 1 THEN 1 ELSE attempt
<1>1. n \in Nat
  OBVIOUS
<1> HIDE DEF n
<1>2. RetryBase * n \in Nat
  BY <1>1, OutboxAssumption
<1> DEFINE m == RetryBase * n
<1> HIDE DEF m
<1>3. m \in Nat
  BY <1>2, Zenon DEF m
<1>4. at + (IF m < RetryMax THEN m ELSE RetryMax) \in Nat
  BY <1>3, OutboxAssumption
<1> QED BY <1>4, Zenon DEF retry_after, m, n

\* The loop gives its row back, published or to be retried.
LEMMA MarkStep ==
    ASSUME Inv, NEW w \in Workers, task[w].pc \in Holding, NEW row \in Row, row.status # "publishing",
           row.event = outbox[task[w].id].event, row.url = outbox[task[w].id].url,
           row.status = "published" => <<row.url, row.event>> \in delivered,
           outbox' = [outbox EXCEPT ![task[w].id] = row],
           UNCHANGED <<announcements, mapping, world, request, now, faults>>,
           NEW t \in TaskRec, task' = [task EXCEPT ![w] = t],
           t.pc \in {"idle", "count"},
           t.pc = "count" => row.status = "published" /\ t.event = row.event
    PROVE  Inv'
<1>0. /\ w \in Tasks /\ TaskOK(w) /\ task \in [Tasks -> TaskRec]
  BY WorkersAreTasks, TaskTypes, Zenon DEF Inv
<1> DEFINE id == task[w].id
<1>1. id \in DOMAIN outbox
  BY <1>0, Zenon DEF TaskOK
<1>2. /\ Tables' /\ Grows /\ DOMAIN outbox' = DOMAIN outbox
      /\ outbox'[id] = row /\ \A j \in DOMAIN outbox \ {id} : outbox'[j] = outbox[j]
      /\ AnnouncedWasDelivered' /\ MappedIsSetUp' /\ PublishedWasDelivered'
  BY <1>1, RowWritten, Zenon
<1>3. HooklessByFaults'
  <2>1. UNCHANGED <<disk, faults>> /\ ~At(w, "hooks")
    BY Zenon DEF world, At, Holding
  <2> QED BY <2>1, <1>0, HooksKept, Zenon
<1>4. \A s \in Tasks \ {w} : task[s].pc \in Holding => task[s].id # id /\ task[s].id \in DOMAIN outbox
  BY <1>0, Zenon DEF Inv, TaskOK, Apart
<1>5. \A s \in Tasks \ {w} : Spares(s)
  BY <1>2, <1>4, Zenon DEF Spares
<1>6. TaskOK(w)'
  <2>1. task'[w] = t /\ UNCHANGED delivered
    BY <1>0, Zenon DEF world
  <2>2. CASE t.pc = "idle"
    BY SMTT(20), <2>1, <2>2, IdleIsOK
  <2>3. CASE t.pc = "count"
    <3>1. t.event \in Events /\ row.url \in Urls /\ <<row.url, t.event>> \in delivered
      BY <2>3, Zenon DEF Row
    <3> QED BY <2>1, <2>3, <3>1 DEF TaskOK, At, Provisioning, Holding, ProvisionPcs
  <2> QED BY <2>2, <2>3, Zenon
<1>7. t.pc \notin Holding /\ t.pc \notin ProvisionPcs
  BY Zenon DEF Holding, ProvisionPcs
<1> QED BY <1>0, <1>2, <1>3, <1>5, <1>6, <1>7, Assemble, Zenon DEF Shown

LEMMA MarkSucceededStep == ASSUME Inv, NEW w \in Workers, MarkSucceeded(w) PROVE Inv'
<1> DEFINE row == [outbox[task[w].id] EXCEPT !.status = "published"]
           t == [task[w] EXCEPT !.pc = "count"]
<1>0. /\ w \in Tasks /\ TaskOK(w) /\ task[w] \in TaskRec /\ task \in [Tasks -> TaskRec]
      /\ outbox \in Seq(Row) /\ task[w].pc = "mark_ok"
  BY WorkersAreTasks, TaskTypes, Zenon DEF Inv, Tables, MarkSucceeded, At
<1>1. /\ task[w].id \in DOMAIN outbox /\ outbox[task[w].id].event = task[w].event
      /\ <<outbox[task[w].id].url, task[w].event>> \in delivered
  BY <1>0, Zenon DEF TaskOK, At, Holding
<1>2. outbox[task[w].id] \in Row
  BY <1>0, <1>1
<1>3. /\ row \in Row /\ row.status = "published"
      /\ row.event = outbox[task[w].id].event /\ row.url = outbox[task[w].id].url
  BY <1>2, Zenon DEF Row
<1>4. outbox' = [outbox EXCEPT ![task[w].id] = row]
  BY <1>0, <1>1, <1>2, Zenon DEF MarkSucceeded, mark_relay_publish_succeeded
<1>5. task' = [task EXCEPT ![w] = t]
  BY <1>0, Zenon DEF MarkSucceeded, Goto
<1>6. t \in TaskRec /\ t.pc = "count" /\ t.event = row.event
  BY <1>0, <1>1, <1>3, Zenon DEF TaskRec, LoopPcs
<1>7. task[w].pc \in Holding
  BY <1>0, Zenon DEF Holding
<1> HIDE DEF row, t
<1> QED BY <1>1, <1>3, <1>4, <1>5, <1>6, <1>7, MarkStep, Zenon DEF MarkSucceeded

LEMMA MarkFailedStep == ASSUME Inv, NEW w \in Workers, MarkFailed(w) PROVE Inv'
<1> DEFINE after == retry_after(task[w].at, outbox[task[w].id].attempt)
           row == [outbox[task[w].id] EXCEPT !.status = "pending", !.publish_after = after]
<1>0. /\ w \in Tasks /\ TaskOK(w) /\ task[w] \in TaskRec /\ task \in [Tasks -> TaskRec]
      /\ outbox \in Seq(Row) /\ task[w].pc = "mark_failed"
  BY WorkersAreTasks, TaskTypes, Zenon DEF Inv, Tables, MarkFailed, At
<1>1. task[w].id \in DOMAIN outbox
  BY <1>0, Zenon DEF TaskOK, Holding
<1>2. outbox[task[w].id] \in Row
  BY <1>0, <1>1
<1>3. after \in Nat
  <2>1. task[w].at \in Nat /\ outbox[task[w].id].attempt \in Nat
    BY <1>0, <1>2, OutboxAssumption DEF TaskRec, Time, Row
  <2> QED BY <2>1, RetryType, Zenon
<1>4. outbox' = [outbox EXCEPT ![task[w].id].status = "pending", ![task[w].id].publish_after = after]
  BY Zenon DEF MarkFailed, mark_relay_publish_failed
<1> HIDE DEF after
<1>5. /\ row \in Row /\ row.status = "pending"
      /\ row.event = outbox[task[w].id].event /\ row.url = outbox[task[w].id].url
  BY <1>2, <1>3, Zenon DEF Row
<1>6. outbox' = [outbox EXCEPT ![task[w].id] = row]
  BY <1>0, <1>1, <1>2, <1>4, Zenon
<1>7. task' = [task EXCEPT ![w] = Idle] /\ Idle.pc = "idle" /\ task[w].pc \in Holding
  BY <1>0, Zenon DEF MarkFailed, Finish, Idle, Holding
<1> HIDE DEF row
<1> QED BY <1>5, <1>6, <1>7, IdleIsTask, MarkStep, Zenon DEF MarkFailed

-----------------------------------------------------------------------------
(***************************************************************************)
(* Provisioning.                                                           *)
(***************************************************************************)
\* A task that provisions goes on to the next call, or ends.
LEMMA ProvisionTypes ==
    ASSUME Inv, NEW p \in Tasks, task[p].pc \in ProvisionPcs
    PROVE  /\ task[p] \in TaskRec /\ task \in [Tasks -> TaskRec] /\ TaskOK(p)
           /\ task[p].event \in Events /\ Key(p) \in Repos /\ Repo[task[p].event] = Key(p)
           /\ Fork(p) \in ForgejoRepos /\ Fork(p) = <<Route(p), Key(p)>> /\ Route(p) \in Routes
<1>1. task[p] \in TaskRec /\ task \in [Tasks -> TaskRec] /\ TaskOK(p)
  BY Zenon DEF Inv
<1>2. task[p].event \in Events
  BY <1>1, Zenon DEF TaskOK, ProvisionPcs
<1> QED BY <1>1, <1>2, TaskTypes, Zenon DEF Key, Fork

LEMMA GotoIs ==
    ASSUME Inv, NEW p \in Tasks, task[p].pc \in ProvisionPcs, NEW pc \in ProvisionPcs, Goto(p, pc)
    PROVE  \E t \in TaskRec : /\ task' = [task EXCEPT ![p] = t] /\ task'[p] = t
                              /\ t.pc = pc /\ t.event = task[p].event
                              /\ Key(p)' = Key(p) /\ Fork(p)' = Fork(p) /\ Route(p)' = Route(p)
<1> DEFINE t == [task[p] EXCEPT !.pc = pc]
<1>1. task[p] \in TaskRec /\ task \in [Tasks -> TaskRec]
  BY Zenon DEF Inv
<1>2. t \in TaskRec /\ t.pc = pc /\ t.event = task[p].event
  BY <1>1, Zenon DEF TaskRec
<1>3. task' = [task EXCEPT ![p] = t] /\ task'[p] = t
  BY <1>1, Zenon DEF Goto
<1>4. Key(p)' = Key(p) /\ Fork(p)' = Fork(p) /\ Route(p)' = Route(p)
  BY <1>2, <1>3, Zenon DEF Key, Fork, Route
<1> QED BY <1>2, <1>3, <1>4, Zenon

\* What the next calls rely on, besides the Forgejo repository and its webhook.
LEMMA GoesOn ==
    ASSUME Inv, NEW p \in Tasks, Provisioning(p), NEW pc \in ProvisionPcs \ {"announce"}, Goto(p, pc),
           Tables', Shown', Grows, \A s \in Tasks \ {p} : Spares(s),
           pc \in {"list_hooks", "create_hook", "map"} => Fork(p) \in forgejo',
           pc = "map" => webhooks'[Fork(p)] > 0
    PROVE  Inv'
<1>0. /\ task[p].pc \in ProvisionPcs /\ TaskOK(p) /\ task[p].event \in Events
      /\ Route(p) \in Routes
  BY ProvisionTypes, Zenon DEF Provisioning
<1>1. PICK t \in TaskRec : /\ task' = [task EXCEPT ![p] = t] /\ task'[p] = t
                           /\ t.pc = pc /\ t.event = task[p].event
                           /\ Key(p)' = Key(p) /\ Fork(p)' = Fork(p) /\ Route(p)' = Route(p)
  BY <1>0, GotoIs, Zenon
<1>2. announcements'[t.event] = Route(p)
  BY <1>0, <1>1, Zenon DEF TaskOK, Grows, Routes
<1>3. p \in Workers => \E u \in Urls : <<u, t.event>> \in delivered'
  BY <1>0, <1>1, Zenon DEF TaskOK, Grows
<1>4. pc \notin Holding /\ pc \notin {"idle", "claim"} /\ pc # "mark_ok"
  BY Zenon DEF ProvisionPcs, Holding
<1>5. TaskOK(p)'
  BY <1>0, <1>1, <1>2, <1>3, <1>4, Zenon DEF TaskOK, At
<1>6. \A s \in Tasks \ {p} : Provisioning(s) => task[s].event # t.event
  BY <1>1, Zenon DEF Inv, Apart
<1> QED BY <1>1, <1>4, <1>5, <1>6, Assemble, Zenon

LEMMA EndsWith ==
    ASSUME Inv, NEW p \in Tasks, Finish(p), Tables', Shown', Grows, \A s \in Tasks \ {p} : Spares(s)
    PROVE  Inv'
<1>1. task' = [task EXCEPT ![p] = Idle] /\ task'[p] = Idle /\ Idle.pc = "idle"
  BY Zenon DEF Finish, Inv, Idle
<1>2. TaskOK(p)'
  BY <1>1, IdleIsOK
<1>3. Idle.pc \notin Holding /\ Idle.pc \notin ProvisionPcs
  BY <1>1, Zenon DEF Holding, ProvisionPcs
<1> QED BY <1>1, <1>2, <1>3, IdleIsTask, Assemble, Zenon

LEMMA PostStep ==
    ASSUME Inv, NEW h \in Handlers, NEW e \in Events, PostAnnouncement(h, e) PROVE Inv'
<1> DEFINE t == [Idle EXCEPT !.pc = "announce", !.event = e]
<1>1. t \in TaskRec /\ t.pc = "announce" /\ t.event = e
  BY IdleIsTask, Zenon DEF TaskRec, ProvisionPcs, Idle
<1>2. task' = [task EXCEPT ![h] = t] /\ task \in [Tasks -> TaskRec] /\ h \in Tasks /\ h \notin Workers
  BY OutboxAssumption, Zenon DEF PostAnnouncement, Inv, Tasks
<1> HIDE DEF t
<1>3. TaskOK(h)'
  BY <1>1, <1>2, Zenon DEF TaskOK, At, Provisioning, Holding
<1>4. t.pc \notin Holding /\ t.pc \notin ProvisionPcs \ {"announce"} /\ ~At(h, "hooks")
  BY <1>1, Zenon DEF Holding, PostAnnouncement, At
<1> QED BY <1>1, <1>2, <1>3, <1>4, FaultsStay, QuietStep, Zenon DEF PostAnnouncement

LEMMA InterruptStep == ASSUME Inv, NEW p \in Tasks, Interrupt(p) PROVE Inv'
<1>1. faults' \in 0 .. MaxFaults /\ faults' >= faults /\ faults' > 0
  BY OutboxAssumption DEF Inv, Tables, Interrupt
<1> QED BY <1>1, FinishStep, Zenon DEF Interrupt

\* The UNIQUE event_id: whoever stores the announcement is alone with its event.
LEMMA AnnounceStep == ASSUME Inv, NEW p \in Tasks, Announce(p) PROVE Inv'
<1>0. /\ task[p].pc = "announce" /\ task[p].pc \in ProvisionPcs
      /\ UNCHANGED <<outbox, mapping, delivered, forgejo, webhooks, disk, request, now, faults>>
  BY Zenon DEF Announce, At, ProvisionPcs, world
<1>1. /\ task \in [Tasks -> TaskRec] /\ TaskOK(p) /\ task[p].event \in Events /\ Route(p) \in Routes
  BY <1>0, ProvisionTypes, Zenon
<1>2. CASE announcements[task[p].event] # "none"
  BY <1>0, <1>2, FaultsStay, FinishStep, Zenon DEF Announce, At, tables, world
<1>3. CASE announcements[task[p].event] = "none"
  <2>1. Goto(p, "ensure_repo") /\ announcements' = [announcements EXCEPT ![task[p].event] = Route(p)]
    BY <1>3, Zenon DEF Announce
  <2>2. PICK t \in TaskRec : /\ task' = [task EXCEPT ![p] = t] /\ task'[p] = t
                             /\ t.pc = "ensure_repo" /\ t.event = task[p].event
                             /\ Key(p)' = Key(p) /\ Fork(p)' = Fork(p) /\ Route(p)' = Route(p)
    <3>1. "ensure_repo" \in ProvisionPcs
      BY Zenon DEF ProvisionPcs
    <3> QED BY <3>1, <2>1, <1>0, GotoIs, Zenon
  <2>3. announcements \in [Events -> Routes \union {"none"}]
    BY Zenon DEF Inv, Tables
  <2>4. /\ announcements'[task[p].event] = Route(p)
        /\ \A e \in Events \ {task[p].event} : announcements'[e] = announcements[e]
        /\ announcements' \in [Events -> Routes \union {"none"}]
    BY <1>1, <2>1, <2>3, Zenon
  <2>5. Tables'
    BY <1>0, <2>4, Zenon DEF Inv, Tables
  <2>6. Grows
    BY <1>0, <1>3, <2>4 DEF Inv, Tables, Grows
  <2>7. \A s \in Tasks : Spares(s)
    BY <1>0, Zenon DEF Spares
  <2>8. p \in Workers => \E u \in Urls : <<u, task[p].event>> \in delivered
    BY <1>0, <1>1, Zenon DEF TaskOK
  <2>9. Shown'
    <3>1. PublishedWasDelivered'
      BY <1>0, Zenon DEF Inv, Shown, PublishedWasDelivered
    <3>2. AnnouncedWasDelivered'
      BY <1>0, <2>4, <2>8, ZenonT(30) DEF Inv, Shown, AnnouncedWasDelivered, Route
    <3>3. MappedIsSetUp'
      BY <1>0, <1>3, <2>4 DEF Inv, Shown, MappedIsSetUp
    <3>4. HooklessByFaults'
      BY <1>0, <2>2, HooksKept, Zenon DEF At
    <3> QED BY <3>1, <3>2, <3>3, <3>4, Zenon DEF Shown
  <2>10. TaskOK(p)'
    BY <1>0, <1>1, <2>2, <2>4, <2>8, Zenon DEF TaskOK, At, Holding
  <2>11. \A s \in Tasks \ {p} : Provisioning(s) => task[s].event # t.event
    BY <1>3, <2>2, Zenon DEF Inv, TaskOK, Route
  <2>12. t.pc \notin Holding
    BY <2>2, Zenon DEF Holding
  <2> QED BY <2>2, <2>5, <2>6, <2>7, <2>9, <2>10, <2>11, <2>12, Assemble, ZenonT(30)
<1> QED BY <1>2, <1>3, Zenon

LEMMA EnsureRepoStep == ASSUME Inv, NEW p \in Tasks, EnsureRepo(p) PROVE Inv'
<1>0. /\ task[p].pc = "ensure_repo" /\ task[p].pc \in ProvisionPcs /\ Provisioning(p)
      /\ UNCHANGED <<outbox, announcements, mapping, delivered, webhooks, disk, request, now, faults>>
  BY Zenon DEF EnsureRepo, At, ProvisionPcs, Provisioning, tables
<1>1. Fork(p) \in ForgejoRepos
  BY <1>0, ProvisionTypes, Zenon
<1>2. Tables' /\ Grows /\ \A s \in Tasks : Spares(s)
  BY <1>0, <1>1 DEF EnsureRepo, Inv, Tables, Grows, Spares
<1>3. Fork(p) \in forgejo'
  BY Zenon DEF EnsureRepo
<1>4. PublishedWasDelivered' /\ AnnouncedWasDelivered' /\ MappedIsSetUp'
  BY <1>0, Zenon DEF EnsureRepo, Inv, Shown, PublishedWasDelivered, AnnouncedWasDelivered, MappedIsSetUp
<1>5. "list_hooks" \in ProvisionPcs \ {"announce"} /\ "list_hooks" \in ProvisionPcs /\ Goto(p, "list_hooks")
  BY Zenon DEF ProvisionPcs, EnsureRepo
<1>6. HooklessByFaults'
  BY SMTT(20), <1>0, <1>5, GotoIs, HooksKept DEF At
<1> QED BY <1>0, <1>2, <1>3, <1>4, <1>5, <1>6, GoesOn, Zenon DEF Shown

LEMMA ListHooksStep == ASSUME Inv, NEW p \in Tasks, ListHooks(p) PROVE Inv'
<1>0. /\ task[p].pc = "list_hooks" /\ task[p].pc \in ProvisionPcs /\ Provisioning(p)
      /\ UNCHANGED <<tables, world, request, now, faults>>
  BY Zenon DEF ListHooks, At, ProvisionPcs, Provisioning
<1>1. /\ Fork(p) \in ForgejoRepos /\ Fork(p) \in forgejo /\ webhooks[Fork(p)] \in Nat
      /\ UNCHANGED <<forgejo, webhooks, disk>>
  BY <1>0, ProvisionTypes, Zenon DEF TaskOK, Inv, Tables, world
<1> DEFINE pc == IF webhooks[Fork(p)] = 0 THEN "create_hook" ELSE "map"
<1>2. /\ pc \in ProvisionPcs \ {"announce"} /\ pc \in ProvisionPcs /\ Goto(p, pc)
      /\ (pc = "map" => webhooks'[Fork(p)] > 0)
  BY <1>1 DEF ProvisionPcs, ListHooks
<1> HIDE DEF pc
<1>3. Tables'
  BY <1>0, Zenon DEF Inv, Tables, tables, world
<1>4. HooklessByFaults'
  BY SMTT(20), <1>0, <1>1, <1>2, GotoIs, HooksKept DEF At
<1> QED BY <1>0, <1>1, <1>2, <1>3, <1>4, SameTables, GoesOn, Zenon DEF Shown

LEMMA CreateHookStep == ASSUME Inv, NEW p \in Tasks, CreateHook(p) PROVE Inv'
<1>0. /\ task[p].pc = "create_hook" /\ task[p].pc \in ProvisionPcs /\ Provisioning(p)
      /\ UNCHANGED <<outbox, announcements, mapping, delivered, forgejo, disk, request, now, faults>>
  BY Zenon DEF CreateHook, At, ProvisionPcs, Provisioning, tables
<1>1. Fork(p) \in ForgejoRepos /\ Fork(p) \in forgejo /\ webhooks \in [ForgejoRepos -> Nat]
  BY <1>0, ProvisionTypes, Zenon DEF TaskOK, Inv, Tables
<1>2. /\ webhooks'[Fork(p)] = webhooks[Fork(p)] + 1 /\ webhooks[Fork(p)] \in Nat
      /\ \A f \in ForgejoRepos \ {Fork(p)} : webhooks'[f] = webhooks[f] /\ webhooks[f] \in Nat
      /\ webhooks' \in [ForgejoRepos -> Nat]
  BY <1>1 DEF CreateHook
<1>3. \A f \in ForgejoRepos : webhooks'[f] \in Nat /\ webhooks'[f] >= webhooks[f] /\ webhooks[f] \in Nat
  BY <1>2
<1>4. Tables' /\ Grows /\ \A s \in Tasks : Spares(s)
  BY <1>0, <1>2, <1>3, Zenon DEF Inv, Tables, Grows, Spares
<1>5. PublishedWasDelivered' /\ AnnouncedWasDelivered'
  BY <1>0, Zenon DEF Inv, Shown, PublishedWasDelivered, AnnouncedWasDelivered
<1>6. MappedIsSetUp'
  <2> SUFFICES ASSUME NEW k \in Repos, mapping[k] # "none"
               PROVE  /\ <<mapping[k], k>> \in forgejo
                      /\ webhooks'[<<mapping[k], k>>] > 0
                      /\ \E e \in Events : Repo[e] = k /\ announcements[e] = mapping[k]
    BY <1>0, Zenon DEF MappedIsSetUp
  <2>1. /\ <<mapping[k], k>> \in forgejo /\ webhooks[<<mapping[k], k>>] > 0
        /\ \E e \in Events : Repo[e] = k /\ announcements[e] = mapping[k]
    BY Zenon DEF Inv, Shown, MappedIsSetUp
  <2> DEFINE f == <<mapping[k], k>>
  <2>2. f \in ForgejoRepos
    BY <2>1, Zenon DEF Inv, Tables
  <2> HIDE DEF f
  <2>3. webhooks'[f] > 0
    BY <1>3, <2>1, <2>2 DEF f
  <2> QED BY <2>1, <2>3, Zenon DEF f
<1>7. "map" \in ProvisionPcs \ {"announce"} /\ "map" \in ProvisionPcs /\ Goto(p, "map")
  BY Zenon DEF ProvisionPcs, CreateHook
<1>8. HooklessByFaults'
  BY SMTT(20), <1>0, <1>7, GotoIs, HooksKept DEF At
<1>9. webhooks'[Fork(p)] > 0
  BY <1>2
<1> QED BY <1>0, <1>1, <1>4, <1>5, <1>6, <1>7, <1>8, <1>9, GoesOn, Zenon DEF Shown

LEMMA UpsertMappingStep == ASSUME Inv, NEW p \in Tasks, UpsertMapping(p) PROVE Inv'
<1>0. /\ task[p].pc = "map" /\ task[p].pc \in ProvisionPcs /\ Provisioning(p)
      /\ UNCHANGED <<outbox, announcements, delivered, forgejo, webhooks, disk, request, now, faults>>
  BY Zenon DEF UpsertMapping, At, ProvisionPcs, Provisioning, world
<1>1. CASE mapping[Key(p)] \notin {"none", Route(p)}
  BY <1>0, <1>1, FaultsStay, FinishStep, Zenon DEF UpsertMapping, At, tables, world
<1>2. CASE mapping[Key(p)] \in {"none", Route(p)}
  <2>1. Goto(p, "init") /\ mapping' = [mapping EXCEPT ![Key(p)] = Route(p)]
    BY <1>2, Zenon DEF UpsertMapping
  <2>2. /\ task[p].event \in Events /\ Key(p) \in Repos /\ Repo[task[p].event] = Key(p)
        /\ Fork(p) = <<Route(p), Key(p)>> /\ Route(p) \in Routes /\ TaskOK(p)
        /\ mapping \in [Repos -> Routes \union {"none"}]
    BY <1>0, ProvisionTypes, Zenon DEF Inv, Tables
  <2>3. /\ mapping'[Key(p)] = Route(p) /\ \A k \in Repos \ {Key(p)} : mapping'[k] = mapping[k]
        /\ mapping' \in [Repos -> Routes \union {"none"}]
    BY <2>1, <2>2, ZenonT(30)
  <2>4. Tables' /\ Grows /\ \A s \in Tasks : Spares(s)
    BY <1>0, <2>3 DEF Inv, Tables, Grows, Spares
  <2>5. PublishedWasDelivered' /\ AnnouncedWasDelivered'
    BY <1>0, Zenon DEF Inv, Shown, PublishedWasDelivered, AnnouncedWasDelivered
  <2>6. /\ <<Route(p), Key(p)>> \in forgejo /\ webhooks[<<Route(p), Key(p)>>] > 0
        /\ announcements[task[p].event] = Route(p)
    BY <1>0, <2>2, ZenonT(30) DEF TaskOK, At
  <2>7. MappedIsSetUp'
    BY SMTT(20), <1>0, <2>2, <2>3, <2>6 DEF Inv, Shown, MappedIsSetUp
  <2>8. "init" \in ProvisionPcs \ {"announce"} /\ "init" \in ProvisionPcs
    BY Zenon DEF ProvisionPcs
  <2>9. HooklessByFaults'
    BY SMTT(20), <1>0, <2>1, <2>8, GotoIs, HooksKept DEF At
  <2> QED BY <1>0, <2>1, <2>4, <2>5, <2>7, <2>8, <2>9, GoesOn, Zenon DEF Shown
<1> QED BY <1>1, <1>2, Zenon

\* The bare repository: from its creation to its hooks the task is on its way.
LEMMA DiskWritten ==
    ASSUME Inv, NEW p \in Tasks, NEW v \in {"bare", "hooked"},
           disk' = [disk EXCEPT ![Key(p)] = v], Key(p) \in Repos,
           UNCHANGED <<tables, delivered, forgejo, webhooks, request, now, faults>>
    PROVE  /\ Tables' /\ Grows /\ \A s \in Tasks : Spares(s)
           /\ PublishedWasDelivered' /\ AnnouncedWasDelivered' /\ MappedIsSetUp'
           /\ disk'[Key(p)] = v /\ \A k \in Repos \ {Key(p)} : disk'[k] = disk[k]
<1>0. UNCHANGED <<outbox, announcements, mapping, delivered, forgejo, webhooks, request, now, faults>>
  BY Zenon DEF tables
<1>1. /\ disk' \in [Repos -> {"none", "bare", "hooked"}]
      /\ disk'[Key(p)] = v /\ \A k \in Repos \ {Key(p)} : disk'[k] = disk[k]
  BY Zenon DEF Inv, Tables
<1>2. Tables' /\ Grows /\ \A s \in Tasks : Spares(s)
  BY <1>0, <1>1 DEF Inv, Tables, Grows, Spares
<1>3. PublishedWasDelivered' /\ AnnouncedWasDelivered' /\ MappedIsSetUp'
  BY <1>0, Zenon DEF Inv, Shown, PublishedWasDelivered, AnnouncedWasDelivered, MappedIsSetUp
<1> QED BY <1>1, <1>2, <1>3, Zenon

LEMMA InitRepoStep == ASSUME Inv, NEW p \in Tasks, InitRepo(p) PROVE Inv'
<1>0. /\ task[p].pc = "init" /\ task[p].pc \in ProvisionPcs /\ Provisioning(p)
  BY Zenon DEF InitRepo, At, ProvisionPcs, Provisioning
<1>1. CASE disk[Key(p)] # "none"
  BY <1>0, <1>1, FaultsStay, FinishStep, Zenon DEF InitRepo, At, world
<1>2. CASE disk[Key(p)] = "none"
  <2>1. /\ Goto(p, "hooks") /\ disk' = [disk EXCEPT ![Key(p)] = "bare"]
        /\ UNCHANGED <<tables, delivered, forgejo, webhooks, request, now, faults>>
    BY <1>2, Zenon DEF InitRepo
  <2>2. Key(p) \in Repos /\ task \in [Tasks -> TaskRec]
    BY <1>0, ProvisionTypes, Zenon
  <2>3. /\ Tables' /\ Grows /\ \A s \in Tasks : Spares(s)
        /\ PublishedWasDelivered' /\ AnnouncedWasDelivered' /\ MappedIsSetUp'
        /\ \A k \in Repos \ {Key(p)} : disk'[k] = disk[k]
    BY <2>1, <2>2, DiskWritten, Zenon
  <2>4. "hooks" \in ProvisionPcs \ {"announce"} /\ "hooks" \in ProvisionPcs
    BY Zenon DEF ProvisionPcs
  <2>5. PICK t \in TaskRec : /\ task' = [task EXCEPT ![p] = t] /\ task'[p] = t
                             /\ t.pc = "hooks" /\ Key(p)' = Key(p)
    BY SMTT(20), <1>0, <2>1, <2>4, GotoIs
  <2>6. HooklessByFaults'
    <3> SUFFICES ASSUME NEW k \in Repos, disk'[k] = "bare", ~(faults > 0)
                 PROVE  \E s \in Tasks : At(s, "hooks")' /\ Key(s)' = k
      BY <2>1, Zenon DEF HooklessByFaults
    <3>1. CASE k = Key(p)
      BY <3>1, <2>5, Zenon DEF At
    <3>2. CASE k # Key(p)
      <4>1. PICK s \in Tasks : At(s, "hooks") /\ Key(s) = k
        BY <3>2, <2>3, Zenon DEF Inv, Shown, HooklessByFaults
      <4>2. task'[s] = task[s]
        BY <4>1, <3>2, <2>2, <2>5, Zenon
      <4> QED BY <4>1, <4>2, Zenon DEF At, Key
    <3> QED BY <3>1, <3>2, Zenon
  <2> QED BY <1>0, <2>1, <2>3, <2>4, <2>6, GoesOn, ZenonT(30) DEF Shown
<1> QED BY <1>1, <1>2, Zenon

LEMMA InstallHooksStep == ASSUME Inv, NEW p \in Tasks, InstallHooks(p) PROVE Inv'
<1>0. /\ task[p].pc = "hooks" /\ task[p].pc \in ProvisionPcs
      /\ Finish(p) /\ disk' = [disk EXCEPT ![Key(p)] = "hooked"]
      /\ UNCHANGED <<tables, delivered, forgejo, webhooks, request, now, faults>>
  BY Zenon DEF InstallHooks, At, ProvisionPcs
<1>1. Key(p) \in Repos /\ task \in [Tasks -> TaskRec]
  BY <1>0, ProvisionTypes, Zenon
<1>2. /\ Tables' /\ Grows /\ \A s \in Tasks : Spares(s)
      /\ PublishedWasDelivered' /\ AnnouncedWasDelivered' /\ MappedIsSetUp'
      /\ disk'[Key(p)] = "hooked" /\ \A k \in Repos \ {Key(p)} : disk'[k] = disk[k]
  BY <1>0, <1>1, DiskWritten, Zenon
<1>3. HooklessByFaults'
  <2> SUFFICES ASSUME NEW k \in Repos, disk'[k] = "bare", ~(faults > 0)
               PROVE  \E s \in Tasks : At(s, "hooks")' /\ Key(s)' = k
    BY <1>0, Zenon DEF HooklessByFaults
  <2>1. k # Key(p) /\ disk[k] = "bare"
    BY <1>2, Zenon
  <2>2. PICK s \in Tasks : At(s, "hooks") /\ Key(s) = k
    BY <2>1, Zenon DEF Inv, Shown, HooklessByFaults
  <2>3. task'[s] = task[s]
    BY <2>1, <2>2, <1>0, <1>1, Zenon DEF Finish
  <2> QED BY <2>2, <2>3, Zenon DEF At, Key
<1> QED BY <1>0, <1>2, <1>3, EndsWith, Zenon DEF Shown

-----------------------------------------------------------------------------
LEMMA InitInv == Init => Inv
<1> SUFFICES ASSUME Init PROVE Inv
  OBVIOUS
<1>1. Len(RelayUrls) \in Nat \ {0}
  BY OutboxAssumption
<1>2. outbox \in Seq(Row) /\ DOMAIN outbox = {}
  BY DEF Init
<1>3. Tables
  BY <1>1, <1>2, OutboxAssumption DEF Init, Tables, Time
<1>4. task \in [Tasks -> TaskRec] /\ \A p \in Tasks : task[p] = Idle
  BY IdleIsTask, Zenon DEF Init
<1>5. Shown
  BY <1>2, Zenon DEF Init, Shown, PublishedWasDelivered, AnnouncedWasDelivered, MappedIsSetUp, HooklessByFaults
<1>6. \A p \in Tasks : TaskOK(p)
  BY SMTT(20), <1>4 DEF Idle, TaskOK, At, Provisioning, Holding, ProvisionPcs
<1>7. \A p, q \in Tasks : Apart(p, q)
  BY <1>4 DEF Idle, Apart, Provisioning, Holding, ProvisionPcs
<1> QED BY <1>3, <1>4, <1>5, <1>6, <1>7, Zenon DEF Inv

LEMMA StepInv == Inv /\ [Next]_vars => Inv'
<1> SUFFICES ASSUME Inv, [Next]_vars PROVE Inv'
  OBVIOUS
<1>1. ASSUME NEW r \in Requests, RequestStep(r) PROVE Inv'
  BY <1>1, CreateRepoStep, EnqueueStep, OtherStep, Zenon DEF RequestStep
<1>2. ASSUME NEW w \in Workers, LoopStep(w) PROVE Inv'
  BY <1>2, PollStep, ClaimStep, ClaimNoneStep, PublishStep, MarkSucceededStep, MarkFailedStep, CountStep, Zenon
  DEF LoopStep
<1>3. ASSUME NEW p \in Tasks, ProvisionStep(p) PROVE Inv'
  BY <1>3, AnnounceStep, EnsureRepoStep, ListHooksStep, CreateHookStep, UpsertMappingStep, Zenon,
     InitRepoStep, InstallHooksStep
  DEF ProvisionStep
<1> QED BY <1>1, <1>2, <1>3, PostStep, InterruptStep, OtherStep, ZenonT(30) DEF Next

LEMMA Invariance == Spec => []Inv
  BY InitInv, StepInv, PTL DEF Spec

\* Every table and every handler in flight keeps the shape the code gives it.
THEOREM OutboxTypes == Spec => []TypeOK
<1>1. Inv => TypeOK
  BY Zenon DEF Inv, Tables, TypeOK, TaskRec
<1> QED BY <1>1, Invariance, PTL

\* claim_relay_publish hands a row to one loop at a time, whatever fails, is retried or
\* restarted, and for any number of coordinators.
THEOREM RowsAreClaimedByOne == Spec => []ClaimedByOne
<1>1. ASSUME Inv PROVE ClaimedByOne
  <2> SUFFICES ASSUME NEW p \in Tasks, NEW id \in DOMAIN outbox, Holds(p, id)
               PROVE  /\ outbox[id].status = "publishing"
                      /\ \A q \in Tasks : Holds(q, id) => q = p
    BY Zenon DEF ClaimedByOne
  <2>1. TaskOK(p) /\ \A q \in Tasks : p # q => Apart(p, q)
    BY <1>1, Zenon DEF Inv
  <2> QED BY <2>1, Zenon DEF TaskOK, Apart, Holds
<1> QED BY <1>1, Invariance, PTL

\* mark_relay_publish_succeeded is only reached after the row's relay has stored its event.
THEOREM PublishedRowsWereDelivered == Spec => []PublishedWasDelivered
<1>1. Inv => PublishedWasDelivered
  BY Zenon DEF Inv, Shown
<1> QED BY <1>1, Invariance, PTL

\* An announcement recorded by finalize_outbox_job is on at least one relay, and an event
\* is provisioned by one task at most, although POST /announcement and the loops of all
\* coordinators run the same code.
THEOREM AnnouncementsAreOwned == Spec => [](AnnouncedWasDelivered /\ ProvisionedByOne)
<1>1. Inv => AnnouncedWasDelivered /\ ProvisionedByOne
  BY Zenon DEF Inv, Shown, Apart, Provisioning, ProvisionedByOne
<1> QED BY <1>1, Invariance, PTL

\* A stored mapping names a Forgejo repository that exists, with its webhook and an
\* announcement, at whatever call a provisioning stopped.
THEOREM MappingsAreSetUp == Spec => []MappedIsSetUp
<1>1. Inv => MappedIsSetUp
  BY Zenon DEF Inv, Shown
<1> QED BY <1>1, Invariance, PTL

\* A bare repository without hooks is being provisioned or was left by a fault.
THEOREM HooklessRepositories == Spec => []HooklessByFaults
<1>1. Inv => HooklessByFaults
  BY Zenon DEF Inv, Shown
<1> QED BY <1>1, Invariance, PTL

\* Who writes the outbox table.
LEMMA OutboxWriters ==
    ASSUME [Next]_vars, outbox' # outbox
    PROVE  \/ \E r \in Requests : Enqueue(r)
           \/ \E w \in Workers : Claim(w) \/ MarkSucceeded(w) \/ MarkFailed(w)
<1>1. ASSUME NEW r \in Requests, RequestStep(r) PROVE Enqueue(r)
  BY <1>1, Zenon DEF RequestStep, CreateRepo, EnqueueFail, tables
<1>2. ASSUME NEW w \in Workers, LoopStep(w) PROVE Claim(w) \/ MarkSucceeded(w) \/ MarkFailed(w)
  BY <1>2, Zenon DEF LoopStep, Poll, ClaimNone, PublishOk, PublishErr, Count, tables
<1>3. ASSUME NEW p \in Tasks, ProvisionStep(p) PROVE FALSE
  BY <1>3, Zenon DEF ProvisionStep, Announce, EnsureRepo, ListHooks, CreateHook, UpsertMapping,
              InitRepo, InstallHooks, tables
<1>4. ASSUME NEW p \in Tasks, Interrupt(p) PROVE FALSE
  BY <1>4, Zenon DEF Interrupt, tables
<1>5. ASSUME NEW h \in Handlers, NEW e \in Events, PostAnnouncement(h, e) PROVE FALSE
  BY <1>5, Zenon DEF PostAnnouncement, tables
<1>6. ~Tick /\ ~UNCHANGED vars
  BY Zenon DEF Tick, vars, tables
<1> QED BY <1>1, <1>2, <1>3, <1>4, <1>5, <1>6, Zenon DEF Next

\* A published row stays published: it is never claimed again, and the one loop that
\* may rewrite a row holds it "publishing".
THEOREM PublishedStaysPublished == Spec => PublishedIsFinal
<1> DEFINE Final == \A id \in DOMAIN outbox :
                        outbox[id].status = "published" => outbox'[id].status = "published"
<1>1. Inv /\ [Next]_vars => [Final]_outbox
  <2> SUFFICES ASSUME Inv, [Next]_vars, outbox' # outbox PROVE Final
    BY Zenon DEF vars, tables
  <2>0. outbox \in Seq(Row)
    BY Zenon DEF Inv, Tables
  <2>1. ASSUME NEW r \in Requests, Enqueue(r) PROVE Final
    BY <2>0, <2>1 DEF Enqueue, enqueue_relay_publish
  <2>2. ASSUME NEW w \in Workers, Claim(w) PROVE Final
    BY <2>0, <2>2, Zenon DEF Claim, Due
  <2>3. ASSUME NEW w \in Workers, MarkSucceeded(w) PROVE Final
    BY <2>0, <2>3 DEF MarkSucceeded, mark_relay_publish_succeeded
  <2>4. ASSUME NEW w \in Workers, MarkFailed(w) PROVE Final
    <3>1. task[w].id \in DOMAIN outbox /\ outbox[task[w].id].status = "publishing"
      BY <2>4, WorkersAreTasks, Zenon DEF MarkFailed, At, Inv, TaskOK, Holding
    <3> QED BY <2>0, <2>4, <3>1, Zenon DEF MarkFailed, mark_relay_publish_failed
  <2>5. \/ \E r \in Requests : Enqueue(r)
        \/ \E w \in Workers : Claim(w) \/ MarkSucceeded(w) \/ MarkFailed(w)
    BY OutboxWriters, Zenon
  <2> QED BY <2>1, <2>2, <2>3, <2>4, <2>5, Zenon
<1> QED BY <1>1, Invariance, PTL DEF Spec, PublishedIsFinal
-----------------------------------------------------------------------------
(***************************************************************************)
(* Stranded rows.  A loop lets go of its row only when it has given it     *)
(* another status, except in Interrupt, which counts a fault.              *)
(***************************************************************************)
Stranded ==
    {id \in DOMAIN outbox : outbox[id].status = "publishing" /\ \A p \in Tasks : ~Holds(p, id)}

LEMMA KeepsHold ==
    ASSUME Inv, NEW p \in Tasks, NEW t, task' = [task EXCEPT ![p] = t], UNCHANGED outbox,
           task[p].pc \in Holding => t.pc \in Holding /\ t.id = task[p].id
    PROVE  Stranded' \subseteq Stranded
<1>1. task'[p] = t /\ \A s \in Tasks \ {p} : task'[s] = task[s]
  BY Zenon DEF Inv
<1> QED BY <1>1, Zenon DEF Stranded, Holds

\* One row gets a new status and one task changes: no other row is let go of.
LEMMA RowMoves ==
    ASSUME Inv, NEW p \in Tasks, NEW t, task' = [task EXCEPT ![p] = t],
           NEW id \in DOMAIN outbox, NEW row, outbox' = [outbox EXCEPT ![id] = row],
           task[p].pc \in Holding => task[p].id = id,
           row.status = "publishing" => t.pc \in Holding /\ t.id = id
    PROVE  Stranded' \subseteq Stranded
<1>1. task'[p] = t /\ \A s \in Tasks \ {p} : task'[s] = task[s]
  BY Zenon DEF Inv
<1>2. DOMAIN outbox' = DOMAIN outbox /\ outbox'[id] = row /\ \A j \in DOMAIN outbox \ {id} : outbox'[j] = outbox[j]
  BY Zenon
<1> SUFFICES ASSUME NEW j \in Stranded' PROVE j \in Stranded
  BY Zenon
<1>3. j \in DOMAIN outbox /\ outbox'[j].status = "publishing" /\ \A s \in Tasks : ~Holds(s, j)'
  BY <1>2, Zenon DEF Stranded
<1>4. j # id
  BY <1>1, <1>2, <1>3, Zenon DEF Holds
<1> QED BY <1>1, <1>2, <1>3, <1>4, Zenon DEF Stranded, Holds

LEMMA EnqueueStrands == ASSUME Inv, NEW r \in Requests, Enqueue(r) PROVE Stranded' \subseteq Stranded
<1> DEFINE row == [event |-> Posts[r], url |-> RelayUrls[request[r].next], status |-> "pending",
                   attempt |-> 0, publish_after |-> now]
<1>1. outbox' = Append(outbox, row) /\ task' = task /\ row.status = "pending"
  BY Zenon DEF Enqueue, enqueue_relay_publish
<1>2. outbox \in Seq(Row)
  BY Zenon DEF Inv, Tables
<1> HIDE DEF row
<1>3. \A id \in DOMAIN outbox' : outbox'[id] = row \/ (id \in DOMAIN outbox /\ outbox'[id] = outbox[id])
  BY <1>1, <1>2
<1> QED BY <1>1, <1>3, Zenon DEF Stranded, Holds

LEMMA LoopStrands == ASSUME Inv, NEW w \in Workers, LoopStep(w) PROVE Stranded' \subseteq Stranded
<1>0. w \in Tasks /\ task[w] \in TaskRec /\ TaskOK(w) /\ task \in [Tasks -> TaskRec] /\ outbox \in Seq(Row)
  BY WorkersAreTasks, TaskTypes, Zenon DEF Inv, Tables
<1>1. ASSUME task[w].pc \notin Holding, NEW t, task' = [task EXCEPT ![w] = t], UNCHANGED outbox
      PROVE  Stranded' \subseteq Stranded
  BY <1>0, <1>1, KeepsHold, Zenon
<1>2. CASE Poll(w) \/ ClaimNone(w) \/ Count(w)
  <2>1. task[w].pc \notin Holding /\ UNCHANGED outbox
    BY <1>2, Zenon DEF Poll, ClaimNone, Count, At, Holding, tables
  <2>2. \E t : task' = [task EXCEPT ![w] = t]
    BY <1>2, Zenon DEF Poll, ClaimNone, Count, Goto, Finish
  <2> QED BY <1>1, <2>1, <2>2, Zenon
<1>3. CASE PublishOk(w) \/ PublishErr(w)
  <2> DEFINE t(pc) == [task[w] EXCEPT !.pc = pc]
  <2>1. UNCHANGED outbox /\ (Goto(w, "mark_ok") \/ Goto(w, "mark_failed"))
    BY <1>3, Zenon DEF PublishOk, PublishErr, tables
  <2>2. task' = [task EXCEPT ![w] = t("mark_ok")] \/ task' = [task EXCEPT ![w] = t("mark_failed")]
    BY <2>1, Zenon DEF Goto
  <2>3. \A pc : t(pc).pc = pc /\ t(pc).id = task[w].id
    BY <1>0, Zenon DEF TaskRec
  <2>4. "mark_ok" \in Holding /\ "mark_failed" \in Holding
    BY Zenon DEF Holding
  <2> HIDE DEF t
  <2> QED BY <1>0, <2>1, <2>2, <2>3, <2>4, KeepsHold, Zenon
<1>4. CASE Claim(w)
  <2>1. PICK id \in DOMAIN outbox :
          /\ outbox' = [outbox EXCEPT ![id].status = "publishing", ![id].attempt = @ + 1]
          /\ task' = [task EXCEPT ![w].pc = "publish", ![w].id = id, ![w].event = outbox[id].event]
    BY <1>4, Zenon DEF Claim
  <2> DEFINE row == [outbox[id] EXCEPT !.status = "publishing", !.attempt = @ + 1]
             t == [task[w] EXCEPT !.pc = "publish", !.id = id, !.event = outbox[id].event]
  <2>2. outbox' = [outbox EXCEPT ![id] = row] /\ task' = [task EXCEPT ![w] = t]
    BY <2>1, Zenon
  <2>3. t.pc \in Holding /\ t.id = id
    BY <1>0, Zenon DEF TaskRec, Holding
  <2>4. task[w].pc \notin Holding
    BY <1>4, Zenon DEF Claim, At, Holding
  <2> HIDE DEF row, t
  <2> QED BY <1>0, <2>2, <2>3, <2>4, RowMoves, Zenon
<1>5. ASSUME NEW row, task[w].pc \in Holding, outbox' = [outbox EXCEPT ![task[w].id] = row],
             row.status # "publishing", NEW t, task' = [task EXCEPT ![w] = t]
      PROVE  Stranded' \subseteq Stranded
  <2>1. task[w].id \in DOMAIN outbox
    BY <1>0, <1>5, Zenon DEF TaskOK
  <2>2. PICK id \in DOMAIN outbox : id = task[w].id
    BY <2>1, Zenon
  <2> QED BY <1>0, <1>5, <2>2, RowMoves, Zenon
<1>6. CASE MarkSucceeded(w) \/ MarkFailed(w)
  <2> DEFINE id == task[w].id
             after == retry_after(task[w].at, outbox[task[w].id].attempt)
             ok == [outbox[id] EXCEPT !.status = "published"]
             ko == [outbox[id] EXCEPT !.status = "pending", !.publish_after = after]
  <2>1. task[w].pc \in Holding
    BY <1>6, Zenon DEF MarkSucceeded, MarkFailed, At, Holding
  <2>2. \E t : task' = [task EXCEPT ![w] = t]
    BY <1>6, Zenon DEF MarkSucceeded, MarkFailed, Goto, Finish
  <2>3. id \in DOMAIN outbox
    BY <1>0, <2>1, Zenon DEF TaskOK
  <2>4. outbox[id] \in Row
    BY <1>0, <2>3
  <2> HIDE DEF after
  <2>5. ok.status = "published" /\ ko.status = "pending"
    BY <2>4, Zenon DEF Row
  <2>6. outbox' = [outbox EXCEPT ![id] = ok] \/ outbox' = [outbox EXCEPT ![id] = ko]
    BY <1>6, Zenon DEF MarkSucceeded, MarkFailed, mark_relay_publish_succeeded, mark_relay_publish_failed, after
  <2> HIDE DEF ok, ko
  <2> QED BY <1>5, <2>1, <2>2, <2>5, <2>6, Zenon
<1> QED BY <1>2, <1>3, <1>4, <1>6, Zenon DEF LoopStep

LEMMA ProvisionStrands ==
    ASSUME Inv, \/ \E p \in Tasks : ProvisionStep(p)
                \/ \E h \in Handlers, e \in Events : PostAnnouncement(h, e)
    PROVE  Stranded' \subseteq Stranded
<1>1. ASSUME NEW p \in Tasks, ProvisionStep(p)
      PROVE  task[p].pc \notin Holding /\ UNCHANGED outbox /\ \E t : task' = [task EXCEPT ![p] = t]
  BY <1>1, Zenon DEF ProvisionStep, Announce, EnsureRepo, ListHooks, CreateHook, UpsertMapping, InitRepo,
                     InstallHooks, At, Holding, tables, Goto, Finish
<1>2. ASSUME NEW h \in Handlers, NEW e \in Events, PostAnnouncement(h, e)
      PROVE  task[h].pc \notin Holding /\ UNCHANGED outbox /\ \E t : task' = [task EXCEPT ![h] = t]
  BY <1>2, Zenon DEF PostAnnouncement, At, Holding, tables
<1>3. \A h \in Handlers : h \in Tasks
  BY Zenon DEF Tasks
<1> QED BY <1>1, <1>2, <1>3, KeepsHold, Zenon

\* What a step does to the stranded rows: a fault adds one at most.
LEMMA StrandedMoves ==
    ASSUME Inv, [Next]_vars
    PROVE  \/ Stranded' \subseteq Stranded /\ faults' >= faults
           \/ faults' = faults + 1 /\ \E id : Stranded' \subseteq Stranded \union {id}
<1>0. faults \in Nat
  BY OutboxAssumption DEF Inv, Tables
<1>1. ASSUME UNCHANGED faults PROVE faults' >= faults
  BY <1>0, <1>1
<1>2. ASSUME NEW r \in Requests, RequestStep(r)
      PROVE  Stranded' \subseteq Stranded /\ (UNCHANGED faults \/ faults' = faults + 1)
  <2>1. CASE Enqueue(r)
    BY <2>1, EnqueueStrands, Zenon DEF Enqueue
  <2>2. CASE CreateRepo(r) \/ EnqueueFail(r)
    BY <2>2, Zenon DEF CreateRepo, EnqueueFail, tables, Stranded, Holds
  <2> QED BY <1>2, <2>1, <2>2, Zenon DEF RequestStep
<1>3. ASSUME NEW w \in Workers, LoopStep(w) PROVE Stranded' \subseteq Stranded /\ UNCHANGED faults
  BY <1>3, LoopStrands, Zenon DEF LoopStep, Poll, Claim, ClaimNone, PublishOk, PublishErr, MarkSucceeded,
                                  MarkFailed, Count
<1>4. ASSUME NEW p \in Tasks, ProvisionStep(p) PROVE Stranded' \subseteq Stranded /\ UNCHANGED faults
  BY <1>4, ProvisionStrands, Zenon DEF ProvisionStep, Announce, EnsureRepo, ListHooks, CreateHook,
                                       UpsertMapping, InitRepo, InstallHooks
<1>5. ASSUME NEW h \in Handlers, NEW e \in Events, PostAnnouncement(h, e)
      PROVE  Stranded' \subseteq Stranded /\ UNCHANGED faults
  BY <1>5, ProvisionStrands, Zenon DEF PostAnnouncement
<1>6. ASSUME NEW p \in Tasks, Interrupt(p)
      PROVE  faults' = faults + 1 /\ Stranded' \subseteq Stranded \union {task[p].id}
  <2>1. task' = [task EXCEPT ![p] = Idle] /\ UNCHANGED outbox /\ faults' = faults + 1
    BY <1>6, Zenon DEF Interrupt, Finish, tables
  <2>2. \A s \in Tasks \ {p} : task'[s] = task[s]
    BY <2>1, Zenon DEF Inv
  <2> QED BY <2>1, <2>2, Zenon DEF Stranded, Holds
<1>7. CASE Tick \/ UNCHANGED vars
  <2>1. UNCHANGED <<outbox, task, faults>>
    BY <1>7, Zenon DEF Tick, vars, tables
  <2> QED BY <1>1, <2>1, Zenon DEF Stranded, Holds
<1> QED BY <1>1, <1>2, <1>3, <1>4, <1>5, <1>6, <1>7, ZenonT(30) DEF Next

LEMMA SetGrows ==
    ASSUME NEW S, NEW T, NEW x, IsFiniteSet(S), T \subseteq S \union {x}
    PROVE  IsFiniteSet(T) /\ Cardinality(T) <= Cardinality(S) + 1
<1>1. /\ IsFiniteSet(S \union {x})
      /\ Cardinality(S \union {x}) = Cardinality(S) \/ Cardinality(S \union {x}) = Cardinality(S) + 1
  BY FS_AddElement, Zenon
<1>2. IsFiniteSet(T) /\ Cardinality(T) <= Cardinality(S \union {x})
  BY <1>1, FS_Subset, Zenon
<1>3. Cardinality(S) \in Nat /\ Cardinality(T) \in Nat
  BY <1>2, FS_CardinalityType, Zenon
<1> QED BY SMTT(20), <1>1, <1>2, <1>3

StrandedInv == IsFiniteSet(Stranded) /\ Cardinality(Stranded) <= faults

LEMMA StrandedStep == Inv /\ StrandedInv /\ [Next]_vars => StrandedInv'
<1> SUFFICES ASSUME Inv, StrandedInv, [Next]_vars PROVE StrandedInv'
  OBVIOUS
<1>1. IsFiniteSet(Stranded) /\ Cardinality(Stranded) <= faults /\ faults \in Nat /\ Cardinality(Stranded) \in Nat
  <2>1. IsFiniteSet(Stranded) /\ Cardinality(Stranded) <= faults
    BY Zenon DEF StrandedInv
  <2>2. faults \in Nat
    BY OutboxAssumption DEF Inv, Tables
  <2> QED BY <2>1, <2>2, FS_CardinalityType, Zenon
<1>2. CASE Stranded' \subseteq Stranded /\ faults' >= faults
  <2>1. IsFiniteSet(Stranded') /\ Cardinality(Stranded') <= Cardinality(Stranded) /\ Cardinality(Stranded') \in Nat
    BY <1>1, <1>2, FS_Subset, FS_CardinalityType, ZenonT(30)
  <2>2. faults' \in Nat
    BY SMTT(20), StepInv, OutboxAssumption DEF Inv, Tables
  <2>3. Cardinality(Stranded') <= faults'
    BY SMTT(20), <1>1, <1>2, <2>1, <2>2
  <2> QED BY <2>1, <2>3, Zenon DEF StrandedInv
<1>3. ASSUME faults' = faults + 1, NEW id, Stranded' \subseteq Stranded \union {id} PROVE StrandedInv'
  <2>1. IsFiniteSet(Stranded') /\ Cardinality(Stranded') <= Cardinality(Stranded) + 1 /\ Cardinality(Stranded') \in Nat
    BY <1>1, <1>3, SetGrows, FS_CardinalityType, Zenon
  <2>2. Cardinality(Stranded') <= faults'
    BY SMTT(20), <1>1, <1>3, <2>1
  <2> QED BY <2>1, <2>2, Zenon DEF StrandedInv
<1> QED BY <1>2, <1>3, StrandedMoves, Zenon

\* A row left "publishing" that no loop works on was stranded by a failed call or a
\* restart, one row each, for any number of rows, relays and coordinators.
THEOREM StrandedRowsAreFaults == Spec => []StrandedByFaults
<1>1. Init => StrandedInv
  <2> SUFFICES ASSUME Init PROVE StrandedInv
    OBVIOUS
  <2>1. outbox = <<>> /\ faults = 0
    BY Zenon DEF Init
  <2>2. Stranded = {}
    BY <2>1 DEF Stranded
  <2>3. IsFiniteSet({}) /\ Cardinality({}) = 0
    BY FS_EmptySet, Zenon
  <2> QED BY SMTT(20), <2>1, <2>2, <2>3 DEF StrandedInv
<1>2. StrandedInv => StrandedByFaults
  BY Zenon DEF StrandedInv, Stranded, StrandedByFaults
<1> QED BY <1>1, <1>2, StrandedStep, Invariance, PTL DEF Spec
-----------------------------------------------------------------------------
(***************************************************************************)
(* The rows of a request.  Rows keep their event and their relay, so what  *)
(* the loop over the relay urls has stored stays there.                    *)
(***************************************************************************)
HasRow(e, u) == \E id \in DOMAIN outbox : outbox[id].event = e /\ outbox[id].url = u

Enqueued(r) ==
    /\ request[r].pc = "new" => request[r].next = 1
    /\ request[r].pc = "enqueue" =>
          \A n \in 1 .. request[r].next - 1 : HasRow(Posts[r], RelayUrls[n])
    /\ request[r].pc = "answered" =>
          \A n \in 1 .. Len(RelayUrls) : HasRow(Posts[r], RelayUrls[n])

EnqueuedInv == \A r \in Requests : Enqueued(r)

LEMMA RowsStay ==
    ASSUME Inv, [Next]_vars
    PROVE  /\ DOMAIN outbox \subseteq DOMAIN outbox'
           /\ \A id \in DOMAIN outbox :
                 outbox'[id].event = outbox[id].event /\ outbox'[id].url = outbox[id].url
<1>0. outbox \in Seq(Row)
  BY Zenon DEF Inv, Tables
<1>1. ASSUME NEW r \in Requests, Enqueue(r)
      PROVE  DOMAIN outbox \subseteq DOMAIN outbox' /\ \A id \in DOMAIN outbox : outbox'[id] = outbox[id]
  BY <1>0, <1>1 DEF Enqueue, enqueue_relay_publish
<1>2. ASSUME NEW id \in DOMAIN outbox, NEW row, outbox' = [outbox EXCEPT ![id] = row],
             row.event = outbox[id].event, row.url = outbox[id].url
      PROVE  /\ DOMAIN outbox \subseteq DOMAIN outbox'
             /\ \A j \in DOMAIN outbox :
                   outbox'[j].event = outbox[j].event /\ outbox'[j].url = outbox[j].url
  BY <1>2, Zenon
<1>3. ASSUME NEW w \in Workers, Claim(w) \/ MarkSucceeded(w) \/ MarkFailed(w)
      PROVE  \E id \in DOMAIN outbox : \E row :
                /\ outbox' = [outbox EXCEPT ![id] = row]
                /\ row.event = outbox[id].event /\ row.url = outbox[id].url
  <2>1. CASE Claim(w)
    <3>1. PICK id \in DOMAIN outbox :
            outbox' = [outbox EXCEPT ![id].status = "publishing", ![id].attempt = @ + 1]
      BY <2>1, Zenon DEF Claim
    <3> DEFINE row == [outbox[id] EXCEPT !.status = "publishing", !.attempt = @ + 1]
    <3>2. outbox' = [outbox EXCEPT ![id] = row]
      BY <3>1, Zenon
    <3>3. outbox[id] \in Row
      BY <1>0
    <3>4. row.event = outbox[id].event /\ row.url = outbox[id].url
      BY <3>3, Zenon DEF Row
    <3> HIDE DEF row
    <3> QED BY <3>2, <3>4, Zenon
  <2>2. CASE MarkSucceeded(w) \/ MarkFailed(w)
    <3> DEFINE id == task[w].id
               after == retry_after(task[w].at, outbox[task[w].id].attempt)
               ok == [outbox[id] EXCEPT !.status = "published"]
               ko == [outbox[id] EXCEPT !.status = "pending", !.publish_after = after]
    <3>1. id \in DOMAIN outbox
      BY <2>2, WorkersAreTasks, Zenon DEF MarkSucceeded, MarkFailed, At, Inv, TaskOK, Holding
    <3>2. outbox[id] \in Row
      BY <1>0, <3>1
    <3> HIDE DEF after
    <3>3. /\ ok.event = outbox[id].event /\ ok.url = outbox[id].url
          /\ ko.event = outbox[id].event /\ ko.url = outbox[id].url
      BY <3>2, Zenon DEF Row
    <3>4. outbox' = [outbox EXCEPT ![id] = ok] \/ outbox' = [outbox EXCEPT ![id] = ko]
      BY <2>2, Zenon DEF MarkSucceeded, MarkFailed, mark_relay_publish_succeeded, mark_relay_publish_failed, after
    <3> HIDE DEF ok, ko, id
    <3> QED BY <3>1, <3>3, <3>4, Zenon
  <2> QED BY <1>3, <2>1, <2>2, Zenon
<1>4. CASE outbox' = outbox
  BY <1>4, Zenon
<1>5. CASE outbox' # outbox
  <2>1. CASE \E r \in Requests : Enqueue(r)
    BY <1>1, <2>1, Zenon
  <2>2. CASE \E w \in Workers : Claim(w) \/ MarkSucceeded(w) \/ MarkFailed(w)
    BY <1>2, <1>3, <2>2, Zenon
  <2> QED BY <1>5, <2>1, <2>2, OutboxWriters, Zenon
<1> QED BY <1>4, <1>5, Zenon

LEMMA EnqueuedStep == Inv /\ EnqueuedInv /\ [Next]_vars => EnqueuedInv'
<1> SUFFICES ASSUME Inv, EnqueuedInv, [Next]_vars, NEW r \in Requests PROVE Enqueued(r)'
  BY Zenon DEF EnqueuedInv
<1>0. /\ Enqueued(r) /\ request \in [Requests -> [pc : {"new", "enqueue", "answered", "failed"},
                                                  next : 1 .. Len(RelayUrls)]]
  BY Zenon DEF EnqueuedInv, Inv, Tables
<1>1. ASSUME NEW e, NEW u, HasRow(e, u) PROVE HasRow(e, u)'
  BY <1>1, RowsStay, Zenon DEF HasRow
<1>2. ASSUME request'[r] = request[r] PROVE Enqueued(r)'
  BY <1>0, <1>1, <1>2, Zenon DEF Enqueued
<1>3. ASSUME CreateRepo(r) PROVE Enqueued(r)'
  <2>1. request'[r].pc = "enqueue" /\ request'[r].next = 1
    BY <1>0, <1>3, Zenon DEF CreateRepo, Enqueued
  <2>2. 1 .. request'[r].next - 1 = {}
    BY <2>1
  <2> QED BY <2>1, <2>2, Zenon DEF Enqueued
<1>4. ASSUME EnqueueFail(r) PROVE Enqueued(r)'
  <2>1. request'[r].pc = "failed"
    BY <1>0, <1>4, Zenon DEF EnqueueFail
  <2> QED BY <2>1, Zenon DEF Enqueued
<1>5. ASSUME Enqueue(r) PROVE Enqueued(r)'
  <2>n. PICK n \in 1 .. Len(RelayUrls) : n = request[r].next
    BY <1>0, Zenon
  <2> DEFINE row == [event |-> Posts[r], url |-> RelayUrls[n], status |-> "pending",
                     attempt |-> 0, publish_after |-> now]
  <2>0. n \in 1 .. Len(RelayUrls) /\ Len(RelayUrls) \in Nat
    BY OutboxAssumption
  <2>1. outbox' = Append(outbox, row) /\ row.event = Posts[r] /\ row.url = RelayUrls[n]
    BY <1>5, <2>n, Zenon DEF Enqueue, enqueue_relay_publish
  <2>2. outbox \in Seq(Row)
    BY Zenon DEF Inv, Tables
  <2> HIDE DEF row
  <2>3. Len(outbox) + 1 \in DOMAIN outbox' /\ outbox'[Len(outbox) + 1] = row
    BY <2>1, <2>2
  <2>4. HasRow(Posts[r], RelayUrls[n])'
    BY <2>1, <2>3, Zenon DEF HasRow
  <2>5. \A m \in 1 .. n - 1 : HasRow(Posts[r], RelayUrls[m])'
    BY <1>0, <1>1, <1>5, <2>n, Zenon DEF Enqueued, Enqueue
  <2>6. \A m \in 1 .. n : m \in 1 .. n - 1 \/ m = n
    BY <2>0
  <2>7. \A m \in 1 .. n : HasRow(Posts[r], RelayUrls[m])'
    BY <2>4, <2>5, <2>6, Zenon
  <2>8. request'[r] = IF n = Len(RelayUrls) THEN [pc |-> "answered", next |-> n]
                      ELSE [pc |-> "enqueue", next |-> n + 1]
    BY <1>0, <1>5, <2>n, Zenon DEF Enqueue
  <2>9. CASE n = Len(RelayUrls)
    <3>1. request'[r].pc = "answered"
      BY <2>8, <2>9
    <3> QED BY <2>7, <2>9, <3>1, Zenon DEF Enqueued
  <2>10. CASE n # Len(RelayUrls)
    <3>1. request'[r].pc = "enqueue" /\ request'[r].next = n + 1
      BY SMTT(20), <2>8, <2>10
    <3>2. 1 .. request'[r].next - 1 = 1 .. n
      BY <2>0, <3>1
    <3> QED BY <2>7, <3>1, <3>2, Zenon DEF Enqueued
  <2> QED BY <2>9, <2>10, Zenon
<1>6. ASSUME NEW s \in Requests, RequestStep(s) PROVE Enqueued(r)'
  <2>1. CASE s = r
    BY <1>3, <1>4, <1>5, <1>6, <2>1, Zenon DEF RequestStep
  <2>2. CASE s # r
    <3>1. request'[r] = request[r]
      BY <1>0, <1>6, <2>2, Zenon DEF RequestStep, CreateRepo, EnqueueFail, Enqueue
    <3> QED BY <1>2, <3>1, Zenon
  <2> QED BY <2>1, <2>2, Zenon
<1>7. ASSUME NEW w \in Workers, LoopStep(w) PROVE request' = request
  BY <1>7, Zenon DEF LoopStep, Poll, Claim, ClaimNone, PublishOk, PublishErr, MarkSucceeded, MarkFailed, Count
<1>8. ASSUME NEW p \in Tasks, ProvisionStep(p) \/ Interrupt(p) PROVE request' = request
  BY <1>8, Zenon DEF ProvisionStep, Announce, EnsureRepo, ListHooks, CreateHook, UpsertMapping, InitRepo,
                     InstallHooks, Interrupt
<1>9. ASSUME \/ \E h \in Handlers, e \in Events : PostAnnouncement(h, e)
             \/ Tick \/ UNCHANGED vars
      PROVE  request' = request
  BY <1>9, Zenon DEF PostAnnouncement, Tick, vars
<1> QED BY <1>2, <1>6, <1>7, <1>8, <1>9, Zenon DEF Next

\* POST /v1/repos answers only when every relay url of the configuration has a row
\* with the announcement, for any number of relays and of requests at once, and the
\* outbox loops never take the row's event or relay away again.
THEOREM AnsweredRequestsAreEnqueued == Spec => []AnsweredIsEnqueued
<1>1. Init => EnqueuedInv
  <2> SUFFICES ASSUME Init, NEW r \in Requests PROVE Enqueued(r)
    BY Zenon DEF EnqueuedInv
  <2>1. request[r].pc = "new" /\ request[r].next = 1
    BY DEF Init
  <2> QED BY <2>1, Zenon DEF Enqueued
<1>2. EnqueuedInv => AnsweredIsEnqueued
  <2> SUFFICES ASSUME EnqueuedInv, NEW r \in Requests, request[r].pc = "answered", NEW u \in Urls
               PROVE  \E id \in DOMAIN outbox : outbox[id].event = Posts[r] /\ outbox[id].url = u
    BY Zenon DEF AnsweredIsEnqueued
  <2>1. PICK n \in 1 .. Len(RelayUrls) : u = RelayUrls[n]
    BY Zenon DEF Urls
  <2> QED BY <2>1, Zenon DEF EnqueuedInv, Enqueued, HasRow
<1> QED BY <1>1, <1>2, EnqueuedStep, Invariance, PTL DEF Spec
-----------------------------------------------------------------------------
(***************************************************************************)
(* Webhooks.  An announcement is stored once and its task creates one      *)
(* webhook at most, so the webhooks of a Forgejo repository are counted by *)
(* the announcements whose task has left the three calls that set it up.   *)
(***************************************************************************)
HookPcs == {"ensure_repo", "list_hooks", "create_hook"}

Stored == {e \in Events : announcements[e] # "none"}

Hooked(f) ==
    {e \in Events : /\ Repo[e] = f[2] /\ announcements[e] = f[1]
                    /\ \A p \in Tasks : task[p].pc \in HookPcs => task[p].event # e}

HookInv ==
    /\ IsFiniteSet(Stored)
    /\ \A f \in ForgejoRepos : webhooks[f] <= Cardinality(Hooked(f))

\* A task comes to the three calls only with an announcement nobody had stored.
ComesToHooks ==
    \A p \in Tasks : task'[p].pc \in HookPcs =>
        \/ task[p].pc \in HookPcs /\ task'[p].event = task[p].event
        \/ announcements[task'[p].event] = "none"

LEMMA HookedGrows ==
    ASSUME Inv, ComesToHooks,
           \A e \in Events : announcements[e] # "none" => announcements'[e] = announcements[e]
    PROVE  \A f \in ForgejoRepos : Hooked(f) \subseteq Hooked(f)'
<1> SUFFICES ASSUME NEW f \in ForgejoRepos, NEW e \in Hooked(f) PROVE e \in Hooked(f)'
  BY Zenon
<1>1. /\ e \in Events /\ Repo[e] = f[2] /\ announcements[e] = f[1]
      /\ \A p \in Tasks : task[p].pc \in HookPcs => task[p].event # e
  BY Zenon DEF Hooked
<1>2. f[1] \in Routes
  BY DEF ForgejoRepos
<1>3. announcements[e] # "none"
  BY <1>1, <1>2, Zenon DEF Routes
<1>4. announcements'[e] = f[1]
  BY <1>1, <1>3, Zenon
<1>5. ASSUME NEW p \in Tasks, task'[p].pc \in HookPcs PROVE task'[p].event # e
  BY <1>1, <1>3, <1>5, Zenon DEF ComesToHooks
<1> QED BY <1>1, <1>4, <1>5, Zenon DEF Hooked

LEMMA OneTaskComes ==
    ASSUME Inv, NEW p \in Tasks, NEW t, task' = [task EXCEPT ![p] = t],
           \/ t.pc \notin HookPcs
           \/ task[p].pc \in HookPcs /\ t.event = task[p].event
           \/ announcements[t.event] = "none"
    PROVE  ComesToHooks
<1>1. task'[p] = t /\ \A s \in Tasks \ {p} : task'[s] = task[s]
  BY Zenon DEF Inv
<1> QED BY <1>1, Zenon DEF ComesToHooks

LEMMA GoesElsewhere ==
    ASSUME Inv, NEW p \in Tasks, NEW pc, pc \notin HookPcs, Goto(p, pc) \/ Finish(p)
    PROVE  ComesToHooks
<1> DEFINE t == [task[p] EXCEPT !.pc = pc]
<1>1. task[p] \in TaskRec
  BY TaskTypes, Zenon
<1>2. t.pc = pc /\ Idle.pc \notin HookPcs
  BY <1>1, Zenon DEF TaskRec, Idle, HookPcs
<1>3. task' = [task EXCEPT ![p] = t] \/ task' = [task EXCEPT ![p] = Idle]
  BY Zenon DEF Goto, Finish
<1> HIDE DEF t
<1> QED BY <1>2, <1>3, OneTaskComes, Zenon

LEMMA GoesOnHooking ==
    ASSUME Inv, NEW p \in Tasks, NEW pc, Goto(p, pc),
           task[p].pc \in HookPcs \/ announcements[task[p].event] = "none"
    PROVE  ComesToHooks
<1> DEFINE t == [task[p] EXCEPT !.pc = pc]
<1>1. task[p] \in TaskRec
  BY TaskTypes, Zenon
<1>2. t.event = task[p].event
  BY <1>1, Zenon DEF TaskRec
<1>3. task' = [task EXCEPT ![p] = t]
  BY Zenon DEF Goto
<1> HIDE DEF t
<1> QED BY <1>2, <1>3, OneTaskComes, Zenon

LEMMA LoopComes == ASSUME Inv, NEW w \in Workers, LoopStep(w) PROVE ComesToHooks
<1>0. w \in Tasks /\ task[w] \in TaskRec
  BY WorkersAreTasks, TaskTypes, Zenon
<1>1. /\ "mark_ok" \notin HookPcs /\ "mark_failed" \notin HookPcs /\ "count" \notin HookPcs
      /\ "announce" \notin HookPcs
  BY Zenon DEF HookPcs
<1>2. CASE Poll(w)
  <2> DEFINE t == [Idle EXCEPT !.pc = "claim", !.at = now]
  <2>1. task' = [task EXCEPT ![w] = t] /\ t.pc \notin HookPcs
    BY <1>2, Zenon DEF Poll, Idle, HookPcs
  <2> HIDE DEF t
  <2> QED BY <1>0, <2>1, OneTaskComes, Zenon
<1>3. CASE Claim(w)
  <2>1. PICK id \in DOMAIN outbox :
          task' = [task EXCEPT ![w].pc = "publish", ![w].id = id, ![w].event = outbox[id].event]
    BY <1>3, Zenon DEF Claim
  <2> DEFINE t == [task[w] EXCEPT !.pc = "publish", !.id = id, !.event = outbox[id].event]
  <2>2. task' = [task EXCEPT ![w] = t]
    BY <2>1, Zenon
  <2>3. t.pc \notin HookPcs
    BY <1>0, Zenon DEF TaskRec, HookPcs
  <2> HIDE DEF t
  <2> QED BY <1>0, <2>2, <2>3, OneTaskComes, Zenon
<1>4. CASE ClaimNone(w) \/ MarkFailed(w)
  BY <1>0, <1>1, <1>4, GoesElsewhere, Zenon DEF ClaimNone, MarkFailed
<1>5. CASE PublishOk(w) \/ PublishErr(w) \/ MarkSucceeded(w) \/ Count(w)
  BY <1>0, <1>1, <1>5, GoesElsewhere, Zenon DEF PublishOk, PublishErr, MarkSucceeded, Count
<1> QED BY <1>2, <1>3, <1>4, <1>5, Zenon DEF LoopStep

LEMMA ProvisionComes == ASSUME Inv, NEW p \in Tasks, ProvisionStep(p) PROVE ComesToHooks
<1>1. "map" \notin HookPcs /\ "init" \notin HookPcs /\ "hooks" \notin HookPcs
  BY Zenon DEF HookPcs
<1>2. CASE Announce(p)
  BY <1>1, <1>2, GoesElsewhere, GoesOnHooking, Zenon DEF Announce
<1>3. CASE EnsureRepo(p) \/ ListHooks(p)
  <2>1. task[p].pc \in HookPcs /\ \E pc : Goto(p, pc)
    BY <1>3, Zenon DEF EnsureRepo, ListHooks, At, HookPcs
  <2> QED BY <2>1, GoesOnHooking, Zenon
<1>4. CASE CreateHook(p) \/ UpsertMapping(p) \/ InitRepo(p) \/ InstallHooks(p)
  BY <1>1, <1>4, GoesElsewhere, Zenon DEF CreateHook, UpsertMapping, InitRepo, InstallHooks
<1> QED BY <1>2, <1>3, <1>4, Zenon DEF ProvisionStep

LEMMA EachComes == ASSUME Inv, [Next]_vars PROVE ComesToHooks
<1>1. ASSUME UNCHANGED task PROVE ComesToHooks
  BY <1>1, Zenon DEF ComesToHooks
<1>2. ASSUME NEW r \in Requests, RequestStep(r) PROVE UNCHANGED task
  BY <1>2, Zenon DEF RequestStep, CreateRepo, Enqueue, EnqueueFail
<1>3. ASSUME NEW h \in Handlers, NEW e \in Events, PostAnnouncement(h, e) PROVE ComesToHooks
  <2> DEFINE t == [Idle EXCEPT !.pc = "announce", !.event = e]
  <2>1. task' = [task EXCEPT ![h] = t] /\ t.pc \notin HookPcs /\ h \in Tasks
    BY <1>3, Zenon DEF PostAnnouncement, Idle, HookPcs, Tasks
  <2> HIDE DEF t
  <2> QED BY <2>1, OneTaskComes, Zenon
<1>4. ASSUME NEW p \in Tasks, Interrupt(p) PROVE ComesToHooks
  <2>1. "idle" \notin HookPcs /\ Finish(p)
    BY <1>4, Zenon DEF HookPcs, Interrupt
  <2> QED BY <2>1, GoesElsewhere, Zenon
<1>5. ASSUME Tick \/ UNCHANGED vars PROVE UNCHANGED task
  BY <1>5, Zenon DEF Tick, vars
<1> QED BY <1>1, <1>2, <1>3, <1>4, <1>5, LoopComes, ProvisionComes, ZenonT(30) DEF Next

\* Only Announce writes the announcements, one event that had none.
LEMMA AnnouncementsMove ==
    ASSUME Inv, [Next]_vars
    PROVE  /\ \A e \in Events : announcements[e] # "none" => announcements'[e] = announcements[e]
           /\ \E e : Stored' \subseteq Stored \union {e}
<1>1. ASSUME UNCHANGED announcements
      PROVE  /\ \A e \in Events : announcements[e] # "none" => announcements'[e] = announcements[e]
             /\ \E e : Stored' \subseteq Stored \union {e}
  BY <1>1, Zenon DEF Stored
<1>2. ASSUME NEW p \in Tasks, Announce(p), announcements' # announcements
      PROVE  /\ \A e \in Events : announcements[e] # "none" => announcements'[e] = announcements[e]
             /\ Stored' \subseteq Stored \union {task[p].event}
  <2>1. /\ announcements[task[p].event] = "none"
        /\ announcements' = [announcements EXCEPT ![task[p].event] = Route(p)]
    BY <1>2, Zenon DEF Announce
  <2>2. announcements \in [Events -> Routes \union {"none"}]
    BY Zenon DEF Inv, Tables
  <2>3. \A e \in Events : e # task[p].event => announcements'[e] = announcements[e]
    BY <2>1, <2>2, Zenon
  <2> QED BY <2>1, <2>3, Zenon DEF Stored
<1>3. UNCHANGED announcements \/ \E p \in Tasks : Announce(p)
  <2>1. ASSUME NEW r \in Requests, RequestStep(r) PROVE UNCHANGED announcements
    BY <2>1, Zenon DEF RequestStep, CreateRepo, Enqueue, EnqueueFail, tables
  <2>2. ASSUME NEW w \in Workers, LoopStep(w) PROVE UNCHANGED announcements
    BY <2>2, Zenon DEF LoopStep, Poll, Claim, ClaimNone, PublishOk, PublishErr, MarkSucceeded,
                       MarkFailed, Count, tables
  <2>3. ASSUME NEW p \in Tasks, ProvisionStep(p) PROVE UNCHANGED announcements \/ Announce(p)
    BY <2>3, Zenon DEF ProvisionStep, EnsureRepo, ListHooks, CreateHook, UpsertMapping, InitRepo,
                       InstallHooks, tables
  <2>4. ASSUME NEW p \in Tasks, Interrupt(p) PROVE UNCHANGED announcements
    BY <2>4, Zenon DEF Interrupt, tables
  <2>5. ASSUME NEW h \in Handlers, NEW e \in Events, PostAnnouncement(h, e) PROVE UNCHANGED announcements
    BY <2>5, Zenon DEF PostAnnouncement, tables
  <2>6. ASSUME Tick \/ UNCHANGED vars PROVE UNCHANGED announcements
    BY <2>6, Zenon DEF Tick, vars, tables
  <2> QED BY <2>1, <2>2, <2>3, <2>4, <2>5, <2>6, ZenonT(30) DEF Next
<1> QED BY <1>1, <1>2, <1>3, Zenon

\* Who writes the webhooks.
LEMMA HookWriters ==
    ASSUME [Next]_vars, webhooks' # webhooks PROVE \E p \in Tasks : CreateHook(p)
<1>1. ASSUME NEW r \in Requests, RequestStep(r) PROVE FALSE
  BY <1>1, Zenon DEF RequestStep, CreateRepo, Enqueue, EnqueueFail, world
<1>2. ASSUME NEW w \in Workers, LoopStep(w) PROVE FALSE
  BY <1>2, Zenon DEF LoopStep, Poll, Claim, ClaimNone, PublishOk, PublishErr, MarkSucceeded,
                     MarkFailed, Count, world
<1>3. ASSUME NEW p \in Tasks, ProvisionStep(p) PROVE CreateHook(p)
  BY <1>3, Zenon DEF ProvisionStep, Announce, EnsureRepo, ListHooks, UpsertMapping, InitRepo,
                     InstallHooks, world
<1>4. ASSUME NEW p \in Tasks, Interrupt(p) PROVE FALSE
  BY <1>4, Zenon DEF Interrupt, world
<1>5. ASSUME NEW h \in Handlers, NEW e \in Events, PostAnnouncement(h, e) PROVE FALSE
  BY <1>5, Zenon DEF PostAnnouncement, world
<1>6. ~Tick /\ ~UNCHANGED vars
  BY Zenon DEF Tick, vars, world
<1> QED BY <1>1, <1>2, <1>3, <1>4, <1>5, <1>6, ZenonT(30) DEF Next

\* The announcement whose task creates a webhook is counted from then on.
LEMMA CreatorIsCounted ==
    ASSUME Inv, NEW p \in Tasks, CreateHook(p), NEW f, f = Fork(p), NEW e, e = task[p].event
    PROVE  e \in Hooked(f)' /\ e \notin Hooked(f)
<1>0. task[p].pc = "create_hook" /\ Goto(p, "map") /\ UNCHANGED announcements
  BY Zenon DEF CreateHook, At, tables
<1>1. task[p].pc \in ProvisionPcs /\ Provisioning(p) /\ task[p].pc \in HookPcs
  BY <1>0, Zenon DEF ProvisionPcs, Provisioning, HookPcs
<1>2. e \in Events /\ Repo[e] = Key(p) /\ announcements[e] = Route(p)
  BY <1>1, ProvisionTypes, Zenon DEF TaskOK
<1>3. e \notin Hooked(f)
  BY <1>1, Zenon DEF Hooked
<1>4. task' = [task EXCEPT ![p].pc = "map"] /\ task \in [Tasks -> TaskRec]
  BY <1>0, Zenon DEF Goto, Inv
<1>5. task'[p].pc = "map" /\ \A s \in Tasks \ {p} : task'[s] = task[s]
  BY <1>4, Zenon DEF TaskRec
<1>6. ASSUME NEW s \in Tasks, task'[s].pc \in HookPcs PROVE task'[s].event # e
  <2>1. s # p
    BY <1>5, <1>6, Zenon DEF HookPcs
  <2>2. task'[s] = task[s] /\ Provisioning(s)
    BY <1>5, <1>6, <2>1, ZenonT(30) DEF HookPcs, Provisioning, ProvisionPcs
  <2> QED BY <1>1, <2>1, <2>2, ZenonT(30) DEF Inv, Apart
<1>7. f[1] = Route(p) /\ f[2] = Key(p)
  BY DEF Fork
<1>8. Repo[e] = f[2] /\ announcements'[e] = f[1]
  BY <1>0, <1>2, <1>7, Zenon
<1>9. e \in Hooked(f)'
  BY <1>2, <1>6, <1>8, Zenon DEF Hooked
<1> QED BY <1>3, <1>9, Zenon

\* A strictly larger set counts one more.
LEMMA CountsMore ==
    ASSUME NEW S, NEW T, NEW x, IsFiniteSet(T), S \subseteq T, x \in T, x \notin S
    PROVE  Cardinality(S) + 1 <= Cardinality(T)
<1>1. IsFiniteSet(S)
  BY FS_Subset, Zenon
<1>2. IsFiniteSet(S \union {x}) /\ Cardinality(S \union {x}) = Cardinality(S) + 1
  BY <1>1, FS_AddElement, Zenon
<1>3. S \union {x} \subseteq T
  BY Zenon
<1>4. Cardinality(S \union {x}) <= Cardinality(T)
  BY <1>3, FS_Subset, Zenon
<1> QED BY <1>2, <1>4, Zenon

LEMMA HookedIsFinite ==
    ASSUME NEW f \in ForgejoRepos, IsFiniteSet(Stored)
    PROVE  IsFiniteSet(Hooked(f)) /\ Cardinality(Hooked(f)) \in Nat
<1>1. f[1] \in Routes
  BY DEF ForgejoRepos
<1>2. f[1] # "none"
  BY <1>1, Zenon DEF Routes
<1>3. Hooked(f) \subseteq Stored
  BY <1>2, Zenon DEF Hooked, Stored
<1> QED BY <1>3, FS_Subset, FS_CardinalityType, Zenon

LEMMA HookStep == Inv /\ HookInv /\ [Next]_vars => HookInv'
<1> SUFFICES ASSUME Inv, HookInv, [Next]_vars PROVE HookInv'
  OBVIOUS
<1>0. /\ IsFiniteSet(Stored) /\ webhooks \in [ForgejoRepos -> Nat]
      /\ \A f \in ForgejoRepos : webhooks[f] <= Cardinality(Hooked(f))
  BY Zenon DEF HookInv, Inv, Tables
<1>1. IsFiniteSet(Stored)'
  BY <1>0, AnnouncementsMove, SetGrows, Zenon
<1>2. ASSUME NEW f \in ForgejoRepos
      PROVE  /\ Cardinality(Hooked(f)) \in Nat /\ Cardinality(Hooked(f))' \in Nat
             /\ IsFiniteSet(Hooked(f)') /\ Hooked(f) \subseteq Hooked(f)'
             /\ Cardinality(Hooked(f)) <= Cardinality(Hooked(f))'
  <2>1. IsFiniteSet(Hooked(f)) /\ Cardinality(Hooked(f)) \in Nat
    BY <1>0, HookedIsFinite, Zenon
  <2>2. IsFiniteSet(Hooked(f)') /\ Cardinality(Hooked(f))' \in Nat
    <3>1. f[1] \in Routes
      BY DEF ForgejoRepos
    <3>2. f[1] # "none"
      BY <3>1, Zenon DEF Routes
    <3>3. Hooked(f)' \subseteq Stored'
      BY <3>2, Zenon DEF Hooked, Stored
    <3> QED BY <1>1, <3>3, FS_Subset, FS_CardinalityType, ZenonT(30)
  <2>3. Hooked(f) \subseteq Hooked(f)'
    BY EachComes, AnnouncementsMove, HookedGrows, Zenon
  <2> QED BY <2>1, <2>2, <2>3, FS_Subset, ZenonT(30)
<1>3. ASSUME NEW f \in ForgejoRepos PROVE webhooks'[f] <= Cardinality(Hooked(f))'
  <2>0. webhooks[f] \in Nat /\ webhooks[f] <= Cardinality(Hooked(f))
    BY <1>0, Zenon
  <2>1. CASE webhooks'[f] = webhooks[f]
    BY SMTT(20), <1>2, <2>0, <2>1
  <2>2. CASE webhooks'[f] # webhooks[f]
    <3>1. PICK p \in Tasks : CreateHook(p)
      BY <2>2, HookWriters, Zenon
    <3>2. webhooks' = [webhooks EXCEPT ![Fork(p)] = webhooks[Fork(p)] + 1]
      BY <3>1, Zenon DEF CreateHook
    <3>3. f = Fork(p)
      BY <1>0, <2>2, <3>2, Zenon
    <3>4. webhooks'[f] = webhooks[f] + 1
      BY <1>0, <3>2, <3>3, Zenon
    <3>5. PICK e : e = task[p].event
      BY Zenon
    <3>6. e \in Hooked(f)' /\ e \notin Hooked(f)
      BY <3>1, <3>3, <3>5, CreatorIsCounted, Zenon
    <3>7. Cardinality(Hooked(f)) + 1 <= Cardinality(Hooked(f)')
      BY <1>2, <3>6, CountsMore, Zenon
    <3>8. Cardinality(Hooked(f)) \in Nat /\ Cardinality(Hooked(f)') \in Nat
      BY <1>2, Zenon
    <3> QED BY SMTT(20), <2>0, <3>4, <3>7, <3>8
  <2> QED BY <2>1, <2>2, Zenon
<1> QED BY <1>1, <1>3, Zenon DEF HookInv

\* A Forgejo repository never has more webhooks than announcements were stored for it,
\* however the listing and the creation of two tasks interleave and whatever fails in
\* between: a retry finds its announcement stored and ends before it creates another.
THEOREM HooksAreCounted == Spec => []OneHookPerAnnouncement
<1>1. Init => HookInv
  <2> SUFFICES ASSUME Init PROVE HookInv
    OBVIOUS
  <2>1. announcements = [e \in Events |-> "none"] /\ webhooks = [f \in ForgejoRepos |-> 0]
    BY Zenon DEF Init
  <2>2. Stored = {}
    BY <2>1, Zenon DEF Stored
  <2>3. IsFiniteSet(Stored)
    BY <2>2, FS_EmptySet, Zenon
  <2>4. ASSUME NEW f \in ForgejoRepos PROVE webhooks[f] <= Cardinality(Hooked(f))
    <3>1. Cardinality(Hooked(f)) \in Nat
      BY <2>3, HookedIsFinite, Zenon
    <3>2. webhooks[f] = 0
      BY <2>1, Zenon
    <3> QED BY <3>1, <3>2
  <2> QED BY <2>3, <2>4, Zenon DEF HookInv
<1>2. Inv /\ HookInv => OneHookPerAnnouncement
  <2> SUFFICES ASSUME Inv, HookInv, NEW f \in ForgejoRepos
               PROVE  webhooks[f] <= Cardinality({e \in Events : Repo[e] = f[2] /\ announcements[e] = f[1]})
    BY Zenon DEF OneHookPerAnnouncement
  <2> DEFINE S == {e \in Events : Repo[e] = f[2] /\ announcements[e] = f[1]}
  <2>1. f[1] \in Routes
    BY DEF ForgejoRepos
  <2>2. S \subseteq Stored
    BY <2>1, Zenon DEF Stored, Routes
  <2>3. IsFiniteSet(Stored)
    BY Zenon DEF HookInv
  <2>4. IsFiniteSet(S) /\ Hooked(f) \subseteq S
    BY <2>2, <2>3, FS_Subset, Zenon DEF Hooked
  <2> HIDE DEF S
  <2>5. Cardinality(Hooked(f)) <= Cardinality(S) /\ Cardinality(Hooked(f)) \in Nat /\ Cardinality(S) \in Nat
    BY <2>3, <2>4, FS_Subset, FS_CardinalityType, HookedIsFinite, ZenonT(30)
  <2>6. webhooks[f] <= Cardinality(Hooked(f)) /\ webhooks[f] \in Nat
    BY Zenon DEF HookInv, Inv, Tables
  <2>7. webhooks[f] <= Cardinality(S)
    BY <2>5, <2>6
  <2> QED BY <2>7, Zenon DEF S
<1> QED BY <1>1, <1>2, HookStep, Invariance, PTL DEF Spec
=============================================================================
