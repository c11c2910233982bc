-------------------------- MODULE ConnectionProofs --------------------------
(***************************************************************************)
(* Proofs about a client's connection to the relay: the two tasks of its   *)
(* websocket (SocketPump) and the event store its session writes to        *)
(* (RepositoryStore).                                                      *)
(*                                                                         *)
(* The two tasks lose no message and wait for each other only when the     *)
(* client floods the connection, for every capacity.  NothingIsLost is     *)
(* inductive with the types once it is known that a driver that waits or   *)
(* is gone holds no message, which is DriverIdle.                          *)
(***************************************************************************)
EXTENDS SocketPump, RepositoryStore, TLAPS

\* A driver that is not sending responses has no message in hand.
DriverIdle == driver.pc # "respond" => driver.message = FALSE

PumpInv == PumpTypeOK /\ DriverIdle /\ NothingIsLost

LEMMA PumpInitInv == PumpInit => PumpInv
  BY PumpAssumption DEF PumpInit, PumpInv, PumpTypeOK, DriverIdle, NothingIsLost, Unhandled

\* Every step keeps the type invariant.
LEMMA TypeStep == PumpTypeOK /\ [PumpNext]_pumpVars => PumpTypeOK'
<1> USE PumpAssumption DEF PumpTypeOK
<1> SUFFICES ASSUME PumpTypeOK, [PumpNext]_pumpVars
             PROVE  PumpTypeOK'
  OBVIOUS
<1>1. CASE ClientSend
  BY <1>1 DEF ClientSend, channels
<1>2. CASE ClientClose
  BY <1>2, Zenon DEF ClientClose, channels
<1>3. CASE PumpStep
  BY <1>3 DEF PumpStep, PumpRead, PumpBreak, PumpForward, PumpTake, PumpSend,
              in_has_room, channels, client
<1> DEFINE Drivers == [pc : {"select", "respond", "gone"}, left : 0 .. MaxResponses + 1, message : BOOLEAN]
<1>a. Waiting \in Drivers /\ Gone \in Drivers
  BY DEF Waiting, Gone
<1>4. CASE DriverTake \/ DriverDispatch
  <2>1. PICK n \in 0 .. MaxResponses, b \in BOOLEAN :
          driver' = [pc |-> "respond", left |-> n, message |-> b]
    BY <1>4, Zenon DEF DriverTake, DriverDispatch
  <2>2. driver' \in Drivers
    BY <2>1
  <2> QED
    BY <1>4, <2>2 DEF DriverTake, DriverDispatch, channels, client
<1>5. CASE DriverSend
  <2>1. [driver EXCEPT !.left = driver.left - 1] \in Drivers
    BY <1>5 DEF DriverSend
  <2>2. driver' \in Drivers
    BY <1>5, <1>a, <2>1, Zenon DEF DriverSend
  <2> QED
    BY <1>5, <2>2 DEF DriverSend, out_has_room, channels, client
<1>6. CASE DriverDone \/ DriverEnd
  BY <1>6, <1>a DEF DriverDone, DriverEnd, channels, client
<1>7. CASE UNCHANGED pumpVars
  BY <1>7, Zenon DEF pumpVars
<1> QED
  BY <1>1, <1>2, <1>3, <1>4, <1>5, <1>6, <1>7, Zenon DEF PumpNext, DriverStep

\* Every step keeps the account of the client's messages.
LEMMA AccountStep == PumpInv /\ [PumpNext]_pumpVars => (DriverIdle /\ NothingIsLost)'
<1> USE PumpAssumption DEF PumpTypeOK, DriverIdle, NothingIsLost, Unhandled
<1> SUFFICES ASSUME PumpInv, [PumpNext]_pumpVars
             PROVE  (DriverIdle /\ NothingIsLost)'
  OBVIOUS
<1> USE DEF PumpInv
<1>1. CASE ClientSend
  BY <1>1 DEF ClientSend, channels
<1>2. CASE ClientClose
  BY <1>2, Zenon DEF ClientClose, channels
<1>3. CASE PumpStep
  BY <1>3 DEF PumpStep, PumpRead, PumpBreak, PumpForward, PumpTake, PumpSend,
              in_has_room, channels, client
<1>4. CASE DriverTake \/ DriverDispatch
  BY <1>4 DEF DriverTake, DriverDispatch, channels, client
<1>5. CASE DriverSend
  BY <1>5 DEF DriverSend, Gone, out_has_room, channels, client
<1>6. CASE DriverDone \/ DriverEnd
  BY <1>6 DEF DriverDone, DriverEnd, Waiting, Gone, channels, client
<1>7. CASE UNCHANGED pumpVars
  BY <1>7, Zenon DEF pumpVars
<1> QED
  BY <1>1, <1>2, <1>3, <1>4, <1>5, <1>6, <1>7, Zenon DEF PumpNext, DriverStep

LEMMA PumpInvariance == PumpSpec => []PumpInv
<1>1. PumpInv /\ [PumpNext]_pumpVars => PumpInv'
  BY TypeStep, AccountStep, Zenon DEF PumpInv
<1> QED
  BY PumpInitInv, <1>1, PTL DEF PumpSpec

\* For every capacity and every client, the tasks of a connection account for
\* every message it sent.
THEOREM MessagesAreKept == PumpSpec => []NothingIsLost
<1>1. PumpInv => NothingIsLost
  BY Zenon DEF PumpInv
<1> QED
  BY PumpInvariance, <1>1, PTL

\* The tasks are stuck only if the client has more messages unhandled than the
\* inbound channel holds.
LEMMA StuckIsFlooded == PumpInv => StuckByFlood
<1> SUFFICES ASSUME PumpInv, Stuck
             PROVE  sent - handled > InCapacity
  BY Zenon DEF StuckByFlood
<1>1. sent = handled + Unhandled
  BY Zenon DEF PumpInv, NothingIsLost, Stuck
<1>2. inbound = InCapacity
  BY PumpAssumption DEF PumpInv, PumpTypeOK, Stuck, in_has_room
<1>3. Unhandled \in Nat /\ Unhandled >= inbound + 1
  BY PumpAssumption DEF PumpInv, PumpTypeOK, Stuck, Unhandled
<1> QED
  BY <1>1, <1>2, <1>3, PumpAssumption DEF PumpInv, PumpTypeOK

THEOREM OnlyAFloodSticks == PumpSpec => []StuckByFlood
  BY PumpInvariance, StuckIsFlooded, PTL

\* A client that keeps its unhandled messages within the inbound channel never
\* gets its connection stuck: its window bounds what is unhandled.
THEOREM WithinTheChannelNeverStuck ==
    PumpSpec => [](window <= InCapacity => ~Stuck)
<1> DEFINE Bounded == sent - handled <= window
           J == PumpInv /\ Bounded
<1>1. PumpInit => J
  <2>1. PumpInit => Bounded
    BY PumpAssumption DEF PumpInit
  <2> QED
    BY <2>1, PumpInitInv, Zenon
<1>2. J /\ [PumpNext]_pumpVars => J'
  <2> SUFFICES ASSUME J, [PumpNext]_pumpVars
               PROVE  J'
    OBVIOUS
  <2>1. PumpInv'
    BY TypeStep, AccountStep, Zenon DEF PumpInv
  <2>2. /\ window \in Nat /\ sent \in Nat /\ handled \in Nat
        /\ window' = window
    BY Zenon DEF PumpInv, PumpTypeOK, pumpVars, PumpNext, client, ClientSend, ClientClose,
           PumpStep, PumpRead,
           PumpBreak, PumpForward, PumpTake, PumpSend, DriverStep, DriverTake,
           DriverDispatch, DriverSend, DriverDone, DriverEnd
  <2>3. CASE ClientSend
    BY <2>1, <2>2, <2>3 DEF ClientSend
  <2>4. CASE DriverDone
    BY <2>1, <2>2, <2>4 DEF DriverDone, client
  <2>5. CASE UNCHANGED <<sent, handled>>
    BY <2>1, <2>2, <2>5, Zenon
  <2>6. ClientSend \/ DriverDone \/ UNCHANGED <<sent, handled>>
    BY Zenon DEF pumpVars, PumpNext, client, ClientClose, PumpStep, PumpRead,
           PumpBreak, PumpForward, PumpTake, PumpSend, DriverStep, DriverTake,
           DriverDispatch, DriverSend, DriverEnd
  <2> QED
    BY <2>1, <2>3, <2>4, <2>5, <2>6, Zenon
<1>3. J => (window <= InCapacity => ~Stuck)
  BY StuckIsFlooded, PumpAssumption DEF StuckByFlood, PumpInv, PumpTypeOK
<1> QED
  BY <1>1, <1>2, <1>3, PTL DEF PumpSpec

-----------------------------------------------------------------------------
(***************************************************************************)
(* The event store.  OpOK says what an insert may rely on after each of    *)
(* its statements: what it is about to delete may go, and an event of its  *)
(* key that it will not delete was inserted by an insert it raced.         *)
(***************************************************************************)
Pcs == {"idle", "get", "delete_ids", "query_key", "delete_found"}
Ops == [pc : Pcs, event : Events \union {NoEvent}, todo : SUBSET Events, keys : SUBSET Keys]

\* A deletion e may remove x, or x is an older event of the key of e.
MayGo(e, x) ==
    \/ Key[x] \in DeletesKey[e] /\ may_delete(e, x)
    \/ Key[x] = Key[e] /\ CreatedAt[x] < CreatedAt[e]

OpOK(w) ==
    LET e == op[w].event IN
    /\ op[w].pc # "idle" => e \in submitted
    /\ At(w, "query_key") => Key[e] # NoKey
    /\ At(w, "delete_ids") => Key[e] = NoKey /\ op[w].todo \subseteq DeletesId[e]
    /\ op[w].pc \in {"query_key", "delete_ids", "delete_found"} => op[w].keys \subseteq DeletesKey[e]
    /\ At(w, "delete_found") =>
          /\ \A x \in op[w].todo : MayGo(e, x)
          /\ Key[e] # NoKey => \A x \in rows :
                (Key[x] = Key[e] /\ x # e) => x \in op[w].todo \/ {x, e} \in raced

\* Two inserts in flight for one key are known to race.
Racing(v, w) ==
    v # w /\ op[v].pc # "idle" /\ op[w].pc # "idle" /\ Key[op[v].event] # NoKey
    /\ Key[op[v].event] = Key[op[w].event] => {op[v].event, op[w].event} \in raced

StoreTypes ==
    /\ rows \subseteq submitted /\ submitted \subseteq Events /\ before \subseteq submitted
    /\ raced \subseteq SUBSET submitted
    /\ serial \in BOOLEAN /\ failures \in 0 .. MaxFailures
    /\ op \in [Writers -> Ops]

StoreInv ==
    /\ StoreTypes
    /\ \A w \in Writers : OpOK(w)
    /\ \A v, w \in Writers : Racing(v, w)
    /\ TwoCurrentByOverlap

\* A step of one insert: it forgets or goes on with its event.
LEMMA OneWriterMoves ==
    ASSUME StoreInv, NEW w \in Writers, NEW t \in Ops, op' = [op EXCEPT ![w] = t],
           t.pc # "idle" => op[w].pc # "idle" /\ t.event = op[w].event,
           rows' \subseteq rows \union {op[w].event}, rows' \subseteq rows \/ op[w].pc # "idle",
           UNCHANGED <<submitted, raced, serial, before>>, failures' \in 0 .. MaxFailures,
           OpOK(w)', TwoCurrentByOverlap'
    PROVE  StoreInv'
<1>1. /\ op' \in [Writers -> Ops] /\ op'[w] = t /\ \A s \in Writers \ {w} : op'[s] = op[s]
  BY Zenon DEF StoreInv, StoreTypes
<1>2. StoreTypes'
  <2>1. op[w].pc # "idle" => op[w].event \in submitted
    BY Zenon DEF StoreInv, OpOK
  <2>2. rows' \subseteq submitted
    BY <2>1, Zenon DEF StoreInv, StoreTypes
  <2> QED BY <1>1, <2>2, Zenon DEF StoreInv, StoreTypes
<1>3. ASSUME NEW v \in Writers, NEW u \in Writers PROVE Racing(v, u)'
  <2>1. \A s \in Writers : op'[s].pc # "idle" => op[s].pc # "idle" /\ op'[s].event = op[s].event
    BY <1>1, Zenon
  <2>2. Racing(v, u)
    BY Zenon DEF StoreInv
  <2>3. raced' = raced
    BY Zenon
  <2>4. ASSUME op'[v].pc # "idle", op'[u].pc # "idle"
        PROVE  Racing(v, u)'
    <3>1. op'[v].event = op[v].event /\ op'[u].event = op[u].event /\ op[v].pc # "idle" /\ op[u].pc # "idle"
      BY <2>1, <2>4, Zenon
    <3> QED BY SMTT(20), <2>2, <2>3, <3>1 DEF Racing
  <2> QED BY <2>4, Zenon DEF Racing
<1>4. ASSUME NEW s \in Writers, s # w PROVE OpOK(s)'
  <2>1. op'[s] = op[s] /\ OpOK(s) /\ Racing(w, s)
    BY <1>1, <1>4, Zenon DEF StoreInv
  <2>2. ASSUME At(s, "delete_found"), Key[op[s].event] # NoKey, NEW x \in rows', Key[x] = Key[op[s].event],
               x # op[s].event
        PROVE  x \in op[s].todo \/ {x, op[s].event} \in raced
    <3>1. CASE x \in rows
      BY <2>1, <2>2, <3>1, Zenon DEF OpOK
    <3>2. CASE x \notin rows
      BY <1>4, <2>1, <2>2, <3>2, Zenon DEF Racing, At
    <3> QED BY <3>1, <3>2, Zenon
  <2>3. (At(s, "delete_found") =>
            (Key[op[s].event] # NoKey => \A x \in rows :
                (Key[x] = Key[op[s].event] /\ x # op[s].event) =>
                    x \in op[s].todo \/ {x, op[s].event} \in raced))'
    BY <2>1, <2>2 DEF At
  <2> QED BY <2>1, <2>3 DEF OpOK, At, MayGo, may_delete
<1> QED BY <1>2, <1>3, <1>4, Zenon DEF StoreInv

\* With fewer rows, no new pair of current events.
LEMMA FewerRows == ASSUME TwoCurrentByOverlap, rows' \subseteq rows, raced \subseteq raced'
                   PROVE  TwoCurrentByOverlap'
  BY Zenon DEF TwoCurrentByOverlap

LEMMA ReturnKeeps ==
    ASSUME StoreInv, NEW w \in Writers, op[w].pc # "idle", Return(w),
           rows' \subseteq rows \union {op[w].event},
           UNCHANGED <<submitted, raced, serial, before>>, failures' \in 0 .. MaxFailures,
           TwoCurrentByOverlap'
    PROVE  StoreInv'
<1>1. Idle \in Ops /\ Idle.pc = "idle"
  BY Zenon DEF Idle, Ops, Pcs
<1>2. op' = [op EXCEPT ![w] = Idle] /\ op'[w] = Idle
  BY Zenon DEF Return, StoreInv, StoreTypes
<1>3. OpOK(w)'
  BY <1>1, <1>2, Zenon DEF OpOK, At
<1> QED BY <1>1, <1>2, <1>3, OneWriterMoves, Zenon

LEMMA BeginKeeps == ASSUME StoreInv, NEW w \in Writers, NEW e \in Events, InsertBegin(w, e) PROVE StoreInv'
<1> DEFINE t == [Idle EXCEPT !.pc = "get", !.event = e]
           rivals == {v \in Busy : Key[e] # NoKey /\ Key[op[v].event] = Key[e]}
<1>1. /\ At(w, "idle") /\ op' = [op EXCEPT ![w] = t] /\ submitted' = submitted \union {e}
      /\ raced' = raced \union {{op[v].event, e} : v \in rivals}
      /\ before' \in {rows, before} /\ UNCHANGED <<rows, failures, serial>>
  BY Zenon DEF InsertBegin
<1>2. t \in Ops /\ t.pc = "get" /\ t.event = e
  BY Zenon DEF Idle, Ops, Pcs
<1> HIDE DEF t
<1>3. op' \in [Writers -> Ops] /\ op'[w] = t /\ \A s \in Writers \ {w} : op'[s] = op[s]
  BY <1>1, <1>2, Zenon DEF StoreInv, StoreTypes
<1>4. \A v \in rivals : v \in Writers /\ op[v].event \in submitted
  BY Zenon DEF StoreInv, OpOK, Busy
<1>5. raced' \subseteq SUBSET submitted'
  <2>1. \A v \in rivals : {op[v].event, e} \in SUBSET submitted'
    BY <1>1, <1>4, Zenon
  <2>2. raced \subseteq SUBSET submitted'
    BY <1>1, Zenon DEF StoreInv, StoreTypes
  <2> HIDE DEF rivals
  <2> QED BY <1>1, <2>1, <2>2
<1>6. StoreTypes'
  BY <1>1, <1>3, <1>5, Zenon DEF StoreInv, StoreTypes
<1>7. ASSUME NEW s \in Writers PROVE OpOK(s)'
  <2>1. CASE s = w
    BY <1>1, <1>2, <1>3, <2>1, Zenon DEF OpOK, At
  <2>2. CASE s # w
    BY <1>1, <1>3, <2>2, Zenon DEF StoreInv, OpOK, At
  <2> QED BY <2>1, <2>2, Zenon
<1>8. ASSUME NEW v \in Writers, NEW u \in Writers PROVE Racing(v, u)'
  <2> SUFFICES ASSUME v # u, op'[v].pc # "idle", op'[u].pc # "idle", Key[op'[v].event] # NoKey,
                      Key[op'[v].event] = Key[op'[u].event]
               PROVE  {op'[v].event, op'[u].event} \in raced'
    BY Zenon DEF Racing
  <2>1. ASSUME NEW s \in Writers, s # w, op[s].pc # "idle", Key[e] # NoKey, Key[op[s].event] = Key[e]
        PROVE  {op[s].event, e} \in raced'
    BY <1>1, <2>1, Zenon DEF Busy
  <2>2. CASE v = w
    <3>1. op'[v].event = e /\ op'[u] = op[u] /\ {op[u].event, e} = {e, op[u].event}
      BY <1>2, <1>3, <2>2, Zenon
    <3> QED BY <2>1, <2>2, <3>1, Zenon
  <2>3. CASE u = w
    BY <1>2, <1>3, <2>1, <2>3, Zenon
  <2>4. CASE v # w /\ u # w
    BY <1>1, <1>3, <2>4, Zenon DEF StoreInv, Racing
  <2> QED BY <2>2, <2>3, <2>4, Zenon
<1>9. TwoCurrentByOverlap'
  BY <1>1, FewerRows, Zenon DEF StoreInv
<1> QED BY <1>6, <1>7, <1>8, <1>9, Zenon DEF StoreInv

LEMMA GetEventKeeps == ASSUME StoreInv, NEW w \in Writers, GetEvent(w) PROVE StoreInv'
<1> DEFINE e == op[w].event
           pc == IF Key[e] = NoKey THEN "delete_ids" ELSE "query_key"
           t == [op[w] EXCEPT !.pc = pc, !.todo = DeletesId[e], !.keys = DeletesKey[e]]
<1>0. /\ op[w] \in Ops /\ op[w].pc # "idle" /\ OpOK(w) /\ e \in Events /\ failures' \in 0 .. MaxFailures
      /\ UNCHANGED <<rows, failures, submitted, raced, serial, before>> /\ TwoCurrentByOverlap'
  <2>1. OpOK(w) /\ op[w] \in Ops /\ op[w].pc = "get"
    BY Zenon DEF StoreInv, StoreTypes, GetEvent, At
  <2>2. UNCHANGED <<rows, failures, submitted, raced, serial, before>>
    BY Zenon DEF GetEvent
  <2> QED BY <2>1, <2>2, FewerRows, Zenon DEF StoreInv, StoreTypes, OpOK
<1>1. CASE e \in rows
  BY <1>0, <1>1, ReturnKeeps, Zenon DEF GetEvent
<1>2. CASE e \notin rows
  <2>1. op' = [op EXCEPT ![w] = t]
    BY <1>2, Zenon DEF GetEvent
  <2>2. DeletesId[e] \in SUBSET Events /\ DeletesKey[e] \in SUBSET Keys /\ pc \in Pcs
    BY <1>0, StoreAssumption, Zenon DEF Pcs
  <2>3. t \in Ops /\ t.pc = pc /\ t.event = e /\ t.todo = DeletesId[e] /\ t.keys = DeletesKey[e]
    BY <1>0, <2>2, Zenon DEF Ops
  <2> HIDE DEF t
  <2>4. op'[w] = t
    BY <2>1, Zenon DEF StoreInv, StoreTypes
  <2>5. pc = "delete_ids" => Key[e] = NoKey
    BY Zenon
  <2>6. pc = "query_key" => Key[e] # NoKey
    BY Zenon
  <2>7. pc # "delete_found"
    BY Zenon
  <2> HIDE DEF pc
  <2>8. OpOK(w)'
    BY <1>0, <2>3, <2>4, <2>5, <2>6, <2>7, Zenon DEF OpOK, At
  <2> QED BY <1>0, <2>1, <2>3, <2>8, OneWriterMoves, Zenon
<1> QED BY <1>1, <1>2, Zenon

LEMMA OpTypes == ASSUME StoreInv, NEW w \in Writers
                 PROVE  /\ op[w] \in Ops /\ OpOK(w) /\ op \in [Writers -> Ops]
                        /\ op[w].pc # "idle" => op[w].event \in Events /\ op[w].event \in submitted
  BY Zenon DEF StoreInv, StoreTypes, OpOK

\* The statements that delete: what is left to delete is part of what was.
LEMMA TodoShrinks ==
    ASSUME StoreInv, NEW w \in Writers, op[w].pc \in {"delete_ids", "delete_found"}, NEW x,
           op' = [op EXCEPT ![w].todo = @ \ {x}], rows' \subseteq rows,
           At(w, "delete_found") => rows' = rows \ {x},
           UNCHANGED <<failures, submitted, raced, serial, before>>
    PROVE  StoreInv'
<1> DEFINE t == [op[w] EXCEPT !.todo = op[w].todo \ {x}]
           e == op[w].event
<1>1. op' = [op EXCEPT ![w] = t]
  BY Zenon
<1>2. op[w] \in Ops /\ OpOK(w) /\ op \in [Writers -> Ops] /\ op[w].pc # "idle"
  BY OpTypes, Zenon
<1>3. op[w].todo \ {x} \in SUBSET Events
  BY <1>2, Zenon DEF Ops
<1>4. t \in Ops /\ t.pc = op[w].pc /\ t.event = e /\ t.todo = op[w].todo \ {x} /\ t.keys = op[w].keys
  BY <1>2, <1>3, Zenon DEF Ops
<1> HIDE DEF t
<1>5. op'[w] = t
  BY <1>1, <1>2, Zenon
<1>6. ASSUME At(w, "delete_found"), Key[e] # NoKey, NEW y \in rows', Key[y] = Key[e], y # e
      PROVE  y \in t.todo \/ {y, e} \in raced'
  <2>1. y \in rows /\ y # x /\ raced' = raced
    BY <1>6, Zenon
  <2>2. y \in op[w].todo \/ {y, e} \in raced
    BY <1>2, <1>6, <2>1, Zenon DEF OpOK
  <2> QED BY <1>4, <2>1, <2>2, Zenon
<1>7. /\ At(w, "query_key")' = At(w, "query_key") /\ At(w, "delete_ids")' = At(w, "delete_ids")
      /\ At(w, "delete_found")' = At(w, "delete_found") /\ op'[w].event = e
  BY <1>4, <1>5, Zenon DEF At
<1>8. OpOK(w)'
  <2>1. /\ e \in submitted' /\ t.keys \subseteq DeletesKey[e] /\ t.pc # "query_key"
        /\ t.pc = "delete_ids" => Key[e] = NoKey /\ t.todo \subseteq DeletesId[e]
        /\ t.pc = "delete_found" => \A y \in t.todo : MayGo(e, y)
    BY <1>2, <1>4, Zenon DEF OpOK, At
  <2>2. op'[w].pc = t.pc /\ op'[w].todo = t.todo /\ op'[w].keys = t.keys
    BY <1>5, Zenon
  <2>3. t.pc = "delete_found" => (Key[e] # NoKey => \A y \in rows' :
           (Key[y] = Key[e] /\ y # e) => y \in t.todo \/ {y, e} \in raced')
    BY <1>4, <1>6, Zenon DEF At
  <2> QED BY <1>7, <2>1, <2>2, <2>3, Zenon DEF OpOK, At
<1>9. TwoCurrentByOverlap' /\ failures' \in 0 .. MaxFailures
  BY FewerRows, Zenon DEF StoreInv, StoreTypes
<1> QED BY <1>1, <1>2, <1>4, <1>8, <1>9, OneWriterMoves, Zenon

LEMMA DeleteKeeps == ASSUME StoreInv, NEW w \in Writers, DeleteId(w) \/ DeleteFound(w) PROVE StoreInv'
<1>1. CASE DeleteId(w)
  <2>1. PICK x \in op[w].todo : op' = [op EXCEPT ![w].todo = @ \ {x}] /\ rows' \subseteq rows
    BY <1>1, Zenon DEF DeleteId
  <2>2. op[w].pc = "delete_ids" /\ UNCHANGED <<failures, submitted, raced, serial, before>>
    BY <1>1, Zenon DEF DeleteId, At
  <2> QED BY <2>1, <2>2, TodoShrinks, Zenon DEF At
<1>2. CASE DeleteFound(w)
  <2>1. PICK x \in op[w].todo : op' = [op EXCEPT ![w].todo = @ \ {x}] /\ rows' = rows \ {x}
    BY <1>2, Zenon DEF DeleteFound
  <2>2. op[w].pc = "delete_found" /\ UNCHANGED <<failures, submitted, raced, serial, before>>
    BY <1>2, Zenon DEF DeleteFound, At
  <2> QED BY <2>1, <2>2, TodoShrinks, Zenon
<1> QED BY <1>1, <1>2, Zenon

\* The statements that query: what they find is what may go.
LEMMA TodoFound ==
    ASSUME StoreInv, NEW w \in Writers, op[w].pc # "idle", NEW S \in SUBSET rows,
           NEW K \in SUBSET DeletesKey[op[w].event],
           op' = [op EXCEPT ![w] = [op[w] EXCEPT !.pc = "delete_found", !.todo = S, !.keys = K]],
           \A x \in S : MayGo(op[w].event, x),
           Key[op[w].event] # NoKey => S = {x \in rows : Key[x] = Key[op[w].event]},
           UNCHANGED <<rows, failures, submitted, raced, serial, before>>
    PROVE  StoreInv'
<1> DEFINE t == [op[w] EXCEPT !.pc = "delete_found", !.todo = S, !.keys = K]
           e == op[w].event
<1>1. op' = [op EXCEPT ![w] = t]
  BY Zenon
<1>2. op[w] \in Ops /\ OpOK(w) /\ op \in [Writers -> Ops] /\ e \in Events /\ e \in submitted
  BY OpTypes, Zenon
<1>3. S \in SUBSET Events /\ K \in SUBSET Keys /\ "delete_found" \in Pcs
  <2>1. DeletesKey[e] \in SUBSET Keys
    BY <1>2, StoreAssumption, Zenon
  <2> QED BY <2>1, Zenon DEF StoreInv, StoreTypes, Pcs
<1>4. t \in Ops /\ t.pc = "delete_found" /\ t.event = e /\ t.todo = S /\ t.keys = K
  BY <1>2, <1>3, Zenon DEF Ops
<1> HIDE DEF t
<1>5. op'[w] = t
  BY <1>1, <1>2, Zenon
<1>6. Key[e] # NoKey => \A y \in rows' : Key[y] = Key[e] => y \in S
  BY Zenon
<1>7. OpOK(w)'
  <2>1. e \in submitted' /\ K \subseteq DeletesKey[e]
    BY <1>2, Zenon
  <2>2. op'[w].pc = "delete_found" /\ op'[w].event = e /\ op'[w].todo = S /\ op'[w].keys = K
    BY <1>4, <1>5, Zenon
  <2> QED BY <1>6, <2>1, <2>2, Zenon DEF OpOK, At
<1>8. TwoCurrentByOverlap' /\ failures' \in 0 .. MaxFailures
  BY FewerRows, Zenon DEF StoreInv, StoreTypes
<1> QED BY <1>1, <1>2, <1>4, <1>7, <1>8, OneWriterMoves, Zenon

LEMMA QueryAddressKeeps == ASSUME StoreInv, NEW w \in Writers, QueryAddress(w) PROVE StoreInv'
<1> DEFINE e == op[w].event
<1>1. /\ op[w].pc \in {"delete_ids", "delete_found"}
      /\ UNCHANGED <<rows, failures, submitted, raced, serial, before>>
  BY Zenon DEF QueryAddress
<1>2. PICK a \in op[w].keys :
        op' = [op EXCEPT ![w].pc = "delete_found", ![w].keys = @ \ {a},
                         ![w].todo = {x \in rows : Key[x] = a /\ may_delete(e, x)}]
  BY Zenon DEF QueryAddress
<1> DEFINE S == {x \in rows : Key[x] = a /\ may_delete(e, x)}
           K == op[w].keys \ {a}
<1>3. op' = [op EXCEPT ![w] = [op[w] EXCEPT !.pc = "delete_found", !.todo = S, !.keys = K]]
  BY <1>2, OpTypes DEF Ops
<1>4. op[w].keys \subseteq DeletesKey[e] /\ e \in Events
  BY <1>1, OpTypes, Zenon DEF OpOK
<1>5. Key[e] = NoKey
  BY <1>2, <1>4, StoreAssumption, Zenon
<1>6. \A x \in S : MayGo(e, x)
  BY <1>2, <1>4, Zenon DEF MayGo
<1>7. S \in SUBSET rows /\ K \in SUBSET DeletesKey[e]
  BY <1>4, Zenon
<1>8. op[w].pc # "idle"
  BY <1>1, Zenon
<1> HIDE DEF S, K
<1> QED BY <1>1, <1>3, <1>5, <1>6, <1>7, <1>8, TodoFound, Zenon

LEMMA QueryKeyKeeps == ASSUME StoreInv, NEW w \in Writers, QueryKey(w) PROVE StoreInv'
<1> DEFINE e == op[w].event
           rivals == {x \in rows : Key[x] = Key[e]}
<1>1. op[w].pc = "query_key" /\ UNCHANGED <<rows, failures, submitted, raced, serial, before>>
  BY Zenon DEF QueryKey, At
<1>2. op[w] \in Ops /\ OpOK(w) /\ e \in Events /\ op[w].pc # "idle" /\ Key[e] # NoKey
      /\ op \in [Writers -> Ops] /\ rows \subseteq Events
  BY <1>1, OpTypes, Zenon DEF OpOK, At, StoreInv, StoreTypes
<1>3. CASE Return(w)
  <2>1. TwoCurrentByOverlap' /\ failures' \in 0 .. MaxFailures
    BY <1>1, FewerRows, Zenon DEF StoreInv, StoreTypes
  <2>2. rows' \subseteq rows \union {op[w].event}
    BY <1>1, Zenon
  <2> QED BY <1>1, <1>2, <1>3, <2>1, <2>2, ReturnKeeps, Zenon
<1>4. CASE ~Return(w)
  <2>1. /\ ~ \E x \in rivals : CreatedAt[x] >= CreatedAt[e]
        /\ op' = [op EXCEPT ![w].pc = "delete_found", ![w].todo = rivals]
    BY <1>4, Zenon DEF QueryKey
  <2>2. \A x \in rivals : CreatedAt[x] < CreatedAt[e]
    <3>1. \A x \in Events : CreatedAt[x] \in Nat
      BY StoreAssumption, Zenon
    <3>2. \A m, n \in Nat : ~(m >= n) => m < n
      OBVIOUS
    <3> QED BY <1>2, <2>1, <3>1, <3>2, Zenon
  <2> QED
    <3> DEFINE t == [op[w] EXCEPT !.pc = "delete_found", !.todo = rivals]
    <3>1. op' = [op EXCEPT ![w] = t]
      BY <2>1, Zenon
    <3>2. rivals \in SUBSET Events /\ "delete_found" \in Pcs
      BY <1>2, Zenon DEF Pcs
    <3> HIDE DEF rivals
    <3>3. t \in Ops /\ t.pc = "delete_found" /\ t.event = e /\ t.todo = rivals /\ t.keys = op[w].keys
      BY <1>2, <3>2, Zenon DEF Ops
    <3>4. op'[w] = t
      BY <1>2, <3>1, Zenon
    <3> HIDE DEF t
    <3>5. \A x \in rivals : MayGo(e, x)
      BY <2>2, Zenon DEF MayGo, rivals
    <3>6. \A x \in rows' : Key[x] = Key[e] => x \in rivals
      BY <1>1, Zenon DEF rivals
    <3>7. t.keys \subseteq DeletesKey[e]
      BY <1>1, <1>2, <3>3, Zenon DEF OpOK
    <3>8. e \in submitted'
      BY <1>1, <1>2, OpTypes, Zenon
    <3>9. OpOK(w)'
      BY <3>3, <3>4, <3>5, <3>6, <3>7, <3>8, Zenon DEF OpOK, At
    <3>10. TwoCurrentByOverlap' /\ failures' \in 0 .. MaxFailures
      BY <1>1, FewerRows, Zenon DEF StoreInv, StoreTypes
    <3> QED BY <1>1, <1>2, <3>1, <3>3, <3>9, <3>10, OneWriterMoves, Zenon
<1> QED BY <1>3, <1>4, Zenon

\* The row that is inserted meets no event of its key but those it raced.
LEMMA InsertRowKeeps == ASSUME StoreInv, NEW w \in Writers, InsertRow(w) PROVE StoreInv'
<1> DEFINE e == op[w].event
<1>1. /\ op[w].pc \in {"delete_ids", "delete_found"} /\ op[w].todo = {} /\ Return(w)
      /\ rows' = rows \union {e} /\ UNCHANGED <<failures, submitted, raced, serial, before>>
  BY Zenon DEF InsertRow
<1>2. OpOK(w)
  BY OpTypes, Zenon
<1>3. ASSUME Key[e] # NoKey, NEW x \in rows, Key[x] = Key[e], x # e PROVE {x, e} \in raced
  BY <1>1, <1>2, <1>3, Zenon DEF OpOK, At
<1>4. TwoCurrentByOverlap'
  <2> SUFFICES ASSUME NEW x \in rows', NEW y \in rows', Key[x] # NoKey, Key[x] = Key[y], x # y
               PROVE  {x, y} \in raced'
    BY Zenon DEF TwoCurrentByOverlap
  <2>1. raced' = raced /\ {x, y} = {y, x}
    BY <1>1
  <2>2. CASE x \in rows /\ y \in rows
    BY <2>1, <2>2, Zenon DEF StoreInv, TwoCurrentByOverlap
  <2>3. CASE y = e /\ x \in rows
    BY <1>3, <2>1, <2>3, Zenon
  <2>4. CASE x = e /\ y \in rows
    BY <1>3, <2>1, <2>4, Zenon
  <2> QED BY <1>1, <2>2, <2>3, <2>4, Zenon
<1>5. op[w].pc # "idle" /\ rows' \subseteq rows \union {e} /\ failures' \in 0 .. MaxFailures
  BY <1>1, Zenon DEF StoreInv, StoreTypes
<1> QED BY <1>1, <1>4, <1>5, ReturnKeeps, Zenon

LEMMA StoreStep == StoreInv /\ [Next]_vars => StoreInv'
<1> SUFFICES ASSUME StoreInv, [Next]_vars PROVE StoreInv'
  OBVIOUS
<1>1. ASSUME NEW w \in Writers, Fail(w) PROVE StoreInv'
  <2>1. op[w].pc # "idle" /\ Return(w) /\ UNCHANGED <<rows, submitted, raced, serial, before>>
    BY <1>1, Zenon DEF Fail
  <2>2. failures' \in 0 .. MaxFailures
    BY <1>1, StoreAssumption DEF Fail, StoreInv, StoreTypes
  <2>3. TwoCurrentByOverlap' /\ rows' \subseteq rows \union {op[w].event}
    BY <2>1, FewerRows, Zenon DEF StoreInv
  <2> QED BY <2>1, <2>2, <2>3, ReturnKeeps, Zenon
<1>2. ASSUME rows' \subseteq rows, UNCHANGED <<op, failures, submitted, raced, serial, before>>
      PROVE  StoreInv'
  <2>1. TwoCurrentByOverlap'
    BY <1>2, FewerRows, Zenon DEF StoreInv
  <2>2. StoreTypes'
    BY <1>2, Zenon DEF StoreInv, StoreTypes
  <2>3. \A w \in Writers : OpOK(w)'
    BY <1>2, Zenon DEF StoreInv, OpOK, At
  <2>4. \A v, w \in Writers : Racing(v, w)'
    BY <1>2, Zenon DEF StoreInv, Racing
  <2> QED BY <2>1, <2>2, <2>3, <2>4, Zenon DEF StoreInv
<1>3. ASSUME NEW w \in Writers, NEW e \in Events, Delete(w, e) PROVE StoreInv'
  BY <1>2, <1>3, Zenon DEF Delete
<1>4. CASE UNCHANGED vars
  BY <1>2, <1>4, Zenon DEF vars
<1> QED
  BY <1>1, <1>3, <1>4, BeginKeeps, GetEventKeeps, DeleteKeeps, QueryAddressKeeps, QueryKeyKeeps,
     InsertRowKeeps, Zenon DEF Next, WriterStep

LEMMA StoreInvariance == Spec => []StoreInv
<1>1. Init => StoreInv
  <2> SUFFICES ASSUME Init PROVE StoreInv
    OBVIOUS
  <2>1. /\ rows = {} /\ op = [w \in Writers |-> Idle] /\ failures = 0 /\ submitted = {} /\ raced = {}
        /\ serial \in BOOLEAN /\ before = {}
    BY Zenon DEF Init
  <2>2. Idle \in Ops /\ Idle.pc = "idle"
    BY Zenon DEF Idle, Ops, Pcs
  <2>3. failures \in 0 .. MaxFailures
    BY <2>1, StoreAssumption
  <2>4. StoreTypes
    BY <2>1, <2>2, <2>3, Zenon DEF StoreTypes
  <2>5. \A w \in Writers : OpOK(w)
    BY <2>1, <2>2, Zenon DEF OpOK, At
  <2>6. (\A v, w \in Writers : Racing(v, w)) /\ TwoCurrentByOverlap
    BY <2>1, <2>2, Zenon DEF Racing, TwoCurrentByOverlap
  <2> QED BY <2>4, <2>5, <2>6, Zenon DEF StoreInv
<1> QED BY <1>1, StoreStep, PTL DEF Spec

\* However long ago it looked, an insert removes only what its author's deletion
\* reaches and older events of its own key (apply_delete_repo, apply_replaceable_repo);
\* the table holds only events that were submitted.
THEOREM RemovalsAreDue == Spec => []TypeOK
<1>1. StoreInv => TypeOK
  <2> SUFFICES ASSUME StoreInv PROVE TypeOK
    OBVIOUS
  <2>1. /\ rows \subseteq submitted /\ submitted \subseteq Events /\ before \subseteq submitted
        /\ raced \subseteq SUBSET submitted
        /\ serial \in BOOLEAN /\ failures \in 0 .. MaxFailures
    BY Zenon DEF StoreInv, StoreTypes
  <2>2. op \in [Writers -> Ops]
    BY Zenon DEF StoreInv, StoreTypes
  <2>3. ASSUME NEW w \in Writers
        PROVE  /\ op[w].pc # "idle" => op[w].event \in submitted
               /\ At(w, "delete_found") => \A x \in op[w].todo : MayGo(op[w].event, x)
    BY Zenon DEF StoreInv, OpOK
  <2> QED BY <2>1, <2>2, <2>3, Zenon DEF TypeOK, Ops, Pcs, MayGo
<1> QED BY <1>1, StoreInvariance, PTL

\* Two events of one replaceable key are in the table only if their inserts were in
\* flight together, for any events, connections and failures (apply_replaceable_repo).
THEOREM DoublesAreRaced == Spec => []TwoCurrentByOverlap
<1>1. StoreInv => TwoCurrentByOverlap
  BY Zenon DEF StoreInv
<1> QED BY <1>1, StoreInvariance, PTL

\* No insert, failed or not, costs the newest event of a key its place; only a deletion
\* by its author or the retention pass does (apply_replaceable_repo, apply_delete_repo).
THEOREM NewestEventsStay == Spec => NewestIsKept
<1> DEFINE Keeps == op' # op => \A e \in rows \ rows' : (Key[e] # NoKey /\ Newest(e)) => Deletable(e)
<1>1. StoreInv /\ [Next]_vars => [Keeps]_vars
  <2> SUFFICES ASSUME StoreInv, Next, op' # op, NEW x \in rows \ rows', Key[x] # NoKey, Newest(x)
               PROVE  Deletable(x)
    OBVIOUS
  <2>1. ASSUME NEW w \in Writers, DeleteId(w) PROVE Deletable(x)
    <3>1. x \in op[w].todo /\ may_delete(op[w].event, x) /\ op[w].pc = "delete_ids"
      BY <2>1, Zenon DEF DeleteId, At
    <3>2. op[w].event \in submitted /\ x \in DeletesId[op[w].event]
      BY <3>1, OpTypes, Zenon DEF OpOK, At
    <3> QED BY <3>1, <3>2, Zenon DEF Deletable
  <2>2. ASSUME NEW w \in Writers, DeleteFound(w) PROVE Deletable(x)
    <3> DEFINE e == op[w].event
    <3>1. x \in op[w].todo /\ op[w].pc = "delete_found"
      BY <2>2, Zenon DEF DeleteFound, At
    <3>2. MayGo(e, x) /\ e \in submitted /\ e \in Events /\ x \in Events
      BY <3>1, OpTypes, Zenon DEF OpOK, At, StoreInv, StoreTypes
    <3>3. CASE Key[x] \in DeletesKey[e] /\ may_delete(e, x)
      BY <3>2, <3>3, Zenon DEF Deletable
    <3>4. CASE Key[x] = Key[e] /\ CreatedAt[x] < CreatedAt[e]
      <4>1. CreatedAt[x] \in Nat /\ CreatedAt[e] \in Nat
        BY <3>2, StoreAssumption, Zenon
      <4>2. e # x
        BY <3>4, <4>1
      <4>3. CreatedAt[e] < CreatedAt[x]
        BY <3>2, <3>4, <4>2, Zenon DEF Newest
      <4> QED BY <3>4, <4>1, <4>3
    <3> QED BY <3>2, <3>3, <3>4, Zenon DEF MayGo
  <2>3. ASSUME NEW w \in Writers, WriterStep(w), ~DeleteId(w), ~DeleteFound(w) PROVE FALSE
    BY <2>3, Zenon DEF WriterStep, InsertBegin, GetEvent, QueryAddress, QueryKey, InsertRow, Fail
  <2>4. ASSUME NEW w \in Writers, NEW e \in Events, Delete(w, e) PROVE FALSE
    BY <2>4, Zenon DEF Delete
  <2> QED BY <2>1, <2>2, <2>3, <2>4, Zenon DEF Next
<1> QED BY <1>1, StoreInvariance, PTL DEF Spec, NewestIsKept
-----------------------------------------------------------------------------
(***************************************************************************)
(* The event store implements the in-memory store while operations do not  *)
(* overlap: Doomed is what the insert in flight removes in all, and the    *)
(* table is what it was when the insert began, without what has been       *)
(* removed of it.                                                          *)
(***************************************************************************)
Unique(S) == \A x, y \in S : (Key[x] # NoKey /\ Key[x] = Key[y]) => x = y

Doomed(e, keys) ==
    {x \in Events : \/ Key[e] # NoKey /\ Key[x] = Key[e]
                    \/ Key[e] = NoKey /\ may_delete(e, x)
                       /\ (x \in DeletesId[e] \/ Key[x] \in DeletesKey[e] \ keys)}

Progress(w) ==
    LET e == op[w].event IN
    /\ op[w].pc \in {"get", "query_key"} => rows = before
    /\ op[w].pc \in {"query_key", "delete_ids", "delete_found"} => e \notin before
    /\ op[w].pc \in {"delete_ids", "delete_found"} =>
          rows = before \ (Doomed(e, op[w].keys) \ op[w].todo)
    /\ At(w, "delete_ids") => op[w].keys = DeletesKey[e]
    /\ At(w, "delete_found") =>
          /\ op[w].todo \subseteq Doomed(e, op[w].keys)
          /\ Key[e] # NoKey => \A x \in before : Key[x] = Key[e] => CreatedAt[x] < CreatedAt[e]

SerialInv ==
    serial =>
        /\ \A v, w \in Busy : v = w
        /\ Busy = {} => Unique(rows)
        /\ \A w \in Busy : Unique(before) /\ Progress(w)

\* The one insert in flight takes a step.
LEMMA OneInFlight ==
    ASSUME StoreInv, SerialInv, serial, NEW w \in Writers, op[w].pc # "idle", NEW t,
           op' = [op EXCEPT ![w] = t]
    PROVE  /\ op'[w] = t /\ Busy = {w} /\ Unique(before) /\ Progress(w)
           /\ Busy' = IF t.pc = "idle" THEN {} ELSE {w}
<1>1. Busy = {w} /\ Unique(before) /\ Progress(w)
  BY Zenon DEF SerialInv, Busy
<1>2. op'[w] = t /\ \A s \in Writers \ {w} : op'[s] = op[s] /\ op[s].pc = "idle"
  BY <1>1, Zenon DEF StoreInv, StoreTypes, Busy
<1>3. CASE t.pc = "idle"
  BY <1>1, <1>2, <1>3, Zenon DEF Busy
<1>4. CASE t.pc # "idle"
  BY <1>1, <1>2, <1>4, Zenon DEF Busy
<1> QED BY <1>1, <1>2, <1>3, <1>4, Zenon

LEMMA InsertAdvances ==
    ASSUME StoreInv, SerialInv, serial, NEW w \in Writers, op[w].pc # "idle", NEW t,
           op' = [op EXCEPT ![w] = t], t.pc # "idle", before' = before, Progress(w)'
    PROVE  SerialInv'
<1>1. Busy' = {w} /\ Unique(before)'
  BY OneInFlight, Zenon DEF Unique
<1> QED BY <1>1, Zenon DEF SerialInv

LEMMA InsertEnds ==
    ASSUME StoreInv, SerialInv, serial, NEW w \in Writers, op[w].pc # "idle", Return(w), Unique(rows)'
    PROVE  SerialInv' /\ Busy = {w} /\ Busy' = {}
<1>1. Idle.pc = "idle"
  BY Zenon DEF Idle
<1>2. Busy = {w} /\ Busy' = {}
  BY <1>1, OneInFlight, Zenon DEF Return
<1> QED BY <1>2, Zenon DEF SerialInv

LEMMA SerialBegin ==
    ASSUME StoreInv, SerialInv, serial, NEW w \in Writers, NEW e \in Events, InsertBegin(w, e)
    PROVE  SerialInv' /\ Busy = {} /\ Busy' = {w} /\ before' = rows
<1> DEFINE t == [Idle EXCEPT !.pc = "get", !.event = e]
<1>1. Busy = {} /\ op' = [op EXCEPT ![w] = t] /\ before' = rows /\ rows' = rows
  BY Zenon DEF InsertBegin
<1>2. t.pc = "get"
  BY Zenon DEF Idle
<1> HIDE DEF t
<1>3. op'[w].pc = "get" /\ \A s \in Writers \ {w} : op'[s].pc = "idle"
  BY <1>1, <1>2, Zenon DEF StoreInv, StoreTypes, Busy
<1>4. Busy' = {w}
  BY <1>3, Zenon DEF Busy
<1>5. Progress(w)'
  BY <1>1, <1>3, Zenon DEF Progress, At
<1>6. Unique(before)'
  BY <1>1, Zenon DEF SerialInv, Unique
<1> QED BY <1>1, <1>4, <1>5, <1>6, Zenon DEF SerialInv

\* The statements of a serial insert: one that ends it leaves what it found, or the
\* insert goes on; only InsertRow changes what a reader sees.
SerialStep(w) == SerialInv' /\ Busy = {w} /\ before' = before
                 /\ (Busy' = {w} \/ (Busy' = {} /\ rows' = before))

LEMMA SerialGetEvent ==
    ASSUME StoreInv, SerialInv, serial, NEW w \in Writers, GetEvent(w)
    PROVE  SerialStep(w)
<1> DEFINE e == op[w].event
           pc == IF Key[e] = NoKey THEN "delete_ids" ELSE "query_key"
           t == [op[w] EXCEPT !.pc = pc, !.todo = DeletesId[e], !.keys = DeletesKey[e]]
<1>1. op[w].pc = "get" /\ op[w].pc # "idle" /\ rows' = rows /\ before' = before
  BY Zenon DEF GetEvent, At
<1>2. Busy = {w} /\ Unique(before) /\ rows = before /\ op[w] \in Ops /\ e \in Events
  BY <1>1, OpTypes, Zenon DEF SerialInv, Busy, Progress
<1>3. CASE e \in rows
  <2>1. Return(w)
    BY <1>3, Zenon DEF GetEvent
  <2>2. Unique(rows)'
    BY <1>1, <1>2, Zenon DEF Unique
  <2> QED BY <1>1, <1>2, <2>1, <2>2, InsertEnds, Zenon DEF SerialStep
<1>4. CASE e \notin rows
  <2>1. op' = [op EXCEPT ![w] = t]
    BY <1>4, Zenon DEF GetEvent
  <2>2. t.pc = pc /\ t.event = e /\ t.todo = DeletesId[e] /\ t.keys = DeletesKey[e]
    BY <1>2, Zenon DEF Ops
  <2> HIDE DEF t
  <2>3. op'[w] = t
    BY <2>1, Zenon DEF StoreInv, StoreTypes
  <2>4. Key[e] = NoKey => \A x \in Doomed(e, DeletesKey[e]) : x \in DeletesId[e]
    BY Zenon DEF Doomed
  <2>5. Key[e] = NoKey => rows = before \ (Doomed(e, DeletesKey[e]) \ DeletesId[e])
    BY <1>2, <2>4, Zenon
  <2>6. pc \in {"query_key", "delete_ids"} /\ (pc = "delete_ids" => Key[e] = NoKey)
    BY Zenon
  <2> HIDE DEF pc
  <2>7. Progress(w)'
    BY <1>1, <1>2, <1>4, <2>2, <2>3, <2>5, <2>6, Zenon DEF Progress, At
  <2>8. t.pc # "idle"
    BY <2>2, <2>6, Zenon
  <2> QED BY <1>1, <1>2, <2>1, <2>7, <2>8, OneInFlight, InsertAdvances, Zenon DEF SerialStep
<1> QED BY <1>3, <1>4, Zenon

LEMMA SerialDelete ==
    ASSUME StoreInv, SerialInv, serial, NEW w \in Writers, DeleteId(w) \/ DeleteFound(w)
    PROVE  SerialStep(w)
<1> DEFINE e == op[w].event
           D == Doomed(e, op[w].keys)
<1>1. op[w].pc \in {"delete_ids", "delete_found"} /\ op[w].pc # "idle" /\ before' = before
  BY Zenon DEF DeleteId, DeleteFound, At
<1>2. /\ Busy = {w} /\ Progress(w) /\ op[w] \in Ops /\ e \in Events /\ OpOK(w)
      /\ rows = before \ (D \ op[w].todo)
  BY <1>1, OpTypes, Zenon DEF SerialInv, Busy, Progress
<1>3. PICK x \in op[w].todo : op' = [op EXCEPT ![w].todo = @ \ {x}] /\ rows' = rows \ ({x} \intersect D)
  <2>1. CASE DeleteFound(w)
    <3>1. PICK x \in op[w].todo : op' = [op EXCEPT ![w].todo = @ \ {x}] /\ rows' = rows \ {x}
      BY <2>1, Zenon DEF DeleteFound
    <3>2. x \in D
      BY <1>2, <2>1, Zenon DEF Progress, DeleteFound
    <3> QED BY <3>1, <3>2, Zenon
  <2>2. CASE DeleteId(w)
    <3>1. PICK x \in op[w].todo : /\ op' = [op EXCEPT ![w].todo = @ \ {x}]
                                  /\ rows' = IF may_delete(e, x) THEN rows \ {x} ELSE rows
      BY <2>2, Zenon DEF DeleteId
    <3>2. x \in Events /\ Key[e] = NoKey /\ x \in DeletesId[e] /\ op[w].keys = DeletesKey[e]
      BY <1>2, <2>2, Zenon DEF DeleteId, OpOK, Ops, Progress
    <3>3. x \in D <=> may_delete(e, x)
      BY <3>2, Zenon DEF Doomed
    <3> HIDE DEF D
    <3>4. CASE x \in D
      BY <3>1, <3>3, <3>4, Zenon
    <3>5. CASE x \notin D
      BY <3>1, <3>3, <3>5, Zenon
    <3> QED BY <3>4, <3>5, Zenon
  <2> QED BY <2>1, <2>2, Zenon
<1> DEFINE t == [op[w] EXCEPT !.todo = op[w].todo \ {x}]
<1>4. op' = [op EXCEPT ![w] = t]
  BY <1>3, Zenon
<1>5. t.pc = op[w].pc /\ t.event = e /\ t.todo = op[w].todo \ {x} /\ t.keys = op[w].keys
  BY <1>2, Zenon DEF Ops
<1> HIDE DEF t
<1>6. op'[w] = t
  BY <1>4, Zenon DEF StoreInv, StoreTypes
<1>7. rows' = before \ (D \ (op[w].todo \ {x}))
  <2> HIDE DEF D
  <2> QED BY <1>2, <1>3
<1>8. Progress(w)'
  <2>1. /\ e \notin before' /\ t.pc \in {"delete_ids", "delete_found"}
        /\ rows' = before' \ (Doomed(e, t.keys) \ t.todo)
    BY <1>1, <1>2, <1>5, <1>7, Zenon DEF Progress
  <2>2. t.pc = "delete_ids" => t.keys = DeletesKey[e]
    BY <1>2, <1>5, Zenon DEF Progress, At
  <2>3. t.pc = "delete_found" =>
          /\ t.todo \subseteq Doomed(e, t.keys)
          /\ Key[e] # NoKey => \A y \in before' : Key[y] = Key[e] => CreatedAt[y] < CreatedAt[e]
    BY <1>1, <1>2, <1>5, Zenon DEF Progress, At
  <2> QED BY <1>5, <1>6, <2>1, <2>2, <2>3, Zenon DEF Progress, At
<1> QED BY <1>1, <1>2, <1>4, <1>5, <1>8, OneInFlight, InsertAdvances, Zenon DEF SerialStep

LEMMA SerialQueryAddress ==
    ASSUME StoreInv, SerialInv, serial, NEW w \in Writers, QueryAddress(w)
    PROVE  SerialStep(w)
<1> DEFINE e == op[w].event
           keys == op[w].keys
<1>1. /\ op[w].pc \in {"delete_ids", "delete_found"} /\ op[w].pc # "idle" /\ op[w].todo = {}
      /\ before' = before /\ rows' = rows
  BY Zenon DEF QueryAddress
<1>2. /\ Busy = {w} /\ Progress(w) /\ op[w] \in Ops /\ e \in Events /\ keys \subseteq DeletesKey[e]
      /\ rows = before \ Doomed(e, keys) /\ e \notin before
  <2>1. Busy = {w} /\ Progress(w) /\ op[w] \in Ops /\ e \in Events /\ OpOK(w)
    BY <1>1, OpTypes, Zenon DEF SerialInv, Busy
  <2>2. rows = before \ (Doomed(e, keys) \ {}) /\ e \notin before
    BY <1>1, <2>1, Zenon DEF Progress
  <2>3. Doomed(e, keys) \ {} = Doomed(e, keys)
    BY Zenon
  <2> QED BY <1>1, <2>1, <2>2, <2>3, Zenon DEF OpOK
<1>3. PICK a \in keys :
        op' = [op EXCEPT ![w].pc = "delete_found", ![w].keys = @ \ {a},
                         ![w].todo = {x \in rows : Key[x] = a /\ may_delete(e, x)}]
  BY Zenon DEF QueryAddress
<1> DEFINE S == {x \in rows : Key[x] = a /\ may_delete(e, x)}
           t == [op[w] EXCEPT !.pc = "delete_found", !.todo = S, !.keys = keys \ {a}]
<1>4. op' = [op EXCEPT ![w] = t]
  BY <1>3, OpTypes DEF Ops
<1>5. t.pc = "delete_found" /\ t.event = e /\ t.todo = S /\ t.keys = keys \ {a}
  BY <1>2, Zenon DEF Ops
<1>6. a \in DeletesKey[e] /\ Key[e] = NoKey
  BY <1>2, <1>3, StoreAssumption, Zenon
<1> HIDE DEF t
<1>7. op'[w] = t
  BY <1>4, Zenon DEF StoreInv, StoreTypes
<1>8. \A x \in Events : x \in Doomed(e, keys \ {a}) <=>
          x \in Doomed(e, keys) \/ (Key[x] = a /\ may_delete(e, x))
  BY <1>3, <1>6, Zenon DEF Doomed
<1>9. rows \subseteq Events /\ before \subseteq Events
  BY Zenon DEF StoreInv, StoreTypes
<1>10. rows = before \ (Doomed(e, keys \ {a}) \ S)
  <2>1. ASSUME NEW x \in rows PROVE x \in before /\ x \notin Doomed(e, keys \ {a}) \ S
    BY <1>2, <1>8, <1>9, <2>1, Zenon
  <2>2. ASSUME NEW x \in before, x \notin Doomed(e, keys \ {a}) \ S PROVE x \in rows
    BY <1>2, <1>8, <1>9, <2>2, Zenon
  <2> QED BY <2>1, <2>2, Zenon
<1>11. S \subseteq Doomed(e, keys \ {a})
  BY <1>8, <1>9, Zenon
<1> HIDE DEF S
<1>12. Progress(w)'
  BY <1>1, <1>2, <1>5, <1>6, <1>7, <1>10, <1>11, Zenon DEF Progress, At
<1> QED BY <1>1, <1>2, <1>4, <1>5, <1>12, OneInFlight, InsertAdvances, Zenon DEF SerialStep

LEMMA SerialQueryKey ==
    ASSUME StoreInv, SerialInv, serial, NEW w \in Writers, QueryKey(w)
    PROVE  SerialStep(w)
<1> DEFINE e == op[w].event
           rivals == {x \in rows : Key[x] = Key[e]}
           t == [op[w] EXCEPT !.pc = "delete_found", !.todo = rivals]
<1>1. op[w].pc = "query_key" /\ op[w].pc # "idle" /\ rows' = rows /\ before' = before
  BY Zenon DEF QueryKey, At
<1>2. /\ Busy = {w} /\ Unique(before) /\ rows = before /\ op[w] \in Ops /\ e \in Events
      /\ e \notin before /\ Key[e] # NoKey /\ rows \subseteq Events
  <2>1. Busy = {w} /\ Unique(before) /\ Progress(w) /\ op[w] \in Ops /\ e \in Events /\ OpOK(w)
    BY <1>1, OpTypes, Zenon DEF SerialInv, Busy
  <2> QED BY <1>1, <2>1, Zenon DEF Progress, OpOK, At, StoreInv, StoreTypes
<1>3. CASE Return(w)
  <2>1. Unique(rows)'
    BY <1>1, <1>2, Zenon DEF Unique
  <2> QED BY <1>1, <1>2, <1>3, <2>1, InsertEnds, Zenon DEF SerialStep
<1>4. CASE ~Return(w)
  <2>1. /\ ~ \E x \in rivals : CreatedAt[x] >= CreatedAt[e]
        /\ op' = [op EXCEPT ![w].pc = "delete_found", ![w].todo = rivals]
    BY <1>4, Zenon DEF QueryKey
  <2>2. \A x \in before : Key[x] = Key[e] => CreatedAt[x] < CreatedAt[e]
    <3>1. \A x \in Events : CreatedAt[x] \in Nat
      BY StoreAssumption, Zenon
    <3>2. \A m, n \in Nat : ~(m >= n) => m < n
      OBVIOUS
    <3> QED BY <1>2, <2>1, <3>1, <3>2, Zenon
  <2>3. op' = [op EXCEPT ![w] = t]
    BY <2>1, Zenon
  <2>4. t.pc = "delete_found" /\ t.event = e /\ t.todo = rivals /\ t.keys = op[w].keys
    BY <1>2, Zenon DEF Ops
  <2> HIDE DEF t
  <2>5. op'[w] = t
    BY <2>3, Zenon DEF StoreInv, StoreTypes
  <2>6. \A x \in Events : x \in Doomed(e, op[w].keys) <=> Key[x] = Key[e]
    BY <1>2, Zenon DEF Doomed
  <2>7. rivals \subseteq Doomed(e, op[w].keys) /\ rows = before \ (Doomed(e, op[w].keys) \ rivals)
    <3>1. rivals \subseteq Doomed(e, op[w].keys)
      BY <1>2, <2>6, Zenon
    <3>2. \A x \in before : x \notin Doomed(e, op[w].keys) \ rivals
      BY <1>2, <2>6, Zenon
    <3> HIDE DEF rivals
    <3> QED BY <1>2, <3>1, <3>2, Zenon
  <2> HIDE DEF rivals
  <2>8. Progress(w)'
    BY <1>1, <1>2, <2>2, <2>4, <2>5, <2>7, Zenon DEF Progress, At
  <2> QED BY <1>1, <1>2, <2>3, <2>4, <2>8, OneInFlight, InsertAdvances, Zenon DEF SerialStep
<1> QED BY <1>3, <1>4, Zenon

\* The last statement of a serial insert: the table is what it was, without what
\* the event replaces or deletes, and with the event.
LEMMA SerialInsertRow ==
    ASSUME StoreInv, SerialInv, serial, NEW w \in Writers, InsertRow(w)
    PROVE  /\ SerialInv' /\ Busy = {w} /\ Busy' = {} /\ Unique(before)
           /\ op[w].event \in Events /\ op[w].event \notin before
           /\ rows' = (before \ Doomed(op[w].event, {})) \union {op[w].event}
           /\ Key[op[w].event] # NoKey =>
                 \A x \in before : Key[x] = Key[op[w].event] => CreatedAt[x] < CreatedAt[op[w].event]
<1> DEFINE e == op[w].event
<1>1. /\ op[w].pc \in {"delete_ids", "delete_found"} /\ op[w].pc # "idle"
      /\ op[w].todo = {} /\ op[w].keys = {}
      /\ Return(w) /\ rows' = rows \union {e} /\ before' = before
  BY Zenon DEF InsertRow
<1>2. Busy = {w} /\ Unique(before) /\ Progress(w) /\ e \in Events /\ OpOK(w)
  BY <1>1, OpTypes, Zenon DEF SerialInv, Busy
<1>3. e \notin before /\ rows = before \ Doomed(e, {})
  <2>1. e \notin before /\ rows = before \ (Doomed(e, {}) \ {})
    BY <1>1, <1>2, Zenon DEF Progress
  <2>2. Doomed(e, {}) \ {} = Doomed(e, {})
    BY Zenon
  <2> QED BY <2>1, <2>2, Zenon
<1>4. Key[e] # NoKey => \A x \in before : Key[x] = Key[e] => CreatedAt[x] < CreatedAt[e]
  BY <1>1, <1>2, Zenon DEF Progress, OpOK, At
<1>5. Key[e] # NoKey => \A x \in rows : Key[x] # Key[e]
  BY <1>3, Zenon DEF Doomed, StoreInv, StoreTypes
<1>6. Unique(rows)'
  <2> SUFFICES ASSUME NEW x \in rows', NEW y \in rows', Key[x] # NoKey, Key[x] = Key[y] PROVE x = y
    BY Zenon DEF Unique
  <2>1. CASE x \in rows /\ y \in rows
    BY <1>2, <1>3, <2>1, Zenon DEF Unique
  <2>2. CASE x = e \/ y = e
    BY <1>1, <1>5, <2>2, Zenon
  <2> QED BY <1>1, <2>1, <2>2, Zenon
<1> QED BY <1>1, <1>2, <1>3, <1>4, <1>6, InsertEnds, Zenon

LEMMA SerialKeeps == StoreInv /\ SerialInv /\ [Next]_vars => SerialInv'
<1> SUFFICES ASSUME StoreInv, SerialInv, [Next]_vars, serial' PROVE SerialInv'
  BY Zenon DEF SerialInv
<1>1. serial
  BY Zenon DEF Next, WriterStep, InsertBegin, GetEvent, DeleteId, QueryAddress, QueryKey, DeleteFound,
               InsertRow, Fail, Delete, vars
<1>2. ASSUME rows' \subseteq rows, UNCHANGED <<op, before>>, Busy = {} \/ rows' = rows PROVE SerialInv'
  <2>1. Busy' = Busy
    BY <1>2, Zenon DEF Busy
  <2>2. Busy = {} => Unique(rows)'
    BY <1>1, <1>2, Zenon DEF SerialInv, Unique
  <2>3. ASSUME NEW w \in Busy PROVE Unique(before)' /\ Progress(w)'
    BY <1>1, <1>2, <2>3, Zenon DEF SerialInv, Unique, Progress, At
  <2> QED BY <1>1, <2>1, <2>2, <2>3, Zenon DEF SerialInv
<1>3. ASSUME NEW w \in Writers, NEW e \in Events, Delete(w, e) PROVE SerialInv'
  BY <1>1, <1>2, <1>3, Zenon DEF Delete
<1>4. CASE UNCHANGED vars
  BY <1>2, <1>4, Zenon DEF vars
<1>5. ASSUME NEW w \in Writers, WriterStep(w) PROVE SerialInv'
  BY <1>1, <1>5, SerialBegin, SerialGetEvent, SerialDelete, SerialQueryAddress, SerialQueryKey,
     SerialInsertRow, Zenon DEF WriterStep, SerialStep, Fail
<1> QED BY <1>3, <1>4, <1>5, Zenon DEF Next

-----------------------------------------------------------------------------
LEMMA IndexOf ==
    ASSUME NEW S \in SUBSET Events, Unique(S), NEW k \in Keys
    PROVE  /\ \A x \in Events : Index(S)[k] = x <=> x \in S /\ Key[x] = k
           /\ (\A x \in S : Key[x] # k) => Index(S)[k] = NoEvent
           /\ Index(S)[k] \in S \union {NoEvent}
<1>1. CASE \E x \in S : Key[x] = k
  <2>1. Index(S)[k] = CHOOSE x \in S : Key[x] = k
    BY <1>1, Zenon DEF Index
  <2>2. (CHOOSE x \in S : Key[x] = k) \in S /\ Key[CHOOSE x \in S : Key[x] = k] = k
    BY <1>1, Zenon
  <2>3. k # NoKey
    BY StoreAssumption, Zenon
  <2>4. Index(S)[k] \in S /\ Key[Index(S)[k]] = k
    BY <2>1, <2>2, Zenon
  <2> QED BY <1>1, <2>3, <2>4, Zenon DEF Unique
<1>2. CASE ~ \E x \in S : Key[x] = k
  <2>1. Index(S)[k] = NoEvent
    BY <1>2, Zenon DEF Index
  <2> QED BY <1>2, <2>1, StoreAssumption, Zenon
<1> QED BY <1>1, <1>2, Zenon

\* What Insert of the in-memory store removes, from a store with the events S.
Replaced(S, e) ==
    {x \in S : may_delete(e, x) /\ (x \in DeletesId[e] \/ \E k \in DeletesKey[e] : Index(S)[k] = x)}
    \union (IF Key[e] = NoKey THEN {} ELSE {Index(S)[Key[e]]})

LEMMA ReplacedIsDoomed ==
    ASSUME NEW S \in SUBSET Events, Unique(S), NEW e \in Events, NEW x \in S
    PROVE  x \in Replaced(S, e) <=> x \in Doomed(e, {})
<1>0. DeletesKey[e] \in SUBSET Keys /\ Key[e] \in Keys \union {NoKey} /\ x \in Events
  BY StoreAssumption, Zenon
<1>1. CASE Key[e] = NoKey
  <2>1. x \in Replaced(S, e) <=>
          may_delete(e, x) /\ (x \in DeletesId[e] \/ \E k \in DeletesKey[e] : Index(S)[k] = x)
    BY <1>1, Zenon DEF Replaced
  <2>2. (\E k \in DeletesKey[e] : Index(S)[k] = x) <=> Key[x] \in DeletesKey[e]
    BY <1>0, IndexOf
  <2>3. x \in Doomed(e, {}) <=> may_delete(e, x) /\ (x \in DeletesId[e] \/ Key[x] \in DeletesKey[e])
    BY <1>0, <1>1, Zenon DEF Doomed
  <2> QED BY <2>1, <2>2, <2>3, Zenon
<1>2. CASE Key[e] # NoKey
  <2>1. DeletesId[e] = {} /\ DeletesKey[e] = {} /\ Key[e] \in Keys
    BY <1>0, <1>2, StoreAssumption, Zenon
  <2>2. x \in Replaced(S, e) <=> Index(S)[Key[e]] = x
    BY <1>2, <2>1, Zenon DEF Replaced
  <2>3. x \in Doomed(e, {}) <=> Key[x] = Key[e]
    BY <1>0, <1>2, Zenon DEF Doomed
  <2> QED BY <1>0, <2>1, <2>2, <2>3, IndexOf
<1> QED BY <1>1, <1>2, Zenon

\* The index after an event is removed, or after an insert.
LEMMA IndexAfter ==
    ASSUME NEW S \in SUBSET Events, NEW T \in SUBSET Events, Unique(S), Unique(T), NEW G, NEW k \in Keys,
           \A x \in S \ G : x \in T, \A x \in T : Key[x] = k => x \in S \ G
    PROVE  Index(T)[k] = IF Index(S)[k] \in G THEN NoEvent ELSE Index(S)[k]
<1>1. /\ \A x \in Events : Index(S)[k] = x <=> x \in S /\ Key[x] = k
      /\ Index(S)[k] \in S \union {NoEvent}
      /\ \A x \in Events : Index(T)[k] = x <=> x \in T /\ Key[x] = k
      /\ (\A x \in T : Key[x] # k) => Index(T)[k] = NoEvent
  BY IndexOf, ZenonT(30)
<1>2. CASE Index(S)[k] \in G \/ Index(S)[k] = NoEvent
  <2>1. \A x \in T : Key[x] # k
    BY <1>1, <1>2, StoreAssumption, Zenon
  <2> QED BY <1>1, <1>2, <2>1, Zenon
<1>3. CASE Index(S)[k] \notin G /\ Index(S)[k] # NoEvent
  <2>1. Index(S)[k] \in S /\ Index(S)[k] \in Events /\ Key[Index(S)[k]] = k
    BY <1>1, <1>3, Zenon
  <2>2. Index(S)[k] \in T
    BY <1>3, <2>1, Zenon
  <2> QED BY <1>1, <1>3, <2>1, <2>2, Zenon
<1> QED BY <1>2, <1>3, Zenon

LEMMA InsertIsAtomic ==
    ASSUME NEW S \in SUBSET Events, Unique(S), NEW T \in SUBSET Events, Unique(T),
           NEW e \in Events, e \notin S, T = (S \ Doomed(e, {})) \union {e}
    PROVE  /\ T = (S \ Replaced(S, e)) \union {e}
           /\ Index(T) = [k \in Keys |-> IF k = Key[e] THEN e
                                         ELSE IF Index(S)[k] \in Replaced(S, e) THEN NoEvent
                                         ELSE Index(S)[k]]
<1>1. \A x \in S : x \in Replaced(S, e) <=> x \in Doomed(e, {})
  BY ReplacedIsDoomed, Zenon
<1>2. T = (S \ Replaced(S, e)) \union {e}
  BY <1>1, Zenon
<1>3. ASSUME NEW k \in Keys
      PROVE  Index(T)[k] = IF k = Key[e] THEN e
                           ELSE IF Index(S)[k] \in Replaced(S, e) THEN NoEvent ELSE Index(S)[k]
  <2>1. CASE k = Key[e]
    <3>1. e \in T
      BY Zenon
    <3> QED BY <2>1, <3>1, IndexOf
  <2>2. CASE k # Key[e]
    <3>1. (\A x \in S \ Replaced(S, e) : x \in T) /\ \A x \in T : Key[x] = k => x \in S \ Replaced(S, e)
      BY <1>2, <2>2, Zenon
    <3> QED BY <2>2, <3>1, IndexAfter
  <2> QED BY <2>1, <2>2, Zenon
<1>4. Index(T) = [k \in Keys |-> Index(T)[k]]
  BY Zenon DEF Index
<1> QED BY <1>2, <1>3, <1>4, Zenon

\* The refinement mapping is Index of Visible.
LEMMA SameView == ASSUME Visible' = Visible PROVE UNCHANGED Memory!storeVars
  BY Zenon DEF Memory!storeVars

LEMMA SerialRefines ==
    ASSUME StoreInv, SerialInv, serial, serial', StoreInv', SerialInv', NEW w \in Writers, InsertRow(w)
    PROVE  Memory!Insert(op[w].event)
<1> DEFINE e == op[w].event
<1>1. /\ Busy = {w} /\ Busy' = {} /\ Unique(before) /\ e \in Events /\ e \notin before
      /\ rows' = (before \ Doomed(e, {})) \union {e}
      /\ Key[e] # NoKey => \A x \in before : Key[x] = Key[e] => CreatedAt[x] < CreatedAt[e]
  BY SerialInsertRow, Zenon
<1>2. Visible = before /\ Visible' = rows'
  <2>1. Busy # {}
    BY <1>1, Zenon
  <2> QED BY <1>1, <2>1, Zenon DEF Visible
<1>3. before \in SUBSET Events /\ rows' \in SUBSET Events /\ Unique(rows')
  BY <1>1, Zenon DEF StoreInv, StoreTypes, SerialInv, Unique
<1>4. /\ rows' = (before \ Replaced(before, e)) \union {e}
      /\ Index(rows') = [k \in Keys |-> IF k = Key[e] THEN e
                            ELSE IF Index(before)[k] \in Replaced(before, e) THEN NoEvent
                            ELSE Index(before)[k]]
  BY SMTT(20), <1>1, <1>3, InsertIsAtomic
<1>5. ~(Key[e] # NoKey /\ Index(before)[Key[e]] # NoEvent
        /\ CreatedAt[Index(before)[Key[e]]] >= CreatedAt[e])
  <2> SUFFICES ASSUME Key[e] # NoKey, Index(before)[Key[e]] # NoEvent,
                      CreatedAt[Index(before)[Key[e]]] >= CreatedAt[e]
               PROVE  FALSE
    BY Zenon
  <2> DEFINE y == Index(before)[Key[e]]
  <2>1. Key[e] \in Keys
    BY <1>1, StoreAssumption, ZenonT(30)
  <2>2. y \in before \union {NoEvent} /\ \A x \in Events : y = x <=> x \in before /\ Key[x] = Key[e]
    BY <1>1, <1>3, <2>1, IndexOf
  <2>3. y \in before /\ y \in Events /\ Key[y] = Key[e]
    BY <1>3, <2>2, Zenon
  <2>4. CreatedAt[y] < CreatedAt[e] /\ CreatedAt[y] \in Nat /\ CreatedAt[e] \in Nat
    BY <1>1, <2>3, StoreAssumption, Zenon
  <2> HIDE DEF y
  <2>5. CreatedAt[y] >= CreatedAt[e]
    BY Zenon DEF y
  <2> QED BY <2>4, <2>5
<1>6. Index(Visible) = Index(before) /\ Index(Visible)' = Index(rows')
  BY <1>2, Zenon
<1>7. Memory!apply_delete(e) \union (IF Key[e] = NoKey THEN {} ELSE {Index(Visible)[Key[e]]}) =
      Replaced(before, e)
  BY <1>2, <1>6, Zenon DEF Memory!apply_delete, Memory!may_delete, may_delete, Replaced
<1>8. Index(Visible)' = [k \in Keys |-> IF k = Key[e] THEN e
                                        ELSE Memory!remove(Replaced(before, e), Index(Visible))[k]]
  <2>1. ASSUME NEW k \in Keys
        PROVE  Index(rows')[k] = IF k = Key[e] THEN e
                                 ELSE Memory!remove(Replaced(before, e), Index(Visible))[k]
    <3>1. Memory!remove(Replaced(before, e), Index(Visible))[k] =
            IF Index(before)[k] \in Replaced(before, e) THEN NoEvent ELSE Index(before)[k]
      BY <1>6, Zenon DEF Memory!remove
    <3> QED BY <1>4, <3>1, Zenon
  <2>2. Index(rows') = [k \in Keys |-> Index(rows')[k]]
    BY Zenon DEF Index
  <2> QED BY <1>6, <2>1, <2>2, Zenon
<1>9. e \notin Visible /\ ~Memory!superseded(e)
  BY <1>1, <1>2, <1>5, <1>6, Zenon DEF Memory!superseded
<1>10. Visible' = (Visible \ Replaced(before, e)) \union {e}
  BY <1>2, <1>4, Zenon
<1> QED BY <1>7, <1>8, <1>9, <1>10, Zenon DEF Memory!Insert

LEMMA DeleteRefines ==
    ASSUME StoreInv, SerialInv, serial, SerialInv', StoreInv',
           NEW w \in Writers, NEW e \in Events, Delete(w, e)
    PROVE  Memory!Delete(e)
<1>1. Busy = {} /\ Busy' = {} /\ rows' = rows \ {e} /\ serial'
  BY Zenon DEF Delete, Busy
<1>2. Visible = rows /\ Visible' = rows'
  BY <1>1, Zenon DEF Visible
<1>3. rows \in SUBSET Events /\ rows' \in SUBSET Events /\ Unique(rows) /\ Unique(rows')
  BY <1>1, Zenon DEF StoreInv, StoreTypes, SerialInv, Unique
<1>4. ASSUME NEW k \in Keys
      PROVE  Index(rows')[k] = IF Index(rows)[k] \in {e} THEN NoEvent ELSE Index(rows)[k]
  <2>1. PICK G : G = {e}
    BY Zenon
  <2>2. (\A x \in rows \ G : x \in rows') /\ \A x \in rows' : Key[x] = k => x \in rows \ G
    BY <1>1, <2>1, Zenon
  <2>3. Index(rows')[k] = IF Index(rows)[k] \in G THEN NoEvent ELSE Index(rows)[k]
    BY <1>3, <2>2, IndexAfter
  <2> QED BY <2>1, <2>3, Zenon
<1>5. Index(rows') = [k \in Keys |-> Index(rows')[k]]
  BY Zenon DEF Index
<1>6. Index(Visible) = Index(rows) /\ Index(Visible)' = Index(rows')
  BY <1>2, Zenon
<1>7. Index(rows') = [k \in Keys |-> IF Index(rows)[k] \in {e} THEN NoEvent ELSE Index(rows)[k]]
  BY <1>4, <1>5, Zenon
<1> QED BY <1>1, <1>2, <1>6, <1>7, Zenon DEF Memory!Delete, Memory!remove

\* Every step of the database store is a step of the in-memory store or hidden.
LEMMA StepRefinesMemory ==
    StoreInv /\ SerialInv /\ StoreInv' /\ SerialInv' /\ [Next]_vars => [Memory!StoreNext]_(Memory!storeVars)
<1> SUFFICES ASSUME StoreInv, SerialInv, StoreInv', SerialInv', [Next]_vars
             PROVE  Memory!StoreNext \/ UNCHANGED Memory!storeVars
  BY Zenon
<1>1. serial' = serial
  BY Zenon DEF Next, WriterStep, InsertBegin, GetEvent, DeleteId, QueryAddress, QueryKey, DeleteFound,
               InsertRow, Fail, Delete, vars
<1>2. CASE ~serial
  <2>1. before' = before
    BY <1>2, Zenon DEF Next, WriterStep, InsertBegin, GetEvent, DeleteId, QueryAddress, QueryKey,
                       DeleteFound, InsertRow, Fail, Delete, vars
  <2>2. Visible' = Visible
    BY <1>1, <1>2, <2>1, Zenon DEF Visible
  <2> QED BY <2>2, SameView, Zenon
<1>3. CASE serial
  <2>1. ASSUME NEW w \in Writers, NEW e \in Events, InsertBegin(w, e) PROVE Visible' = Visible
    <3>1. Busy = {} /\ Busy' # {} /\ before' = rows
      BY <1>3, <2>1, SerialBegin, Zenon
    <3> QED BY <1>3, <3>1, Zenon DEF Visible
  <2>2. ASSUME NEW w \in Writers, SerialStep(w) PROVE Visible' = Visible
    <3>1. Busy # {} /\ before' = before /\ (Busy' # {} \/ (Busy' = {} /\ rows' = before))
      BY <2>2, Zenon DEF SerialStep
    <3>2. Visible = before
      BY <3>1, Zenon DEF Visible
    <3>3. Visible' = before
      BY <3>1, Zenon DEF Visible
    <3> QED BY <3>2, <3>3, Zenon
  <2>3. ASSUME NEW w \in Writers, InsertRow(w) PROVE Memory!StoreNext
    <3>1. Memory!Insert(op[w].event) /\ op[w].event \in Events
      BY <1>1, <1>3, <2>3, SerialRefines, SerialInsertRow, Zenon
    <3> QED BY <3>1, Zenon DEF Memory!StoreNext
  <2>4. ASSUME NEW w \in Writers, NEW e \in Events, Delete(w, e) PROVE Memory!StoreNext
    BY <1>3, <2>4, DeleteRefines, Zenon DEF Memory!StoreNext
  <2>5. CASE UNCHANGED vars
    <3>1. Visible' = Visible
      BY <2>5, Zenon DEF vars, Visible, Busy
    <3> QED BY <3>1, SameView, Zenon
  <2>6. ASSUME NEW w \in Writers, WriterStep(w) PROVE Memory!StoreNext \/ UNCHANGED Memory!storeVars
    BY <1>3, <2>1, <2>2, <2>3, <2>6, SerialGetEvent, SerialDelete, SerialQueryAddress, SerialQueryKey,
       SameView, Zenon DEF WriterStep, Fail
  <2> QED BY <2>4, <2>5, <2>6, Zenon DEF Next
<1> QED BY <1>2, <1>3, Zenon

\* While operations do not overlap and no statement fails, each insert or delete of the
\* database store is, however many statements it takes, one step of the in-memory store,
\* for any events, keys and connections (RepositoryStore.insert, MemoryStore.insert).
THEOREM StoreRefinement == Spec => ImplementsMemoryStore
<1>1. Init => SerialInv /\ Memory!StoreInit
  <2> SUFFICES ASSUME Init PROVE SerialInv /\ Memory!StoreInit
    OBVIOUS
  <2>1. rows = {} /\ before = {} /\ op = [w \in Writers |-> Idle] /\ Idle.pc = "idle"
    BY Zenon DEF Init, Idle
  <2>2. Busy = {}
    BY <2>1, Zenon DEF Busy
  <2>3. Visible = {}
    BY <2>1, Zenon DEF Visible
  <2>4. Index({}) = [k \in Keys |-> NoEvent]
    BY Zenon DEF Index
  <2>5. Memory!StoreInit
    BY <2>3, <2>4, Zenon DEF Memory!StoreInit
  <2> QED BY <2>1, <2>2, <2>5, Zenon DEF SerialInv, Unique
<1> QED
  BY <1>1, StoreInvariance, SerialKeeps, StepRefinesMemory, PTL
     DEF Spec, ImplementsMemoryStore, Memory!StoreSpec

-----------------------------------------------------------------------------
LEMMA IndexStep == IndexAgrees /\ [Memory!StoreNext]_(Memory!storeVars) => IndexAgrees'
<1> SUFFICES ASSUME IndexAgrees, [Memory!StoreNext]_(Memory!storeVars),
                    NEW k \in Keys, NEW x \in Events
             PROVE  Index(Visible')[k] = x <=> (x \in Visible' /\ Key[x] = k)
  BY Zenon DEF IndexAgrees, Memory!IndexAgrees
<1>0. \A i \in Keys, y \in Events : Index(Visible)[i] = y <=> (y \in Visible /\ Key[y] = i)
  BY Zenon DEF IndexAgrees, Memory!IndexAgrees
<1>1. CASE UNCHANGED Memory!storeVars
  BY <1>0, <1>1, Zenon DEF Memory!storeVars
<1>2. ASSUME NEW e \in Events, Memory!Insert(e)
      PROVE  Index(Visible')[k] = x <=> (x \in Visible' /\ Key[x] = k)
  <2> DEFINE gone == Memory!apply_delete(e) \union
                     (IF Key[e] = NoKey THEN {} ELSE {Index(Visible)[Key[e]]})
  <2>1. /\ Visible' = (Visible \ gone) \union {e}
        /\ Index(Visible') = [i \in Keys |-> IF i = Key[e] THEN e
                                             ELSE Memory!remove(gone, Index(Visible))[i]]
    BY <1>2, Zenon DEF Memory!Insert
  <2>2. \A i \in Keys : Memory!remove(gone, Index(Visible))[i] =
                        IF Index(Visible)[i] \in gone THEN NoEvent ELSE Index(Visible)[i]
    BY Zenon DEF Memory!remove
  <2>3. Index(Visible') = [i \in Keys |-> IF i = Key[e] THEN e
                             ELSE IF Index(Visible)[i] \in gone THEN NoEvent ELSE Index(Visible)[i]]
    BY <2>1, <2>2, ZenonT(30)
  <2>4. ASSUME NEW y \in Visible, Key[y] = Key[e], Key[e] # NoKey, y \in Events
        PROVE  y \in gone
    <3>1. Key[e] \in Keys
      BY <2>4, StoreAssumption
    <3> QED BY <1>0, <2>4, <3>1, Zenon
  <2> HIDE DEF gone
  <2>5. CASE k = Key[e]
    <3>1. Index(Visible')[k] = e /\ e \in Visible' /\ k # NoKey
      BY <2>1, <2>3, <2>5, StoreAssumption, Zenon
    <3>2. x \in Visible' /\ Key[x] = k => x = e
      BY <2>1, <2>4, <2>5, <3>1, Zenon
    <3> QED BY <2>5, <3>1, <3>2, Zenon
  <2>6. CASE k # Key[e]
    <3>1. Index(Visible')[k] = IF Index(Visible)[k] \in gone THEN NoEvent ELSE Index(Visible)[k]
      BY <2>3, <2>6, Zenon
    <3>2. Key[x] = k => (x \in Visible' <=> x \in Visible /\ x \notin gone)
      BY <2>1, <2>6, Zenon
    <3>3. Index(Visible)[k] = x <=> (x \in Visible /\ Key[x] = k)
      BY <1>0, Zenon
    <3>4. NoEvent # x
      BY StoreAssumption, Zenon
    <3>5. CASE Index(Visible)[k] = x
      BY <3>1, <3>2, <3>3, <3>4, <3>5, Zenon
    <3>6. CASE Index(Visible)[k] # x
      BY <3>1, <3>2, <3>3, <3>4, <3>6, Zenon
    <3> QED BY <3>5, <3>6
  <2> QED BY <2>5, <2>6
<1>3. ASSUME NEW e \in Events, Memory!Delete(e)
      PROVE  Index(Visible')[k] = x <=> (x \in Visible' /\ Key[x] = k)
  <2>1. Visible' = Visible \ {e} /\ Index(Visible')[k] =
        IF Index(Visible)[k] \in {e} THEN NoEvent ELSE Index(Visible)[k]
    BY <1>3, Zenon DEF Memory!Delete, Memory!remove
  <2> QED BY <1>0, <2>1, StoreAssumption, ZenonT(30)
<1> QED BY <1>1, <1>2, <1>3, Zenon DEF Memory!StoreNext

\* While operations do not overlap and no statement fails, a key has at most one
\* current event and a removal leaves nothing behind that still competes for the
\* key (apply_replaceable_repo, apply_delete_repo; remove_event in memory).
THEOREM KeysHaveOneEvent == Spec => []IndexAgrees
<1>1. Memory!StoreInit => IndexAgrees
  <2> SUFFICES ASSUME Memory!StoreInit PROVE IndexAgrees
    OBVIOUS
  <2>1. Visible = {} /\ \A k \in Keys : Index(Visible)[k] = NoEvent
    BY Zenon DEF Memory!StoreInit
  <2> QED BY <2>1, StoreAssumption, Zenon DEF IndexAgrees, Memory!IndexAgrees
<1> QED
  BY <1>1, IndexStep, StoreRefinement, PTL DEF ImplementsMemoryStore, Memory!StoreSpec

LEMMA NewerStep ==
    ASSUME StoreInv, Memory!StoreNext, NEW k \in Keys, Index(Visible)[k] # NoEvent,
           Index(Visible')[k] \notin {NoEvent, Index(Visible)[k]}
    PROVE  CreatedAt[Index(Visible')[k]] > CreatedAt[Index(Visible)[k]]
<1>1. Visible \subseteq Events
  BY Zenon DEF StoreInv, StoreTypes, Visible
<1>2. Index(Visible)[k] \in Events
  <2>1. Index(Visible)[k] = IF \E x \in Visible : Key[x] = k
                            THEN CHOOSE x \in Visible : Key[x] = k ELSE NoEvent
    BY Zenon DEF Index
  <2> QED BY <1>1, <2>1, Zenon
<1>3. ASSUME NEW e \in Events, Memory!Delete(e) PROVE FALSE
  BY <1>3, Zenon DEF Memory!Delete, Memory!remove
<1>4. PICK e \in Events : Memory!Insert(e)
  BY <1>3, Zenon DEF Memory!StoreNext
<1>5. k = Key[e] /\ Index(Visible')[k] = e
  BY <1>4, Zenon DEF Memory!Insert, Memory!remove
<1>6. k # NoKey
  BY StoreAssumption, Zenon
<1>7. ~(CreatedAt[Index(Visible)[k]] >= CreatedAt[e])
  BY <1>4, <1>5, <1>6, Zenon DEF Memory!Insert, Memory!superseded
<1> QED BY <1>2, <1>5, <1>7, StoreAssumption

\* Then a current event gives way only to a newer one of its key, or to a
\* deletion: never to an older one or one of the same date.
THEOREM NewerEventsWin == Spec => NewestWins
<1>1. ASSUME StoreInv, [Memory!StoreNext]_(Memory!storeVars)
      PROVE  [\A k \in Keys :
                (Index(Visible)[k] # NoEvent /\ Index(Visible)'[k] \notin {NoEvent, Index(Visible)[k]})
                => CreatedAt[Index(Visible)'[k]] > CreatedAt[Index(Visible)[k]]]_(Memory!storeVars)
  BY <1>1, NewerStep, Zenon
<1> QED
  BY <1>1, StoreInvariance, StoreRefinement, PTL
     DEF ImplementsMemoryStore, Memory!StoreSpec, NewestWins, Memory!NewestWins
=============================================================================
