----------------------------- MODULE SocketPump -----------------------------
(***************************************************************************)
(* One websocket of the relay: two tasks and two bounded channels.         *)
(*                                                                         *)
(* pump_socket_io reads frames and puts them in the inbound channel, and   *)
(* takes responses from the outbound channel and writes them to the socket.*)
(* It is one task: while it waits for room in the inbound channel it does  *)
(* not drain the outbound one.  SessionDriver handles the messages and the *)
(* broadcast events one at a time and puts every response in the outbound  *)
(* channel, waiting for room each time.                                    *)
(*                                                                         *)
(* What a message says does not matter here, only how many responses it    *)
(* has, so channels are counters.                                          *)
(***************************************************************************)
EXTENDS Integers

CONSTANTS
    InCapacity, OutCapacity,  \* mpsc::channel(128), twice
    Windows,       \* the clients there are: messages one leaves unhandled at a time
    MaxResponses,  \* bound on the responses of one message or event
    MaxMessages,   \* bound on the messages of the client
    MaxEvents      \* bound on the events other connections broadcast

ASSUME PumpAssumption ==
    /\ InCapacity \in Nat \ {0} /\ OutCapacity \in Nat \ {0}
    /\ Windows \subseteq Nat
    /\ MaxResponses \in Nat /\ MaxMessages \in Nat /\ MaxEvents \in Nat

VARIABLES
    window,     \* the client's choice of Windows
    open,       \* the client has not closed its side
    wire,       \* frames in the socket the pump has not read
    pump,       \* what pump_socket_io waits for
    inbound, outbound,   \* messages in the channels
    driver,     \* what SessionDriver does
    sent,       \* history: messages the client sent
    handled,    \* history: messages the driver is done with
    events      \* broadcast events received

channels == <<inbound, outbound>>
client == <<window, open, wire, sent>>
pumpVars == <<window, open, wire, pump, inbound, outbound, driver, sent, handled, events>>

Waiting == [pc |-> "select", left |-> 0, message |-> FALSE]
Gone == [pc |-> "gone", left |-> 0, message |-> FALSE]

\* The driver first sends the AUTH challenge, if the tenant has one.
PumpInit ==
    /\ window \in Windows
    /\ open = TRUE
    /\ wire = 0
    /\ pump = "select"
    /\ inbound = 0 /\ outbound = 0
    /\ \E n \in 0 .. 1 : driver = [pc |-> "respond", left |-> n, message |-> FALSE]
    /\ sent = 0 /\ handled = 0 /\ events = 0

\* Mutant: the channel is one short.
in_has_room_less == inbound < InCapacity - 1

in_has_room == inbound < InCapacity

out_has_room == outbound < OutCapacity

(***************************************************************************)
(* The client.  It may send the next message before the last is answered.  *)
(***************************************************************************)
ClientSend ==
    /\ open
    /\ sent < MaxMessages
    /\ sent - handled < window
    /\ sent' = sent + 1
    /\ wire' = wire + 1
    /\ UNCHANGED <<window, open, pump, channels, driver, handled, events>>

ClientClose ==
    /\ open
    /\ open' = FALSE
    /\ UNCHANGED <<window, wire, pump, channels, driver, sent, handled, events>>

(***************************************************************************)
(* pump_socket_io.  The select is biased: a frame, or the end of the       *)
(* socket, goes before a response.  Frames that are not text change        *)
(* nothing.                                                                *)
(***************************************************************************)
PumpRead ==
    /\ pump = "select"
    /\ wire > 0
    /\ wire' = wire - 1
    /\ pump' = "forward"
    /\ UNCHANGED <<window, open, channels, driver, sent, handled, events>>

\* A close frame or an error: frames before it may be lost with it.
PumpBreak ==
    /\ pump = "select"
    /\ ~open
    /\ pump' = "gone"
    /\ UNCHANGED <<client, channels, driver, handled, events>>

\* handle_inbound_action: wait for room, or find that the driver is gone.
PumpForward ==
    /\ pump = "forward"
    /\ \/ /\ driver.pc = "gone"
          /\ pump' = "gone"
          /\ UNCHANGED inbound
       \/ /\ driver.pc # "gone" /\ in_has_room
          /\ inbound' = inbound + 1
          /\ pump' = "select"
    /\ UNCHANGED <<client, outbound, driver, handled, events>>

\* Mutant: responses are taken only when the driver has sent them all.
PumpTakeAfterwards ==
    /\ pump = "select"
    /\ wire = 0 /\ open
    /\ \/ /\ outbound > 0 /\ driver.pc # "respond"
          /\ outbound' = outbound - 1
          /\ pump' = "send"
       \/ /\ outbound = 0 /\ driver.pc = "gone"
          /\ pump' = "gone"
          /\ UNCHANGED outbound
    /\ UNCHANGED <<client, inbound, driver, handled, events>>

PumpTake ==
    /\ pump = "select"
    /\ wire = 0 /\ open
    /\ \/ /\ outbound > 0
          /\ outbound' = outbound - 1
          /\ pump' = "send"
       \/ /\ outbound = 0 /\ driver.pc = "gone"
          /\ pump' = "gone"
          /\ UNCHANGED outbound
    /\ UNCHANGED <<client, inbound, driver, handled, events>>

\* handle_outbound_message: the write is an error only if the client is gone.
PumpSend ==
    /\ pump = "send"
    /\ \/ pump' = "select"
       \/ ~open /\ pump' = "gone"
    /\ UNCHANGED <<client, channels, driver, handled, events>>

(***************************************************************************)
(* SessionDriver.run_with_broadcast.                                       *)
(***************************************************************************)
\* inbound.recv and handle_text.
DriverTake ==
    /\ driver.pc = "select"
    /\ inbound > 0
    /\ inbound' = inbound - 1
    /\ \E n \in 0 .. MaxResponses : driver' = [pc |-> "respond", left |-> n, message |-> TRUE]
    /\ UNCHANGED <<client, pump, outbound, handled, events>>

\* broadcast_rx.recv and dispatch_event; a lagged receiver just goes on.
DriverDispatch ==
    /\ driver.pc = "select"
    /\ events < MaxEvents
    /\ events' = events + 1
    /\ \E n \in 0 .. MaxResponses : driver' = [pc |-> "respond", left |-> n, message |-> FALSE]
    /\ UNCHANGED <<client, pump, channels, handled>>

\* outbound.send: wait for room, or find that the pump is gone and return.
DriverSend ==
    /\ driver.pc = "respond" /\ driver.left > 0
    /\ \/ /\ pump = "gone"
          /\ driver' = Gone
          /\ UNCHANGED outbound
       \/ /\ pump # "gone" /\ out_has_room
          /\ outbound' = outbound + 1
          /\ driver' = [driver EXCEPT !.left = @ - 1]
    /\ UNCHANGED <<client, pump, inbound, handled, events>>

DriverDone ==
    /\ driver.pc = "respond" /\ driver.left = 0
    /\ handled' = IF driver.message THEN handled + 1 ELSE handled
    /\ driver' = Waiting
    /\ UNCHANGED <<client, pump, channels, events>>

\* Mutant: a closed inbound channel is not the end.
DriverEndMissed ==
    /\ FALSE
    /\ UNCHANGED pumpVars

\* inbound.recv is None once the pump has dropped its end and nothing is left.
DriverEnd ==
    /\ driver.pc = "select"
    /\ pump = "gone" /\ inbound = 0
    /\ driver' = Gone
    /\ UNCHANGED <<client, pump, channels, handled, events>>

PumpStep == PumpRead \/ PumpBreak \/ PumpForward \/ PumpTake \/ PumpSend
DriverStep == DriverTake \/ DriverDispatch \/ DriverSend \/ DriverDone \/ DriverEnd

PumpNext == ClientSend \/ ClientClose \/ PumpStep \/ DriverStep

PumpSpec == PumpInit /\ [][PumpNext]_pumpVars

\* The runtime polls both tasks, and a connected client reads what it is sent.
FairPumpSpec == PumpSpec /\ WF_pumpVars(PumpStep) /\ WF_pumpVars(DriverStep)
-----------------------------------------------------------------------------
\* The channels keep their capacities and the tasks their shape.
PumpTypeOK ==
    /\ window \in Nat
    /\ open \in BOOLEAN
    /\ wire \in Nat
    /\ pump \in {"select", "forward", "send", "gone"}
    /\ inbound \in 0 .. InCapacity /\ outbound \in 0 .. OutCapacity
    /\ driver \in [pc : {"select", "respond", "gone"}, left : 0 .. MaxResponses + 1, message : BOOLEAN]
    /\ sent \in Nat /\ handled \in Nat
    /\ events \in Nat

\* Messages between the client and the end of their handling.
Unhandled ==
    wire + (IF pump = "forward" THEN 1 ELSE 0) + inbound + (IF driver.message THEN 1 ELSE 0)

\* As long as both tasks run, a message the client sent is in the socket, in the
\* pump's hand, in the channel or with the driver, or its handling is over: the
\* two tasks and the channels lose none and handle none twice.
NothingIsLost ==
    (pump # "gone" /\ driver.pc # "gone") => sent = handled + Unhandled

\* The pump waits for the driver to make room in the inbound channel, and the
\* driver for the pump to make room in the outbound one: neither ever goes on,
\* and nothing notices that the client is gone.
Stuck ==
    /\ pump = "forward" /\ driver.pc = "respond" /\ driver.left > 0
    /\ ~in_has_room /\ ~out_has_room

\* The two tasks wait for each other only while the client has more messages
\* unhandled than the inbound channel holds (pump_socket_io, run_with_broadcast).
StuckByFlood == Stuck => sent - handled > InCapacity

\* So for a client that keeps its unhandled messages within the channel,
\* however many responses each has, everything it sends is handled and every
\* response written, again and again, unless it closes the connection.
AllDelivered ==
    window <= InCapacity =>
        []<>(~open \/ (wire = 0 /\ pump = "select" /\ inbound = 0 /\ outbound = 0
                       /\ driver.pc = "select" /\ sent = handled))

\* Once such a client has closed, both tasks end: neither waits for ever on a
\* channel whose other end is gone.
EndsWhenClosed ==
    window <= InCapacity => (~open ~> (pump = "gone" /\ driver.pc = "gone"))
=============================================================================
