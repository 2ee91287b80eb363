------------------------------ MODULE EventHub ------------------------------
(***************************************************************************)
(* The SSE event hub of internal/events with the HTTP handlers that stream *)
(* from it.  One goroutine, Hub.Run, owns the set of clients and selects   *)
(* among its channels; handlers only queue their registration and their    *)
(* deregistration, so the hub learns of both late, and in either order.    *)
(*                                                                         *)
(* An event is the number the hub accepted it under; 0 is the heartbeat.   *)
(* A client is one connection: its identity is never reused.               *)
(***************************************************************************)
EXTENDS Selection, SequencesExt

CONSTANTS
    Clients,         \* SSE connections
    ClientBuffer,    \* capacity of Client.Send
    RegisterBuffer,  \* capacity of Hub.register and of Hub.unregister
    EventBuffer,     \* capacity of Hub.broadcast
    MaxEvents,       \* bound: events the hub accepts
    Stoppable        \* whether the context of Run may be cancelled

ASSUME BuffersAssumption ==
    /\ {ClientBuffer, RegisterBuffer, EventBuffer} \subseteq Nat \ {0}
    /\ MaxEvents \in Nat
    /\ Stoppable \in BOOLEAN

VARIABLES
    running,         \* Hub.Run has not returned
    clients,         \* Hub.clients
    register, unregister, broadcast,    \* the hub's channels
    send, closed,    \* Client.Send: what it holds, and whether it is closed
    pc,              \* where each connection's handler is
    accepted,        \* events accepted by Publish
    shown,           \* the last event written to each connection, 0 if none
    since, skipped   \* history: the events before a client was registered,
                     \* and whether the hub ever found its buffer full

hubVars     == <<running, clients, broadcast, accepted>>
historyVars == <<since, skipped>>
vars == <<hubVars, register, unregister, send, closed, pc, shown, historyVars>>

Heartbeat == 0
Taken == accepted - Len(broadcast)    \* events Run has taken from broadcast

HasRoom(c) == Len(send[c]) < ClientBuffer

(* Offer an event to every client without blocking.  Each client has its   *)
(* own buffer and its reader cannot tell the sends of one loop apart, so   *)
(* the loop under the lock is one step.                                    *)
OfferedUnbounded(e) ==
    [c \in Clients |-> IF c \in clients THEN Append(send[c], e) ELSE send[c]]
OfferedAllOrNone(e) ==
    [c \in Clients |-> IF c \in clients /\ \A d \in clients : HasRoom(d)
                       THEN Append(send[c], e) ELSE send[c]]
Offered(e) ==
    [c \in Clients |-> IF c \in clients /\ HasRoom(c)
                       THEN Append(send[c], e) ELSE send[c]]

Full == {c \in clients : ~HasRoom(c)}

----------------------------------------------------------------------------
(* Hub.Run.                                                                *)

Register ==
    /\ running
    /\ register # <<>>
    /\ clients' = clients \cup {Head(register)}
    /\ since' = [since EXCEPT ![Head(register)] = Taken]
    /\ register' = Tail(register)
    /\ UNCHANGED <<running, broadcast, accepted, unregister, send, closed, pc,
                   shown, skipped>>

UnregisterAlways ==
    /\ running
    /\ unregister # <<>>
    /\ clients' = clients \ {Head(unregister)}
    /\ closed' = closed \cup {Head(unregister)}
    /\ unregister' = Tail(unregister)
    /\ UNCHANGED <<running, broadcast, accepted, register, send, pc, shown,
                   historyVars>>
UnregisterOpen ==
    /\ running
    /\ unregister # <<>>
    /\ clients' = clients \ {Head(unregister)}
    /\ unregister' = Tail(unregister)
    /\ UNCHANGED <<running, broadcast, accepted, register, send, closed, pc,
                   shown, historyVars>>
(* A client that is not registered, or not yet, is ignored.                *)
Unregister ==
    /\ running
    /\ unregister # <<>>
    /\ clients' = clients \ {Head(unregister)}
    /\ closed' = closed \cup (clients \cap {Head(unregister)})
    /\ unregister' = Tail(unregister)
    /\ UNCHANGED <<running, broadcast, accepted, register, send, pc, shown,
                   historyVars>>

Broadcast ==
    /\ running
    /\ broadcast # <<>>
    /\ send' = Offered(Head(broadcast))
    /\ skipped' = skipped \cup Full
    /\ broadcast' = Tail(broadcast)
    /\ UNCHANGED <<running, clients, accepted, register, unregister, closed, pc,
                   shown, since>>

Ping ==
    /\ running
    /\ send' = Offered(Heartbeat)
    /\ UNCHANGED <<hubVars, register, unregister, closed, pc, shown, historyVars>>

Stop ==
    /\ running
    /\ Stoppable
    /\ running' = FALSE
    /\ closed' = closed \cup clients
    /\ clients' = {}
    /\ UNCHANGED <<broadcast, accepted, register, unregister, send, pc, shown,
                   historyVars>>

----------------------------------------------------------------------------
(* The callers of Publish never block: a full buffer drops the event, and  *)
(* nothing changes.                                                        *)
Publish ==
    /\ accepted < MaxEvents
    /\ Len(broadcast) < EventBuffer
    /\ accepted' = accepted + 1
    /\ broadcast' = Append(broadcast, accepted')
    /\ UNCHANGED <<running, clients, register, unregister, send, closed, pc, shown,
                   historyVars>>

----------------------------------------------------------------------------
(* ServeHTTP, one goroutine for each connection.                           *)

(* The send to register blocks while the channel is full.                  *)
Subscribe(c) ==
    /\ pc[c] = "new"
    /\ Len(register) < RegisterBuffer
    /\ register' = Append(register, c)
    /\ pc' = [pc EXCEPT ![c] = "stream"]
    /\ UNCHANGED <<hubVars, unregister, send, closed, shown, historyVars>>

(* An event arrives and is written, or the write fails.  That its text     *)
(* cannot be formatted is left out: what the events hold was decoded from  *)
(* JSON, or is made of strings and times.                                  *)
Receive(c) ==
    /\ pc[c] = "stream"
    /\ send[c] # <<>>
    /\ send' = [send EXCEPT ![c] = Tail(@)]
    /\ \/ /\ shown' = [shown EXCEPT ![c] =
                            IF Head(send[c]) = Heartbeat THEN @ ELSE Head(send[c])]
          /\ UNCHANGED pc
       \/ /\ pc' = [pc EXCEPT ![c] = "leave"]
          /\ UNCHANGED shown
    /\ UNCHANGED <<hubVars, register, unregister, closed, historyVars>>

ReceiveClosedIgnored(c) ==
    /\ pc[c] = "stream"
    /\ send[c] = <<>>
    /\ c \in closed
    /\ UNCHANGED vars
ReceiveClosed(c) ==
    /\ pc[c] = "stream"
    /\ send[c] = <<>>
    /\ c \in closed
    /\ pc' = [pc EXCEPT ![c] = "leave"]
    /\ UNCHANGED <<hubVars, register, unregister, send, closed, shown, historyVars>>

(* The request's context ends: the browser went away.                      *)
Disconnect(c) ==
    /\ pc[c] = "stream"
    /\ pc' = [pc EXCEPT ![c] = "leave"]
    /\ UNCHANGED <<hubVars, register, unregister, send, closed, shown, historyVars>>

(* The deferred call blocks while the channel is full.                     *)
Unsubscribe(c) ==
    /\ pc[c] = "leave"
    /\ Len(unregister) < RegisterBuffer
    /\ unregister' = Append(unregister, c)
    /\ pc' = [pc EXCEPT ![c] = "gone"]
    /\ UNCHANGED <<hubVars, register, send, closed, shown, historyVars>>

Init ==
    /\ running = TRUE
    /\ clients = {}
    /\ register = <<>> /\ unregister = <<>> /\ broadcast = <<>>
    /\ send = [c \in Clients |-> <<>>]
    /\ closed = {}
    /\ pc = [c \in Clients |-> "new"]
    /\ accepted = 0
    /\ shown = [c \in Clients |-> 0]
    /\ since = [c \in Clients |-> 0]
    /\ skipped = {}

Serve(c) == Receive(c) \/ ReceiveClosed(c) \/ Unsubscribe(c)

Next ==
    \/ Register \/ Unregister \/ Broadcast \/ Ping \/ Stop
    \/ Publish
    \/ \E c \in Clients : Subscribe(c) \/ Serve(c) \/ Disconnect(c)

Spec == Init /\ [][Next]_vars

(* A select picks among its ready cases at random, so no channel is passed *)
(* over forever; the handlers are scheduled.  Nobody has to connect.       *)
FairSpec == /\ Spec
            /\ WF_vars(Register) /\ WF_vars(Unregister) /\ WF_vars(Broadcast)
            /\ \A c \in Clients : WF_vars(Serve(c))

----------------------------------------------------------------------------
(* Properties.                                                             *)

TypeOK ==
    /\ running \in BOOLEAN
    /\ clients \in SUBSET Clients /\ closed \in SUBSET Clients
    /\ \A q \in {register, unregister} :
            q \in Seq(Clients) /\ Len(q) <= RegisterBuffer
    /\ broadcast \in Seq(1 .. MaxEvents) /\ Len(broadcast) <= EventBuffer
    /\ \A c \in Clients :
            send[c] \in Seq(0 .. MaxEvents) /\ Len(send[c]) <= ClientBuffer
    /\ pc \in [Clients -> {"new", "stream", "leave", "gone"}]
    /\ accepted \in 0 .. MaxEvents
    /\ shown \in [Clients -> 0 .. MaxEvents]
    /\ since \in [Clients -> 0 .. MaxEvents]
    /\ skipped \in SUBSET Clients

(* The hub never sends on, nor closes again, a channel it has closed:      *)
(* either would panic and take the server down.  Registration and          *)
(* deregistration may be processed in the wrong order.                     *)
RegisteredIsOpen == clients \cap closed = {}

(* A connection that was registered and whose buffer was never found full  *)
(* gets every event the hub takes from then on, once and in order: events  *)
(* are lost only before registration and to slow readers.                  *)
NoSilentGap ==
    \A c \in clients \ skipped :
        LET last == IF shown[c] = 0 THEN since[c] ELSE shown[c] IN
        pc[c] = "stream" =>
            Kept(send[c], 1 .. MaxEvents) = [k \in 1 .. Taken - last |-> last + k]

(* Handlers leave when the hub closes their channel.                       *)
CloseEndsStream == \A c \in Clients : c \in closed ~> pc[c] # "stream"

(* A handler that leaves after the hub registered it does not stay in the  *)
(* hub: its channel is closed and its memory is free.                      *)
LeaverIsRemoved ==
    \A c \in Clients : c \in clients /\ pc[c] = "leave" ~> c \in closed \ clients

(* A client whose handler is gone stays in the hub only until the hub gets *)
(* to its deregistration (handler.go: defer unsubscribe()).                *)
GoneIsForgotten ==
    \A c \in clients : pc[c] = "gone" => Contains(unregister, c)
=============================================================================
