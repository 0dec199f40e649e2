--------------------------------- MODULE WsHub ---------------------------------
(***************************************************************************)
(* The WebSocket hub (ws/hub.go): the connected clients are a map behind   *)
(* an atomic pointer; add and drop copy the map and swap the pointer,      *)
(* Broadcast ranges over the map it finds and queues the message with each *)
(* client.                                                                 *)
(*                                                                         *)
(* What the pointer points at has an address, and the swap compares        *)
(* addresses: the map stored last was a local variable "next" of some call *)
(* (or NewHub's "empty"), and the call compares it with the address of its *)
(* own local variable "old".                                               *)
(***************************************************************************)
EXTENDS Naturals, FiniteSets

CONSTANTS
    Clients,
    SendBuf      \* capacity of client.send

VARIABLES
    clients,  \* Hub.clients: [addr, map]
    conn,     \* per client: [pc, old, queued], its ServeHTTP and its send channel
    sending   \* Broadcast: the clients of its snapshot it has not served yet

wsVars == <<clients, conn, sending>>

AddressOf(c, local) == <<c, local>>
Empty == <<"hub", "empty">>

SetConn(c, x) == conn' = [conn EXCEPT ![c] = x]

----------------------------------------------------------------------------
(* ServeHTTP accepts the socket and calls add.                             *)
WsConnect(c) ==
    /\ conn[c].pc = "idle"
    /\ SetConn(c, [conn[c] EXCEPT !.pc = "addCopy"])
    /\ UNCHANGED <<clients, sending>>

(* old := h.snapshot(), a copy of the map's reference in a new variable.   *)
AddSnapshot(c) ==
    /\ conn[c].pc = "addCopy"
    /\ SetConn(c, [conn[c] EXCEPT !.pc = "addSwap", !.old = clients.map])
    /\ UNCHANGED <<clients, sending>>

CompareAndSwap(c, next, swapped, failed) ==
    IF clients.addr = AddressOf(c, "old")
    THEN /\ clients' = [addr |-> AddressOf(c, "next"), map |-> next]
         /\ SetConn(c, [conn[c] EXCEPT !.pc = swapped])
    ELSE SetConn(c, [conn[c] EXCEPT !.pc = failed]) /\ UNCHANGED clients

AddSwap(c) ==
    /\ conn[c].pc = "addSwap"
    /\ CompareAndSwap(c, conn[c].old \cup {c}, "pumping", "addCopy")
    /\ UNCHANGED sending

(* readPump returns: drop, then close(send).                               *)
WsDisconnect(c) ==
    /\ conn[c].pc = "pumping"
    /\ SetConn(c, [conn[c] EXCEPT !.pc = "dropCopy"])
    /\ UNCHANGED <<clients, sending>>

DropSnapshot(c) ==
    /\ conn[c].pc = "dropCopy"
    /\ SetConn(c, [conn[c] EXCEPT !.old = clients.map,
                                  !.pc = IF c \in clients.map THEN "dropSwap" ELSE "closed"])
    /\ UNCHANGED <<clients, sending>>

DropSwap(c) ==
    /\ conn[c].pc = "dropSwap"
    /\ CompareAndSwap(c, conn[c].old \ {c}, "closed", "dropCopy")
    /\ UNCHANGED sending

(* writePump.                                                              *)
WsWrite(c) ==
    /\ conn[c].pc = "pumping" /\ conn[c].queued > 0
    /\ SetConn(c, [conn[c] EXCEPT !.queued = @ - 1])
    /\ UNCHANGED <<clients, sending>>

(* Broadcast: a snapshot, then one client after the other; a full queue    *)
(* loses the message.                                                      *)
Broadcast ==
    /\ sending = {} /\ sending' = clients.map
    /\ UNCHANGED <<clients, conn>>

BroadcastTo(c) ==
    /\ c \in sending /\ sending' = sending \ {c}
    /\ SetConn(c, [conn[c] EXCEPT !.queued = IF @ < SendBuf THEN @ + 1 ELSE @])
    /\ UNCHANGED clients

----------------------------------------------------------------------------
WsInit ==
    /\ clients = [addr |-> Empty, map |-> {}]
    /\ conn = [c \in Clients |-> [pc |-> "idle", old |-> {}, queued |-> 0]]
    /\ sending = {}

Serving(c) == AddSnapshot(c) \/ AddSwap(c) \/ DropSnapshot(c) \/ DropSwap(c) \/ WsWrite(c)

WsNext ==
    \/ Broadcast
    \/ \E c \in Clients : WsConnect(c) \/ Serving(c) \/ WsDisconnect(c) \/ BroadcastTo(c)

(* Every goroutine that can run runs.                                      *)
WsSpec == WsInit /\ [][WsNext]_wsVars /\ \A c \in Clients : WF_wsVars(Serving(c))

----------------------------------------------------------------------------
(* hub.go:30 "Hub tracks connected clients": a client that connects is     *)
(* registered. Violated: the stored pointer is never the address of the    *)
(* caller's local variable, add tries for ever and nobody is ever told     *)
(* anything.                                                               *)
WsRegistered == \A c \in Clients : conn[c].pc = "addCopy" ~> c \in clients.map
===============================================================================
