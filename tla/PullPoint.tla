------------------------------ MODULE PullPoint -------------------------------
(***************************************************************************)
(* The ONVIF pull-point clients of one camera (onvif/pullpoint.go): the    *)
(* supervisor that API calls ask to Sync or Remove, and the clients, each  *)
(* a loop that creates a subscription and pulls motion notifications until *)
(* an error. The camera queues a notification for the subscription at each *)
(* change of its motion state; what changes between two subscriptions is   *)
(* not told.                                                               *)
(***************************************************************************)
EXTENDS Naturals, Sequences, FiniteSets

CONSTANTS
    PullCalls,  \* API calls on the camera
    MaxChanges  \* bound: changes of the camera's motion state

ASSUME PullAssumption == IsFiniteSet(PullCalls) /\ MaxChanges \in Nat

Clients == 1 .. Cardinality(PullCalls) + 1

VARIABLES
    pullRow,    \* the row: "on" = enabled, ONVIF endpoint set, detection on
    pullCall,   \* per call: [op, pc]
    clients,    \* PullSupervisor.clients[camID], 0 = none
    client,     \* per client: [pc, stop, active, inbox, told]
    onMotion,   \* the camera's motion state
    changes

(* History, read by properties only: has a call begun during another; how  *)
(* the last call that came to the map or the row went wrong ("missed": it  *)
(* ended between removing a client and the end of its own work; "lost": it *)
(* changed the row, was told that it had not, and gave up).                *)
VARIABLES pullOverlapped, pullFailed

pullVars == <<pullRow, pullCall, clients, client, onMotion, changes, pullOverlapped, pullFailed>>

(* told is history: does the client know, or will it be told, the camera's *)
(* state: no change was missed since the last notification.                *)
NoClient == [pc |-> "none", stop |-> FALSE, active |-> FALSE, inbox |-> <<>>, told |-> FALSE]
(* A client just started, with a password that can be decrypted or not.    *)
Started == {[NoClient EXCEPT !.pc = "subscribe"], [NoClient EXCEPT !.pc = "gone"]}
PullCalling(c) == pullCall[c].pc \notin {"idle", "done"}
Live(k) == client[k].pc \notin {"none", "gone"} /\ ~client[k].stop

----------------------------------------------------------------------------
(* The handler writes the row, unless it deletes it; an error of that ends *)
(* the call, whether or not the row was changed.                           *)
PullBegin(c, op) ==
    /\ pullCall[c].pc = "idle" /\ pullRow # "gone"
    /\ \/ /\ pullRow' = IF op \in {"on", "off"} THEN op ELSE pullRow
          /\ pullCall' = [pullCall EXCEPT ![c] = [op |-> op, pc |-> "remove"]]
          /\ pullFailed' = pullFailed
       \/ /\ op # "delete"
          /\ \/ pullRow' = (IF op \in {"on", "off"} THEN op ELSE pullRow) /\ pullFailed' = "lost"
             \/ pullRow' = pullRow /\ pullFailed' = pullFailed
          /\ pullCall' = [pullCall EXCEPT ![c] = [op |-> op, pc |-> "done"]]
    /\ pullOverlapped' = (pullOverlapped \/ \E d \in PullCalls : PullCalling(d))
    /\ UNCHANGED <<clients, client, onMotion, changes>>

(* removeLocked: the client's context is cancelled, nobody waits for it.   *)
(* Mutants: the map entry stays; only the map entry goes.                  *)
PullRemoveKeeping(c) ==
    /\ pullCall[c].pc = "remove"
    /\ client' = IF clients = 0 THEN client ELSE [client EXCEPT ![clients].stop = TRUE]
    /\ pullCall' = [pullCall EXCEPT ![c].pc = IF pullCall[c].op = "delete" THEN "erase" ELSE "get"]
    /\ UNCHANGED <<pullRow, clients, onMotion, changes, pullOverlapped, pullFailed>>
PullForget(c) ==
    /\ pullCall[c].pc = "remove"
    /\ clients' = 0
    /\ pullCall' = [pullCall EXCEPT ![c].pc = IF pullCall[c].op = "delete" THEN "erase" ELSE "get"]
    /\ UNCHANGED <<pullRow, client, onMotion, changes, pullOverlapped, pullFailed>>
PullRemove(c) ==
    /\ pullCall[c].pc = "remove"
    /\ clients' = 0
    /\ client' = IF clients = 0 THEN client ELSE [client EXCEPT ![clients].stop = TRUE]
    /\ pullCall' = [pullCall EXCEPT ![c].pc = IF pullCall[c].op = "delete" THEN "erase" ELSE "get"]
    /\ UNCHANGED <<pullRow, onMotion, changes, pullOverlapped, pullFailed>>

(* The row is read under the request's context; Sync returns if there is   *)
(* nothing to pull, and if the row cannot be read.                         *)
PullGet(c) ==
    /\ pullCall[c].pc = "get"
    /\ \E pc \in {"add", "done"} :
         /\ pullCall' = [pullCall EXCEPT ![c].pc = pc]
         /\ \/ pullRow = "on" /\ pc = "add" /\ pullFailed' = pullFailed
            \/ pullRow # "on" /\ pc = "done" /\ pullFailed' = "none"
            \/ pc = "done" /\ pullFailed' = "missed"
    /\ UNCHANGED <<pullRow, clients, client, onMotion, changes, pullOverlapped>>

(* add does not look whether there is a client: its cancel is overwritten. *)
(* run returns at once if the camera's password cannot be decrypted; the   *)
(* map keeps its entry.                                                    *)
PullAdd(c) ==
    /\ pullCall[c].pc = "add"
    /\ LET k == CHOOSE k \in Clients : client[k].pc = "none" /\ \A d \in 1 .. k - 1 : client[d].pc # "none"
       IN /\ clients' = k
          /\ \E x \in Started : client' = [client EXCEPT ![k] = x]
    /\ pullCall' = [pullCall EXCEPT ![c].pc = "done"]
    /\ pullFailed' = "none"
    /\ UNCHANGED <<pullRow, onMotion, changes, pullOverlapped>>

(* deleteCamera deletes the row after Remove; if that fails, the camera    *)
(* stays, without a client.                                                *)
PullErase(c) ==
    /\ pullCall[c].pc = "erase"
    /\ \/ pullRow' = "gone" /\ pullFailed' = "none"
       \/ pullRow' = pullRow /\ pullFailed' = "missed"
    /\ pullCall' = [pullCall EXCEPT ![c].pc = "done"]
    /\ UNCHANGED <<clients, client, onMotion, changes, pullOverlapped>>

PullStep(c) == PullRemove(c) \/ PullGet(c) \/ PullAdd(c) \/ PullErase(c)

----------------------------------------------------------------------------
(* run and pullLoop of client k.                                           *)

SetClient(k, x) ==
    client' = [client EXCEPT ![k] = x] /\ UNCHANGED <<pullRow, pullCall, clients, onMotion, changes, pullOverlapped, pullFailed>>

(* Mutant: a new subscription starts from "no motion".                     *)
PullSubscribeFresh(k) ==
    /\ client[k].pc = "subscribe"
    /\ SetClient(k, [client[k] EXCEPT !.pc = "pull", !.inbox = <<>>, !.active = FALSE])
PullSubscribe(k) ==
    /\ client[k].pc = "subscribe"
    /\ SetClient(k, [client[k] EXCEPT !.pc = "pull", !.inbox = <<>>])

(* A notification that changes nothing is not published.                   *)
PullMessage(k) ==
    /\ client[k].pc = "pull" /\ client[k].inbox # <<>>
    /\ SetClient(k, [client[k] EXCEPT !.active = Head(client[k].inbox), !.inbox = Tail(@)])

(* The call fails or the subscription has expired: what was queued is lost.*)
(* Mutant: it is kept for the next one.                                    *)
PullFailsKeeping(k) ==
    /\ client[k].pc \in {"subscribe", "pull"}
    /\ SetClient(k, [client[k] EXCEPT !.pc = "backoff"])
PullFails(k) ==
    /\ client[k].pc \in {"subscribe", "pull"}
    /\ SetClient(k, [client[k] EXCEPT !.pc = "backoff", !.inbox = <<>>,
                        !.told = client[k].told /\ client[k].inbox = <<>>])

PullBackoff(k) ==
    /\ client[k].pc = "backoff" /\ ~client[k].stop
    /\ SetClient(k, [client[k] EXCEPT !.pc = "subscribe"])

(* The context is cancelled: run returns, motion or not.                   *)
PullEnds(k) ==
    /\ client[k].stop /\ client[k].pc \in {"subscribe", "pull", "backoff"}
    /\ SetClient(k, [client[k] EXCEPT !.pc = "gone", !.inbox = <<>>])

(* The camera's motion state changes: subscribed clients are notified.     *)
MotionChanges ==
    /\ changes < MaxChanges /\ changes' = changes + 1
    /\ onMotion' = ~onMotion
    /\ client' = [k \in Clients |->
                    IF client[k].pc = "pull"
                    THEN [client[k] EXCEPT !.inbox = Append(@, ~onMotion), !.told = TRUE]
                    ELSE [client[k] EXCEPT !.told = FALSE]]
    /\ UNCHANGED <<pullRow, pullCall, clients, pullOverlapped, pullFailed>>

----------------------------------------------------------------------------
PullInit ==
    /\ pullRow \in {"on", "off"}
    /\ pullCall = [c \in PullCalls |-> [op |-> "none", pc |-> "idle"]]
    /\ clients = IF pullRow = "on" THEN 1 ELSE 0
    /\ \E x \in Started : client = [k \in Clients |-> IF pullRow = "on" /\ k = 1 THEN x ELSE NoClient]
    /\ onMotion = FALSE /\ changes = 0 /\ pullOverlapped = FALSE /\ pullFailed = "none"

PullNext ==
    \/ \E c \in PullCalls : \/ \E op \in {"on", "off", "edit", "delete"} : PullBegin(c, op)
                            \/ PullStep(c)
    \/ \E k \in Clients : PullSubscribe(k) \/ PullMessage(k) \/ PullFails(k) \/ PullBackoff(k) \/ PullEnds(k)
    \/ MotionChanges

PullSpec == PullInit /\ [][PullNext]_pullVars

----------------------------------------------------------------------------
(* Properties.                                                             *)

(* Types; only a subscription has messages queued.                         *)
PullTypeOK ==
    /\ {onMotion, pullOverlapped} \subseteq BOOLEAN /\ pullRow \in {"on", "off", "gone"}
    /\ pullCall \in [PullCalls -> [op : {"none", "on", "off", "edit", "delete"},
                                   pc : {"idle", "remove", "get", "add", "erase", "done"}]]
    /\ clients \in Clients \cup {0} /\ changes \in 0 .. MaxChanges
    /\ client \in [Clients -> [pc : {"none", "subscribe", "pull", "backoff", "gone"}, stop : BOOLEAN,
                               active : BOOLEAN, inbox : Seq(BOOLEAN), told : BOOLEAN]]
    /\ \A k \in Clients : client[k].inbox # <<>> => client[k].pc = "pull"
    /\ pullFailed \in {"none", "missed", "lost"}

(* Calls that do not overlap leave no client running but the registered    *)
(* one, and that exactly if the row asks for it, unless one failed         *)
(* half-way, and again after the next one that gets through. A call that   *)
(* fails between removing and adding, or in deleting the row, leaves no    *)
(* client; only a change of the row whose answer was lost leaves one that  *)
(* the row does not ask for.                                               *)
PullSequential ==
    ~pullOverlapped =>
        /\ \A k \in Clients : Live(k) => k = clients
        /\ (\A c \in PullCalls : ~PullCalling(c)) =>
              /\ pullFailed = "none" => (clients # 0 <=> pullRow = "on")
              /\ pullFailed = "missed" => clients = 0

(* The client the map names was started and not stopped, so the next Sync  *)
(* or Remove can stop it: it runs, or ended at once because the camera's   *)
(* password could not be decrypted.                                        *)
PullStoppable == clients # 0 => client[clients].pc # "none" /\ ~client[clients].stop

(* pullpoint.go:150 "so a reconnect doesn't re-fire a stale start": what   *)
(* the client takes for the motion state is the camera's, once it has read *)
(* its inbox, if its last change was notified, across reconnects.          *)
PullFollows ==
    \A k \in Clients : Live(k) /\ client[k].told /\ client[k].inbox = <<>> => client[k].active = onMotion

(* The camera has the one client its row asks for, it can be stopped, and  *)
(* it knows the camera's motion state, as far as calls do not fail.        *)
PullSafe == PullTypeOK /\ PullSequential /\ PullStoppable /\ PullFollows

(* However calls overlap, a client no call can stop any more: violated,    *)
(* two Syncs that both reach add leave the first one's client running.     *)
PullNoneForgotten == \A k \in Clients : Live(k) => k = clients
===============================================================================
