-------------------------------- MODULE Ingest --------------------------------
(***************************************************************************)
(* The ingest supervisor and the workers of one camera (ingest/ingest.go,  *)
(* ingest/worker.go), as API handlers edit, enable, disable and delete it. *)
(* A handler changes the camera's row, then calls Sync, which drops the    *)
(* registered worker, stops it, reads the row and registers a new worker;  *)
(* only the two accesses to the registry are under the supervisor's lock.  *)
(* A worker is a session loop (connect, play, wait for the connection to   *)
(* end, back off) and a health ticker. It writes the camera's status and   *)
(* opens and closes recording gaps.                                        *)
(*                                                                         *)
(* Only the main stream is modelled: the sub stream touches neither gaps   *)
(* nor status. "Degraded" (no frame for five seconds) counts as online.    *)
(***************************************************************************)
EXTENDS Naturals, FiniteSets

CONSTANTS
    Calls,      \* API calls on the camera
    MaxConnects \* bound: RTSP connections attempted

ASSUME IngestAssumption == IsFiniteSet(Calls) /\ MaxConnects \in Nat

(* Start registers worker 1, and each call at most one more.               *)
Workers == 1 .. Cardinality(Calls) + 1

VARIABLES
    row,        \* the camera's row: [exists, enabled, ver]
    call,       \* per API call: [op, pc, old, read]
    registry,   \* Supervisor.workers[camID], 0 = none
    worker,     \* per worker: [ver, pc, tick, cancelled, up, status]
    gap,        \* the open row of recording_gaps: its worker, 0 = none
    status,     \* cameras.status
    connects    \* RTSP connections attempted so far

(* History, read by properties only: has a call started during another;    *)
(* how the last call that came to the registry or the row went wrong       *)
(* ("missed": it ended between detaching a worker and the end of its own   *)
(* work; "lost": it changed the row, was told that it had not, and gave    *)
(* up); did the last statement on the gap rows fail.                       *)
VARIABLES overlapped, failed, gapFailed

vars == <<row, call, registry, worker, gap, status, connects, overlapped, failed, gapFailed>>

Unborn == [ver |-> 0, pc |-> "none", tick |-> "none", cancelled |-> FALSE,
           up |-> FALSE, status |-> "offline"]
NewWorker(ver) == [Unborn EXCEPT !.ver = ver, !.pc = "dial", !.tick = "ticking"]

NoCall == [op |-> "none", pc |-> "idle", old |-> 0, read |-> [exists |-> FALSE, enabled |-> FALSE, ver |-> 0]]
InProgress(c) == call[c].pc \notin {"idle", "done"}
Alive(w) == worker[w].pc \notin {"none", "gone"}

----------------------------------------------------------------------------
(* API handlers. updateCamera and setCameraEnabled write the row and then  *)
(* Sync; deleteCamera removes the worker and then deletes the row.         *)

BeginCall(c, op) ==
    /\ call[c].pc = "idle" /\ row.exists
    /\ call' = [call EXCEPT ![c] = [@ EXCEPT !.op = op, !.pc = IF op = "delete" THEN "detach" ELSE "write"]]
    /\ overlapped' = (overlapped \/ \E d \in Calls : InProgress(d))
    /\ UNCHANGED <<row, registry, worker, gap, status, connects, failed, gapFailed>>

(* The row as call c writes it.                                            *)
Written(c) ==
    [row EXCEPT !.ver = IF call[c].op = "edit" THEN @ + 1 ELSE @,
                !.enabled = CASE call[c].op = "enable" -> TRUE
                              [] call[c].op = "disable" -> FALSE
                              [] OTHER -> @]

(* An error of cams.Update or cams.SetEnabled ends the call, whether or    *)
(* not the row was changed.                                                *)
WriteRow(c) ==
    /\ call[c].pc = "write"
    /\ \/ /\ row' = Written(c) /\ failed' = failed
          /\ call' = [call EXCEPT ![c].pc = "detach"]
       \/ /\ \/ row' = Written(c) /\ failed' = "lost"
             \/ row' = row /\ failed' = failed
          /\ call' = [call EXCEPT ![c].pc = "done"]
    /\ UNCHANGED <<registry, worker, gap, status, connects, overlapped, gapFailed>>

(* Sync and Remove: under the lock the worker leaves the registry, then it *)
(* is stopped.                                                             *)
(* Mutant: the worker stays registered.                                    *)
DetachKeeping(c) ==
    /\ call[c].pc = "detach"
    /\ call' = [call EXCEPT ![c] = [@ EXCEPT !.pc = "stop", !.old = registry]]
    /\ UNCHANGED <<row, registry, worker, gap, status, connects, overlapped, failed, gapFailed>>
Detach(c) ==
    /\ call[c].pc = "detach"
    /\ call' = [call EXCEPT ![c] = [@ EXCEPT !.pc = "stop", !.old = registry]]
    /\ registry' = 0
    /\ UNCHANGED <<row, worker, gap, status, connects, overlapped, failed, gapFailed>>

(* stop only cancels the worker's context.                                 *)
Stop(c) ==
    /\ call[c].pc = "stop"
    /\ worker' = IF call[c].old = 0 THEN worker
                 ELSE [worker EXCEPT ![call[c].old].cancelled = TRUE]
    /\ call' = [call EXCEPT ![c].pc = IF call[c].op = "delete" THEN "erase" ELSE "get"]
    /\ UNCHANGED <<row, registry, gap, status, connects, overlapped, failed, gapFailed>>

(* The row is read without the lock, under the request's context; Sync     *)
(* returns if there is nothing to run, and if the row cannot be read (the  *)
(* client has hung up, or the database fails).                             *)
ReadRow(c) ==
    /\ call[c].pc = "get"
    /\ \/ /\ row.exists /\ row.enabled
          /\ call' = [call EXCEPT ![c] = [@ EXCEPT !.read = row, !.pc = "attach"]]
          /\ failed' = failed
       \/ /\ ~(row.exists /\ row.enabled)
          /\ call' = [call EXCEPT ![c].pc = "done"]
          /\ failed' = "none"
       \/ /\ call' = [call EXCEPT ![c].pc = "done"]
          /\ failed' = "missed"
    /\ UNCHANGED <<row, registry, worker, gap, status, connects, overlapped, gapFailed>>

(* Mutant: the slot is not looked at again.                                *)
AttachAnyway(c) ==
    /\ call[c].pc = "attach"
    /\ \E w \in Workers :
         /\ worker[w].pc = "none" /\ \A v \in 1 .. w - 1 : worker[v].pc # "none"
         /\ registry' = w
         /\ worker' = [worker EXCEPT ![w] = NewWorker(call[c].read.ver)]
    /\ call' = [call EXCEPT ![c].pc = "done"]
    /\ failed' = "none"
    /\ UNCHANGED <<row, gap, status, connects, overlapped, gapFailed>>
Attach(c) ==
    /\ call[c].pc = "attach"
    /\ \/ /\ registry # 0
          /\ UNCHANGED <<registry, worker>>
       \/ /\ registry = 0
          /\ \E w \in Workers :
               /\ worker[w].pc = "none" /\ \A v \in 1 .. w - 1 : worker[v].pc # "none"
               /\ registry' = w
               /\ worker' = [worker EXCEPT ![w] = NewWorker(call[c].read.ver)]
    /\ call' = [call EXCEPT ![c].pc = "done"]
    /\ failed' = "none"
    /\ UNCHANGED <<row, gap, status, connects, overlapped, gapFailed>>

(* cams.Delete; the camera's recording_gaps go with it. If it fails, the   *)
(* camera stays, with its worker removed.                                  *)
EraseRow(c) ==
    /\ call[c].pc = "erase"
    /\ \/ row' = [row EXCEPT !.exists = FALSE] /\ gap' = 0 /\ failed' = "none"
       \/ UNCHANGED <<row, gap>> /\ failed' = "missed"
    /\ call' = [call EXCEPT ![c].pc = "done"]
    /\ UNCHANGED <<registry, worker, status, connects, overlapped, gapFailed>>

APIStep(c) ==
    WriteRow(c) \/ Detach(c) \/ Stop(c) \/ ReadRow(c) \/ Attach(c) \/ EraseRow(c)

----------------------------------------------------------------------------
(* Session loop of worker w. "dial": runSession up to Play; "played": Play *)
(* has returned and packet callbacks run; "marked": the worker is up;      *)
(* "wait": gaps are closed and the session is in c.Wait().                 *)

Goto(w, from, to) ==
    /\ worker[w].pc = from
    /\ worker' = [worker EXCEPT ![w].pc = to]

Play(w) ==
    /\ Goto(w, "dial", "played")
    /\ connects < MaxConnects /\ connects' = connects + 1
    /\ UNCHANGED <<row, call, registry, gap, status, overlapped, failed, gapFailed>>

MarkUp(w) ==
    /\ worker[w].pc = "played"
    /\ worker' = [worker EXCEPT ![w] = [@ EXCEPT !.pc = "marked", !.up = TRUE]]
    /\ UNCHANGED <<row, call, registry, gap, status, connects, overlapped, failed, gapFailed>>

(* Mutant: gaps are left open.                                             *)
CloseNoGaps(w) ==
    /\ Goto(w, "marked", "wait")
    /\ gapFailed' = FALSE
    /\ UNCHANGED <<row, call, registry, gap, status, connects, overlapped, failed>>
(* An error of segs.CloseGaps is ignored.                                  *)
CloseGaps(w) ==
    /\ Goto(w, "marked", "wait")
    /\ \/ gap' = 0 /\ gapFailed' = FALSE
       \/ gap' = gap /\ gapFailed' = TRUE
    /\ UNCHANGED <<row, call, registry, status, connects, overlapped, failed>>

DialFails(w) ==
    /\ Goto(w, "dial", "failed")
    /\ connects < MaxConnects /\ connects' = connects + 1
    /\ UNCHANGED <<row, call, registry, gap, status, overlapped, failed, gapFailed>>

(* The camera closes the connection, or fifteen seconds pass without data. *)
(* Nothing else ends c.Wait(): the worker's context is not looked at.      *)
ConnectionEnds(w) ==
    /\ Goto(w, "wait", "failed")
    /\ UNCHANGED <<row, call, registry, gap, status, connects, overlapped, failed, gapFailed>>

(* sessionLoop after runSession: return if the worker was stopped, else    *)
(* down; setDetail writes the last known status with the error.            *)
(* Mutant: markUp(false) is forgotten.                                     *)
SessionOverStillUp(w) ==
    /\ worker[w].pc = "failed"
    /\ IF worker[w].cancelled
       THEN worker' = [worker EXCEPT ![w].pc = "returned"] /\ UNCHANGED status
       ELSE /\ worker' = [worker EXCEPT ![w].pc = "down"]
            /\ status' = worker[w].status
    /\ UNCHANGED <<row, call, registry, gap, connects, overlapped, failed, gapFailed>>
SessionOver(w) ==
    /\ worker[w].pc = "failed"
    /\ IF worker[w].cancelled
       THEN worker' = [worker EXCEPT ![w].pc = "returned"] /\ UNCHANGED status
       ELSE /\ worker' = [worker EXCEPT ![w] = [@ EXCEPT !.pc = "down", !.up = FALSE]]
            /\ status' = worker[w].status
    /\ UNCHANGED <<row, call, registry, gap, connects, overlapped, failed, gapFailed>>

(* So is an error of segs.OpenGap.                                         *)
OpenGap(w) ==
    /\ Goto(w, "down", "backoff")
    /\ \/ gap' = (IF gap = 0 /\ row.exists THEN w ELSE gap) /\ gapFailed' = FALSE
       \/ gap' = gap /\ gapFailed' = TRUE
    /\ UNCHANGED <<row, call, registry, status, connects, overlapped, failed>>

(* The backoff is over, or the context is cancelled: select takes either.  *)
BackoffOver(w) ==
    /\ \/ Goto(w, "backoff", "dial")
       \/ worker[w].cancelled /\ Goto(w, "backoff", "returned")
    /\ UNCHANGED <<row, call, registry, gap, status, connects, overlapped, failed, gapFailed>>

Session(w) ==
    Play(w) \/ MarkUp(w) \/ CloseGaps(w) \/ DialFails(w) \/ SessionOver(w)
        \/ OpenGap(w) \/ BackoffOver(w)

----------------------------------------------------------------------------
(* run: the health ticker, until the context is cancelled; then wait for   *)
(* the session loop and write a last status.                               *)

Tick(w) ==
    /\ worker[w].tick = "ticking"
    /\ LET st == IF worker[w].up THEN "online" ELSE "offline" IN
       /\ worker' = [worker EXCEPT ![w].status = st]
       /\ status' = st
    /\ UNCHANGED <<row, call, registry, gap, connects, overlapped, failed, gapFailed>>

TickerStops(w) ==
    /\ worker[w].tick = "ticking" /\ worker[w].cancelled
    /\ worker' = [worker EXCEPT ![w].tick = "waiting"]
    /\ UNCHANGED <<row, call, registry, gap, status, connects, overlapped, failed, gapFailed>>

WorkerEnds(w) ==
    /\ worker[w].tick = "waiting" /\ worker[w].pc = "returned"
    /\ worker' = [worker EXCEPT ![w] = [@ EXCEPT !.pc = "gone", !.tick = "none", !.status = "offline"]]
    /\ status' = "offline"
    /\ UNCHANGED <<row, call, registry, gap, connects, overlapped, failed, gapFailed>>

----------------------------------------------------------------------------
Init ==
    /\ row = [exists |-> TRUE, enabled |-> TRUE, ver |-> 1]
    /\ call = [c \in Calls |-> NoCall]
    /\ registry = 1
    /\ worker = [w \in Workers |-> IF w = 1 THEN NewWorker(1) ELSE Unborn]
    /\ gap = 0 /\ status = "offline" /\ connects = 0
    /\ overlapped = FALSE /\ failed = "none" /\ gapFailed = FALSE

Ops == {"edit", "enable", "disable", "delete"}

Next ==
    \/ \E c \in Calls : (\E op \in Ops : BeginCall(c, op)) \/ APIStep(c)
    \/ \E w \in Workers :
         Session(w) \/ ConnectionEnds(w) \/ Tick(w) \/ TickerStops(w) \/ WorkerEnds(w)

Spec == Init /\ [][Next]_vars

(* Every goroutine runs on, and a stopped worker's select notices sooner or *)
(* later; only the camera decides whether a connection ends.                *)
Fairness ==
    /\ \A c \in Calls : WF_vars(APIStep(c))
    /\ \A w \in Workers :
         /\ WF_vars(Session(w)) /\ WF_vars(Tick(w)) /\ WF_vars(TickerStops(w))
         /\ WF_vars(WorkerEnds(w))
         /\ SF_vars(worker[w].cancelled /\ Goto(w, "backoff", "returned") /\ BackoffOver(w))
FairSpec == Spec /\ Fairness

----------------------------------------------------------------------------
(* Properties.                                                             *)

WorkerStates ==
    [ver : 0 .. Cardinality(Calls) + 1,
     pc : {"none", "dial", "played", "marked", "wait", "failed", "down", "backoff", "returned", "gone"},
     tick : {"none", "ticking", "waiting"}, cancelled : BOOLEAN, up : BOOLEAN,
     status : {"online", "offline"}]
(* Types; the worker counts as up exactly while its session plays, and its *)
(* session loop returns only after it was stopped.                         *)
TypeOK ==
    /\ row \in [exists : BOOLEAN, enabled : BOOLEAN, ver : 1 .. Cardinality(Calls) + 1]
    /\ \A c \in Calls :
         /\ call[c].op \in Ops \cup {"none"}
         /\ call[c].pc \in {"idle", "write", "detach", "stop", "get", "attach", "erase", "done"}
         /\ call[c].old \in {0} \cup Workers
    /\ registry \in {0} \cup Workers
    /\ worker \in [Workers -> WorkerStates]
    /\ \A w \in Workers :
         /\ worker[w].pc \in {"marked", "wait"} => worker[w].up
         /\ worker[w].pc \in {"dial", "played", "down", "backoff"} => ~worker[w].up
         /\ worker[w].pc \in {"returned", "gone"} => worker[w].cancelled
    /\ gap \in {0} \cup Workers /\ status \in {"online", "offline"}
    /\ connects \in 0 .. MaxConnects
    /\ overlapped \in BOOLEAN /\ failed \in {"none", "missed", "lost"} /\ gapFailed \in BOOLEAN

(* Whatever calls overlap, no worker is forgotten: one that is not the     *)
(* registered worker has been stopped, or is about to be.                  *)
NoWorkerForgotten ==
    \A w \in Workers :
        Alive(w) /\ ~worker[w].cancelled =>
            registry = w \/ \E c \in Calls : call[c].pc = "stop" /\ call[c].old = w

(* ingest.go:24 "one camera worker per enabled camera": once every call    *)
(* has returned, the registered worker runs the row as it is.              *)
RegistryMatchesRow ==
    IF row.exists /\ row.enabled
    THEN registry # 0 /\ worker[registry].ver = row.ver
    ELSE registry = 0

(* For calls that do not overlap this holds unless one failed half-way,    *)
(* and holds again after the next one that gets through. A call that fails *)
(* between detaching and attaching, or in deleting the row, leaves the     *)
(* camera without any worker, never with an outdated one; only a change of *)
(* the row whose answer was lost leaves an outdated worker running.        *)
SequentialCallsMatch ==
    ~overlapped /\ (\A c \in Calls : ~InProgress(c)) =>
        /\ failed = "none" => RegistryMatchesRow
        /\ failed = "missed" => registry = 0

(* docs/05-ingest-streaming.md:41 "on ingest failure a recording_gaps row  *)
(* opens; closes on reconnect": for a camera nobody edits there is an open *)
(* gap while it backs off and none while it streams, unless the last       *)
(* statement on the gap rows failed, which nobody is told of; the next one *)
(* that succeeds puts it right.                                            *)
Undisturbed == registry = 1
GapsFollowTheStream ==
    Undisturbed /\ ~gapFailed =>
        /\ worker[1].pc = "backoff" => gap # 0
        /\ worker[1].pc = "wait" => gap = 0

(* Once the registered worker streams for good, the camera's status ends   *)
(* up online, even if a stopped worker writes its last status later.       *)
StatusConverges ==
    \A w \in Workers :
        <>[](registry = w /\ worker[w].pc = "wait" /\ ~worker[w].cancelled)
            => <>[](status = "online")

(* ingest.go:67 "Teardown of the previous worker happens asynchronously so *)
(* a stuck session loop (up to ~60s of reconnect backoff) cannot stall the *)
(* API request": a stopped worker comes to an end.                         *)
StoppedWorkersEnd ==
    \A w \in Workers : worker[w].cancelled ~> worker[w].pc = "gone"
===============================================================================
