---------------------------- MODULE IngestProofs ----------------------------
(***************************************************************************)
(* Proofs about Ingest, for any number of API calls on the camera and of   *)
(* RTSP connections:                                                       *)
(*   WorkersRemembered  Spec => []NoWorkerForgotten                        *)
(*   SequentialCalls    Spec => []SequentialCallsMatch                     *)
(*   GapsAreKept        Spec => []GapsFollowTheStream                      *)
(*   WellTyped          Spec => []TypeOK                                   *)
(* each from an inductive invariant of its own on top of Types.            *)
(***************************************************************************)
EXTENDS Ingest, TLAPS, FiniteSetTheorems

(* Types, as far as they are inductive without the rest of TypeOK.         *)
RowStates == [exists : BOOLEAN, enabled : BOOLEAN, ver : Nat]
CallStates ==
    [op : Ops \cup {"none"},
     pc : {"idle", "write", "detach", "stop", "get", "attach", "erase", "done"},
     old : {0} \cup Workers, read : RowStates]
WorkerRecords ==
    [ver : Nat,
     pc : {"none", "dial", "played", "marked", "wait", "failed", "down", "backoff", "returned", "gone"},
     tick : {"none", "ticking", "waiting"}, cancelled : BOOLEAN, up : BOOLEAN,
     status : {"online", "offline"}]
Types ==
    /\ row \in RowStates
    /\ call \in [Calls -> CallStates]
    /\ registry \in {0} \cup Workers
    /\ worker \in [Workers -> WorkerRecords]
    /\ gap \in {0} \cup Workers
    /\ overlapped \in BOOLEAN /\ failed \in {"none", "missed", "lost"} /\ gapFailed \in BOOLEAN

(* Workers are numbered from one, and the first is there without any       *)
(* call.                                                                   *)
LEMMA WorkersFacts == 0 \notin Workers /\ 1 \in Workers /\ Workers \subseteq Nat
<1>1. Cardinality(Calls) \in Nat
  BY IngestAssumption, FS_CardinalityType
<1> QED BY <1>1 DEF Workers

(* A worker that is not born yet.                                          *)
LEMMA UnbornType == Unborn \in WorkerRecords /\ Unborn.pc = "none" /\ Unborn.cancelled = FALSE
BY DEF Unborn, WorkerRecords

(* A worker just started.                                                  *)
LEMMA NewWorkerType ==
  ASSUME NEW v \in Nat
  PROVE  /\ NewWorker(v) \in WorkerRecords
         /\ NewWorker(v).ver = v /\ NewWorker(v).pc = "dial" /\ NewWorker(v).cancelled = FALSE
BY UnbornType DEF NewWorker, WorkerRecords

(* What a step of worker w's session loop or ticker may change: its own    *)
(* record, but neither the configuration it runs nor whether it was        *)
(* stopped, and gap. It is not born by it, and does not come back.         *)
PCs == {"dial", "played", "marked", "wait", "failed", "down", "backoff", "returned", "gone"}
Becomes(w, r) ==
    /\ worker' = [worker EXCEPT ![w] = r]
    /\ r \in WorkerRecords
    /\ r.ver = worker[w].ver /\ r.cancelled = worker[w].cancelled
    /\ \/ r.pc = worker[w].pc
       \/ worker[w].pc \in PCs \ {"gone"} /\ r.pc \in PCs
Changes(w) == \E r : Becomes(w, r)
WorkerStep(w) == Session(w) \/ ConnectionEnds(w) \/ Tick(w) \/ TickerStops(w) \/ WorkerEnds(w)

(* A step of the session loop that only moves its control point.           *)
LEMMA SetPc ==
  ASSUME Types, NEW w \in Workers, NEW to \in PCs, worker[w].pc \in PCs \ {"gone"},
         worker' = [worker EXCEPT ![w].pc = to]
  PROVE  Changes(w)
<1>1. Becomes(w, [worker[w] EXCEPT !.pc = to])
  BY DEF Becomes, Types, WorkerRecords, PCs
<1> QED BY <1>1 DEF Changes

(* What a step of a worker can change: its own record, the gap, the        *)
(* status.                                                                 *)
LEMMA WorkerFrame ==
  ASSUME Types, NEW w \in Workers, WorkerStep(w)
  PROVE  Changes(w) /\ UNCHANGED <<row, call, registry, overlapped, failed>>
<1>1. UNCHANGED <<row, call, registry, overlapped, failed>>
  BY DEF WorkerStep, Session, Play, MarkUp, CloseGaps, DialFails, SessionOver, OpenGap,
     BackoffOver, ConnectionEnds, Tick, TickerStops, WorkerEnds
<1>2. worker[w] \in WorkerRecords
  BY DEF Types
<1>3. CASE Play(w) \/ CloseGaps(w) \/ DialFails(w) \/ OpenGap(w) \/ BackoffOver(w) \/ ConnectionEnds(w)
  BY <1>1, <1>3, SetPc DEF Play, CloseGaps, DialFails, OpenGap, BackoffOver, ConnectionEnds, Goto, PCs
<1>4. CASE MarkUp(w)
  <2>1. Becomes(w, [worker[w] EXCEPT !.pc = "marked", !.up = TRUE])
    BY <1>2, <1>4 DEF MarkUp, Becomes, WorkerRecords, PCs
  <2> QED BY <1>1, <2>1 DEF Changes
<1>5. CASE SessionOver(w)
  <2>1. CASE worker[w].cancelled
    BY <1>1, <1>2, <1>5, <2>1, SetPc DEF SessionOver, PCs
  <2>2. CASE ~worker[w].cancelled
    <3>1. Becomes(w, [worker[w] EXCEPT !.pc = "down", !.up = FALSE])
      BY <1>2, <1>5, <2>2 DEF SessionOver, Becomes, WorkerRecords, PCs
    <3> QED BY <1>1, <3>1 DEF Changes
  <2> QED BY <2>1, <2>2
<1>6. CASE Tick(w)
  <2> DEFINE st == IF worker[w].up THEN "online" ELSE "offline"
  <2>1. Becomes(w, [worker[w] EXCEPT !.status = st])
    BY <1>2, <1>6 DEF Tick, Becomes, WorkerRecords
  <2> QED BY <1>1, <2>1 DEF Changes
<1>7. CASE TickerStops(w)
  <2>1. Becomes(w, [worker[w] EXCEPT !.tick = "waiting"])
    BY <1>2, <1>7 DEF TickerStops, Becomes, WorkerRecords
  <2> QED BY <1>1, <2>1 DEF Changes
<1>8. CASE WorkerEnds(w)
  <2>1. Becomes(w, [worker[w] EXCEPT !.pc = "gone", !.tick = "none", !.status = "offline"])
    BY <1>2, <1>8 DEF WorkerEnds, Becomes, WorkerRecords, PCs
  <2> QED BY <1>1, <2>1 DEF Changes
<1> QED BY <1>3, <1>4, <1>5, <1>6, <1>7, <1>8 DEF WorkerStep, Session

(* The initial state is well typed.                                        *)
LEMMA InitTypes == Init => Types
<1> SUFFICES ASSUME Init PROVE Types
  OBVIOUS
<1>1. NoCall \in CallStates
  BY DEF NoCall, CallStates, RowStates, Ops
<1>2. worker \in [Workers -> WorkerRecords]
  BY NewWorkerType, UnbornType DEF Init
<1> QED BY <1>1, <1>2, WorkersFacts DEF Init, Types, RowStates

(* Types, for a step of an API call.                                       *)
LEMMA APITypes ==
  ASSUME Types, NEW c \in Calls, (\E op \in Ops : BeginCall(c, op)) \/ APIStep(c)
  PROVE  Types'
<1>1. call[c] \in CallStates /\ row \in RowStates
  BY DEF Types
<1>0. failed' \in {"none", "missed", "lost"} /\ gapFailed' = gapFailed
  BY DEF Types, APIStep, BeginCall, WriteRow, Detach, Stop, ReadRow, Attach, EraseRow
<1>2. ASSUME NEW op \in Ops, BeginCall(c, op) PROVE Types'
  <2>1. [call[c] EXCEPT !.op = op, !.pc = IF op = "delete" THEN "detach" ELSE "write"] \in CallStates
    BY <1>1 DEF CallStates
  <2>2. call' \in [Calls -> CallStates]
    BY <1>2, <2>1 DEF BeginCall, Types
  <2>3. overlapped' \in BOOLEAN
    BY <1>2 DEF BeginCall, Types
  <2> QED BY <1>0, <1>2, <2>2, <2>3 DEF BeginCall, Types
<1>3. CASE WriteRow(c)
  <2>1. row' \in RowStates
    <3> DEFINE ver == IF call[c].op = "edit" THEN row.ver + 1 ELSE row.ver
               enabled == CASE call[c].op = "enable" -> TRUE
                            [] call[c].op = "disable" -> FALSE
                            [] OTHER -> row.enabled
    <3>1. row' = row \/ row' = [row EXCEPT !.ver = ver, !.enabled = enabled]
      BY <1>3 DEF WriteRow, Written
    <3>2. ver \in Nat
      BY <1>1 DEF RowStates
    <3>3. row.enabled \in BOOLEAN
      BY <1>1 DEF RowStates
    <3>4. enabled \in BOOLEAN
      <4>1. CASE call[c].op = "enable"
        BY <4>1
      <4>2. CASE call[c].op = "disable"
        BY <4>2
      <4>3. CASE call[c].op \notin {"enable", "disable"}
        BY <3>3, <4>3
      <4> QED BY <4>1, <4>2, <4>3
    <3> HIDE DEF ver, enabled
    <3> QED BY <1>1, <3>1, <3>2, <3>4 DEF RowStates
  <2>2. call' \in [Calls -> CallStates]
    BY <1>1, <1>3 DEF WriteRow, Types, CallStates
  <2> QED BY <1>0, <1>3, <2>1, <2>2 DEF WriteRow, Types
<1>4. CASE Detach(c)
  <2>1. [call[c] EXCEPT !.pc = "stop", !.old = registry] \in CallStates
    BY <1>1 DEF CallStates, Types
  <2>2. call' \in [Calls -> CallStates]
    BY <1>4, <2>1 DEF Detach, Types
  <2> QED BY <1>0, <1>4, <2>2 DEF Detach, Types
<1>5. CASE Stop(c)
  <2>1. call' \in [Calls -> CallStates]
    BY <1>1, <1>5 DEF Stop, Types, CallStates
  <2>2. worker' \in [Workers -> WorkerRecords]
    <3>1. ASSUME NEW w \in Workers
          PROVE  [worker EXCEPT ![w].cancelled = TRUE] \in [Workers -> WorkerRecords]
      <4>1. [worker[w] EXCEPT !.cancelled = TRUE] \in WorkerRecords
        BY DEF Types, WorkerRecords
      <4> QED BY <4>1 DEF Types
    <3>2. call[c].old \in {0} \cup Workers
      BY <1>1 DEF CallStates
    <3> QED BY <1>5, <3>1, <3>2 DEF Stop, Types
  <2> QED BY <1>0, <1>5, <2>1, <2>2 DEF Stop, Types
<1>6. CASE ReadRow(c)
  <2>1. /\ [call[c] EXCEPT !.read = row, !.pc = "attach"] \in CallStates
        /\ [call[c] EXCEPT !.pc = "done"] \in CallStates
    BY <1>1 DEF CallStates
  <2>2. call' \in [Calls -> CallStates]
    BY <1>6, <2>1 DEF ReadRow, Types
  <2> QED BY <1>0, <1>6, <2>2 DEF ReadRow, Types
<1>7. CASE Attach(c)
  <2>1. call' \in [Calls -> CallStates]
    BY <1>1, <1>7 DEF Attach, Types, CallStates
  <2>2. NewWorker(call[c].read.ver) \in WorkerRecords
    BY <1>1, NewWorkerType DEF CallStates, RowStates
  <2>3. worker' \in [Workers -> WorkerRecords] /\ registry' \in {0} \cup Workers
    BY <1>7, <2>2 DEF Attach, Types
  <2> QED BY <1>0, <1>7, <2>1, <2>3 DEF Attach, Types
<1>8. CASE EraseRow(c)
  <2>1. row' \in RowStates
    BY <1>1, <1>8 DEF EraseRow, RowStates
  <2>2. call' \in [Calls -> CallStates]
    BY <1>1, <1>8 DEF EraseRow, Types, CallStates
  <2> QED BY <1>0, <1>8, <2>1, <2>2 DEF EraseRow, Types
<1> QED BY <1>2, <1>3, <1>4, <1>5, <1>6, <1>7, <1>8 DEF APIStep

(* Types, for a step of a worker.                                          *)
LEMMA WorkerTypes ==
  ASSUME Types, NEW w \in Workers, WorkerStep(w)
  PROVE  Types'
<1>1. worker' \in [Workers -> WorkerRecords] /\ UNCHANGED <<row, call, registry, overlapped, failed>>
  BY WorkerFrame DEF Changes, Becomes, Types
<1>2. gap' \in {0} \cup Workers /\ gapFailed' \in BOOLEAN
  BY DEF WorkerStep, Session, Play, MarkUp, CloseGaps, DialFails, SessionOver, OpenGap,
     BackoffOver, ConnectionEnds, Tick, TickerStops, WorkerEnds, Types
<1> QED BY <1>1, <1>2 DEF Types

(* Every step keeps Types.                                                 *)
LEMMA StepTypes == Types /\ [Next]_vars => Types'
<1>1. Types /\ UNCHANGED vars => Types'
  BY DEF Types, vars
<1> QED BY <1>1, APITypes, WorkerTypes DEF Next, WorkerStep

(* Calls, registry, workers and gap keep their types.                      *)
THEOREM TypesKept == Spec => []Types
BY InitTypes, StepTypes, PTL DEF Spec

----------------------------------------------------------------------------
(* No worker is forgotten.                                                 *)

(* A call that takes a worker from the registry remembers it until it is   *)
(* stopped.                                                                *)
LEMMA RememberedByAPI ==
  ASSUME Types, NoWorkerForgotten, NEW c \in Calls,
         (\E op \in Ops : BeginCall(c, op)) \/ APIStep(c)
  PROVE  NoWorkerForgotten'
<1>1. call \in [Calls -> CallStates] /\ worker \in [Workers -> WorkerRecords] /\ call[c] \in CallStates
  BY DEF Types
<1>2. ASSUME NEW op \in Ops, BeginCall(c, op) PROVE NoWorkerForgotten'
  BY <1>1, <1>2 DEF BeginCall, NoWorkerForgotten, Alive
<1>3. CASE WriteRow(c) \/ ReadRow(c) \/ EraseRow(c)
  BY <1>1, <1>3 DEF WriteRow, ReadRow, EraseRow, NoWorkerForgotten, Alive
<1>4. CASE Detach(c)
  <2>1. call'[c].pc = "stop" /\ call'[c].old = registry
    BY <1>1, <1>4 DEF Detach, CallStates
  <2>2. \A d \in Calls : d # c => call'[d] = call[d]
    BY <1>1, <1>4 DEF Detach
  <2> QED BY <1>4, <2>1, <2>2 DEF Detach, NoWorkerForgotten, Alive
<1>5. CASE Stop(c)
  <2>1. \A w \in Workers : w = call[c].old => worker'[w].cancelled
    BY <1>1, <1>5, WorkersFacts DEF Stop, WorkerRecords
  <2>2. \A w \in Workers : w # call[c].old => worker'[w] = worker[w]
    BY <1>1, <1>5 DEF Stop
  <2>3. \A d \in Calls : d # c => call'[d] = call[d]
    BY <1>1, <1>5 DEF Stop
  <2> QED BY <1>5, <2>1, <2>2, <2>3 DEF Stop, NoWorkerForgotten, Alive
<1>6. CASE Attach(c)
  <2>1. \A d \in Calls : d # c => call'[d] = call[d]
    BY <1>1, <1>6 DEF Attach
  <2>2. \A w \in Workers : worker'[w] = worker[w] \/ registry' = w
    BY <1>1, <1>6 DEF Attach
  <2>3. registry # 0 => registry' = registry
    BY <1>6 DEF Attach
  <2> QED BY <1>6, <2>1, <2>2, <2>3, WorkersFacts DEF Attach, NoWorkerForgotten, Alive
<1> QED BY <1>2, <1>3, <1>4, <1>5, <1>6 DEF APIStep

(* A worker never restarts itself.                                         *)
LEMMA RememberedByWorkers ==
  ASSUME Types, NoWorkerForgotten, NEW w \in Workers, WorkerStep(w)
  PROVE  NoWorkerForgotten'
<1>1. UNCHANGED <<call, registry>>
  BY WorkerFrame
<1>2. PICK r : Becomes(w, r)
  BY WorkerFrame DEF Changes
<1>3. \A v \in Workers : v # w => worker'[v] = worker[v]
  BY <1>2 DEF Becomes, Types
<1>4. worker'[w] = r
  BY <1>2 DEF Becomes, Types
<1>5. Alive(w)' /\ ~worker'[w].cancelled => Alive(w) /\ ~worker[w].cancelled
  BY <1>2, <1>4 DEF Becomes, Alive, PCs
<1> QED BY <1>1, <1>3, <1>5 DEF NoWorkerForgotten, Alive

(* Whatever API calls on a camera overlap, a worker that is not registered *)
(* has been stopped or is about to be (ingest.go:70, 85).                  *)
THEOREM WorkersRemembered == Spec => []NoWorkerForgotten
<1>1. Init => NoWorkerForgotten
  BY UnbornType DEF Init, NoWorkerForgotten, Alive
<1>2. Types /\ NoWorkerForgotten /\ [Next]_vars => NoWorkerForgotten'
  <2>1. NoWorkerForgotten /\ UNCHANGED vars => NoWorkerForgotten'
    BY DEF NoWorkerForgotten, Alive, vars
  <2> QED BY <2>1, RememberedByAPI, RememberedByWorkers DEF Next, WorkerStep
<1> QED BY TypesKept, <1>1, <1>2, PTL DEF Spec

----------------------------------------------------------------------------
(* Calls that do not overlap leave the right worker. The inductive         *)
(* invariant follows the one call in progress.                             *)

Matches ==
    IF row.exists /\ row.enabled
    THEN registry # 0 /\ worker[registry].ver = row.ver
    ELSE registry = 0
Settled == (failed = "none" => Matches) /\ (failed = "missed" => registry = 0)
OneAtATime == \A c, d \in Calls : InProgress(c) /\ InProgress(d) => c = d
Progress(c) ==
    /\ call[c].pc = "write" => Settled
    /\ call[c].pc \in {"stop", "get", "erase", "attach"} => registry = 0
    /\ call[c].pc = "attach" => call[c].read = row /\ row.exists /\ row.enabled
SeqInv ==
    ~overlapped => /\ OneAtATime
                   /\ (\A c \in Calls : ~InProgress(c)) => Settled
                   /\ \A c \in Calls : Progress(c)

(* A lone call carries the registry from one row to the next.              *)
LEMMA SeqByAPI ==
  ASSUME Types, SeqInv, NEW c \in Calls,
         (\E op \in Ops : BeginCall(c, op)) \/ APIStep(c)
  PROVE  SeqInv'
<1> SUFFICES ASSUME ~overlapped' PROVE /\ OneAtATime'
                                       /\ (\A d \in Calls : ~InProgress(d)') => Settled'
                                       /\ \A d \in Calls : Progress(d)'
  BY DEF SeqInv
<1>1. call \in [Calls -> CallStates] /\ worker \in [Workers -> WorkerRecords] /\ call[c] \in CallStates
  BY DEF Types
<1>2. ~overlapped
  BY DEF APIStep, BeginCall, WriteRow, Detach, Stop, ReadRow, Attach, EraseRow
<1>3. /\ OneAtATime
      /\ (\A d \in Calls : ~InProgress(d)) => Settled
      /\ \A d \in Calls : Progress(d)
  BY <1>2 DEF SeqInv
<1>4. \A d \in Calls : d # c => call'[d] = call[d]
  BY <1>1 DEF APIStep, BeginCall, WriteRow, Detach, Stop, ReadRow, Attach, EraseRow
<1>5. \A d \in Calls : d # c => ~InProgress(d)
  <2>1. CASE \E op \in Ops : BeginCall(c, op)
    BY <2>1 DEF BeginCall
  <2>2. CASE APIStep(c)
    <3>1. InProgress(c)
      BY <2>2 DEF InProgress, APIStep, WriteRow, Detach, Stop, ReadRow, Attach, EraseRow
    <3> QED BY <1>3, <3>1 DEF OneAtATime
  <2> QED BY <2>1, <2>2
<1>6. \A d \in Calls : d # c => ~InProgress(d)' /\ Progress(d)'
  BY <1>4, <1>5 DEF InProgress, Progress
<1>7. OneAtATime'
  BY <1>6 DEF OneAtATime
<1>8. (~InProgress(c)' => Settled') /\ Progress(c)'
  <2>1. ASSUME NEW op \in Ops, BeginCall(c, op) PROVE (~InProgress(c)' => Settled') /\ Progress(c)'
    <3>1. call'[c].pc \in {"write", "detach"} /\ UNCHANGED <<row, registry, worker, failed>>
      BY <1>1, <2>1 DEF BeginCall, CallStates
    <3>2. ~InProgress(c)
      BY <2>1 DEF BeginCall, InProgress
    <3>3. Settled
      BY <1>3, <1>5, <3>2
    <3> QED BY <3>1, <3>3 DEF Settled, Matches, Progress, InProgress
  <2>2. CASE WriteRow(c)
    <3>1. CASE call'[c].pc = "detach"
      BY <3>1 DEF InProgress, Progress
    <3>2. CASE call'[c].pc = "done" /\ failed' = "lost"
      BY <3>2 DEF Settled, Progress
    <3>3. CASE call'[c].pc = "done" /\ row' = row /\ failed' = failed
      <4>1. Settled /\ UNCHANGED <<row, registry, worker, failed>>
        BY <1>3, <2>2, <3>3 DEF WriteRow, Progress
      <4> QED BY <3>3, <4>1 DEF Settled, Matches, Progress
    <3>4. \/ call' = [call EXCEPT ![c].pc = "detach"]
          \/ /\ call' = [call EXCEPT ![c].pc = "done"]
             /\ \/ failed' = "lost"
                \/ row' = row /\ failed' = failed
      BY <2>2 DEF WriteRow
    <3>5. /\ call' = [call EXCEPT ![c].pc = "detach"] => call'[c].pc = "detach"
          /\ call' = [call EXCEPT ![c].pc = "done"] => call'[c].pc = "done"
      BY <1>1 DEF CallStates
    <3> QED BY <3>1, <3>2, <3>3, <3>4, <3>5
  <2>3. CASE Detach(c)
    <3>1. call'[c].pc = "stop" /\ registry' = 0
      BY <1>1, <2>3 DEF Detach, CallStates
    <3> QED BY <3>1 DEF InProgress, Progress
  <2>4. CASE Stop(c)
    <3>1. call'[c].pc \in {"erase", "get"} /\ registry' = registry /\ call[c].pc = "stop"
      BY <1>1, <2>4 DEF Stop, CallStates
    <3> QED BY <1>3, <3>1 DEF InProgress, Progress
  <2>5. CASE ReadRow(c)
    <3>1. registry = 0 /\ UNCHANGED <<registry, row>>
      BY <1>3, <2>5 DEF ReadRow, Progress
    <3>2. CASE row.exists /\ row.enabled /\ call' = [call EXCEPT ![c] = [@ EXCEPT !.read = row, !.pc = "attach"]]
      <4>1. call'[c].pc = "attach" /\ call'[c].read = row
        BY <1>1, <3>2 DEF CallStates
      <4> QED BY <3>1, <3>2, <4>1 DEF InProgress, Progress
    <3>3. CASE /\ call' = [call EXCEPT ![c].pc = "done"]
               /\ (~(row.exists /\ row.enabled) /\ failed' = "none") \/ failed' = "missed"
      <4>1. call'[c].pc = "done"
        BY <1>1, <3>3 DEF CallStates
      <4> QED BY <3>1, <3>3, <4>1 DEF Settled, Matches, InProgress, Progress
    <3> QED BY <2>5, <3>2, <3>3 DEF ReadRow
  <2>6. CASE Attach(c)
    <3>1. call'[c].pc = "done" /\ row' = row /\ failed' = "none"
      BY <1>1, <2>6 DEF Attach, CallStates
    <3>2. registry = 0 /\ call[c].read = row /\ row.exists /\ row.enabled
      BY <1>3, <2>6 DEF Attach, Progress
    <3>3. PICK w \in Workers : /\ registry' = w
                               /\ worker' = [worker EXCEPT ![w] = NewWorker(call[c].read.ver)]
      BY <2>6, <3>2 DEF Attach
    <3>4. row.ver \in Nat
      BY DEF Types, RowStates
    <3>5. registry' # 0 /\ worker'[registry'].ver = row.ver
      BY <1>1, <3>2, <3>3, <3>4, WorkersFacts, NewWorkerType
    <3> QED BY <3>1, <3>2, <3>5 DEF Settled, Matches, Progress
  <2>7. CASE EraseRow(c)
    <3>1. /\ call'[c].pc = "done" /\ registry' = registry
          /\ (~row'.exists /\ failed' = "none") \/ failed' = "missed"
      BY <1>1, <2>7 DEF EraseRow, CallStates, Types, RowStates
    <3>2. registry = 0
      BY <1>3, <2>7 DEF EraseRow, Progress
    <3> QED BY <3>1, <3>2 DEF Settled, Matches, Progress
  <2> QED BY <2>1, <2>2, <2>3, <2>4, <2>5, <2>6, <2>7 DEF APIStep
<1> QED BY <1>6, <1>7, <1>8

(* Workers touch neither the row nor the registry.                         *)
LEMMA SeqByWorkers ==
  ASSUME Types, SeqInv, NEW w \in Workers, WorkerStep(w)
  PROVE  SeqInv'
<1>1. UNCHANGED <<row, call, registry, overlapped, failed>>
  BY WorkerFrame
<1>2. PICK r : Becomes(w, r)
  BY WorkerFrame DEF Changes
<1>3. \A v \in Workers : worker'[v].ver = worker[v].ver
  BY <1>2 DEF Becomes, Types
<1>4. registry # 0 => worker'[registry].ver = worker[registry].ver
  BY <1>3 DEF Types
<1>5. Settled' <=> Settled
  BY <1>1, <1>4 DEF Settled, Matches
<1> QED BY <1>1, <1>5 DEF SeqInv, OneAtATime, Progress, InProgress

(* API calls that follow one another leave the worker the row asks for,    *)
(* however sessions, tickers and back-offs run meanwhile (ingest.go:66);   *)
(* one that fails half-way leaves no worker, and the next that gets        *)
(* through repairs it.                                                     *)
THEOREM SequentialCalls == Spec => []SequentialCallsMatch
<1>1. Init => SeqInv
  <2> SUFFICES ASSUME Init PROVE SeqInv
    OBVIOUS
  <2>1. \A c \in Calls : call[c].pc = "idle"
    BY DEF Init, NoCall
  <2>2. worker[1] = NewWorker(1) /\ registry = 1 /\ row.ver = 1 /\ row.exists /\ row.enabled
    BY WorkersFacts DEF Init
  <2>3. worker[registry].ver = row.ver /\ registry # 0
    <3>1. 1 \in Nat
      OBVIOUS
    <3>2. NewWorker(1).ver = 1
      BY <3>1, NewWorkerType
    <3> QED BY <2>2, <3>2
  <2>4. Settled
    BY <2>2, <2>3 DEF Init, Settled, Matches
  <2> QED BY <2>1, <2>4 DEF SeqInv, OneAtATime, Progress, InProgress
<1>2. Types /\ SeqInv /\ [Next]_vars => SeqInv'
  <2>1. SeqInv /\ UNCHANGED vars => SeqInv'
    BY DEF SeqInv, OneAtATime, Settled, Matches, Progress, InProgress, vars
  <2> QED BY <2>1, SeqByAPI, SeqByWorkers DEF Next, WorkerStep
<1>3. SeqInv => SequentialCallsMatch
  BY DEF SeqInv, Settled, Matches, SequentialCallsMatch, RegistryMatchesRow
<1> QED BY TypesKept, <1>1, <1>2, <1>3, PTL DEF Spec

----------------------------------------------------------------------------
(* The gaps of a camera nobody has edited. While worker 1 is registered,   *)
(* it is alone, no call has got as far as stopping it, and every write to  *)
(* the gap rows is its own.                                                *)

GapInv ==
    /\ worker[1].pc # "none"
    /\ registry = 1 =>
         /\ row.exists /\ ~worker[1].cancelled
         /\ \A c \in Calls : call[c].pc \in {"idle", "write", "detach", "done"}
         /\ \A w \in Workers : w # 1 => worker[w].pc = "none"
         /\ ~gapFailed => /\ worker[1].pc = "backoff" => gap # 0
                          /\ worker[1].pc = "wait" => gap = 0

(* A call that touches the gap, or the first worker, ends its              *)
(* registration.                                                           *)
LEMMA GapByAPI ==
  ASSUME Types, GapInv, NEW c \in Calls,
         (\E op \in Ops : BeginCall(c, op)) \/ APIStep(c)
  PROVE  GapInv'
<1>1. /\ call \in [Calls -> CallStates] /\ worker \in [Workers -> WorkerRecords] /\ call[c] \in CallStates
      /\ 1 \in Workers /\ worker[1] \in WorkerRecords
  BY WorkersFacts DEF Types
<1>2. CASE \E op \in Ops : BeginCall(c, op)
  <2>1. UNCHANGED <<row, registry, worker, gap, gapFailed>> /\ call'[c].pc \in {"write", "detach"}
    <3>1. PICK op \in Ops : BeginCall(c, op)
      BY <1>2
    <3> QED BY <1>1, <3>1 DEF BeginCall, CallStates
  <2>2. \A d \in Calls : d # c => call'[d] = call[d]
    BY <1>1, <1>2 DEF BeginCall
  <2> QED BY <2>1, <2>2 DEF GapInv
<1>3. CASE WriteRow(c)
  <2>0. row'.exists = row.exists
    <3>1. Written(c).exists = row.exists
      BY DEF Written, Types, RowStates
    <3> QED BY <1>3, <3>1 DEF WriteRow
  <2>1. UNCHANGED <<registry, worker, gap, gapFailed>> /\ call'[c].pc \in {"detach", "done"}
    BY <1>1, <1>3 DEF WriteRow, CallStates
  <2>2. \A d \in Calls : d # c => call'[d] = call[d]
    BY <1>1, <1>3 DEF WriteRow
  <2> QED BY <2>0, <2>1, <2>2 DEF GapInv
<1>4. CASE Detach(c)
  BY <1>4 DEF Detach, GapInv
<1>5. CASE Stop(c) \/ ReadRow(c) \/ EraseRow(c)
  <2>1. registry # 1 /\ registry' = registry
    BY <1>5 DEF Stop, ReadRow, EraseRow, GapInv
  <2>2. worker'[1].pc # "none"
    <3>1. CASE worker' = worker
      BY <3>1 DEF GapInv
    <3>2. CASE worker' = [worker EXCEPT ![call[c].old].cancelled = TRUE]
      BY <1>1, <3>2 DEF GapInv, WorkerRecords
    <3> QED BY <1>5, <3>1, <3>2 DEF Stop, ReadRow, EraseRow
  <2> QED BY <2>1, <2>2 DEF GapInv
<1>6. CASE Attach(c)
  <2>1. registry # 1
    BY <1>6 DEF Attach, GapInv
  <2>2. registry' # 1 /\ worker'[1] = worker[1]
    BY <1>1, <1>6, <2>1 DEF Attach, GapInv
  <2> QED BY <2>2 DEF GapInv
<1> QED BY <1>2, <1>3, <1>4, <1>5, <1>6 DEF APIStep

(* The first worker's session opens and closes the gap.                    *)
LEMMA GapByWorkers ==
  ASSUME Types, GapInv, NEW w \in Workers, WorkerStep(w)
  PROVE  GapInv'
<1>1. UNCHANGED <<row, call, registry>> /\ worker \in [Workers -> WorkerRecords] /\ 1 \in Workers
  BY WorkerFrame, WorkersFacts DEF Types
<1>2. PICK r : Becomes(w, r)
  BY WorkerFrame DEF Changes
<1>3. worker'[w] = r /\ \A v \in Workers : v # w => worker'[v] = worker[v]
  BY <1>1, <1>2 DEF Becomes
<1>4. r.cancelled = worker[w].cancelled /\ (r.pc = "none" <=> worker[w].pc = "none")
  BY <1>2 DEF Becomes, PCs
<1>5. worker'[1].pc # "none"
  <2>1. worker[1].pc # "none"
    BY DEF GapInv
  <2>2. CASE w = 1
    BY <1>3, <1>4, <2>1, <2>2
  <2>3. CASE w # 1
    BY <1>1, <1>3, <2>1, <2>3
  <2> QED BY <2>2, <2>3
<1>6. CASE registry # 1
  BY <1>1, <1>5, <1>6 DEF GapInv
<1>7. CASE registry = 1 /\ w # 1
  <2>1. worker[w].pc = "none"
    BY <1>7 DEF GapInv
  <2>2. gap' = gap /\ gapFailed' = gapFailed
    BY <2>1 DEF WorkerStep, Session, Play, MarkUp, CloseGaps, DialFails, SessionOver, OpenGap,
       BackoffOver, ConnectionEnds, Tick, TickerStops, WorkerEnds, Goto
  <2> QED BY <1>1, <1>3, <1>4, <1>5, <1>7, <2>1, <2>2 DEF GapInv
<1>8. CASE registry = 1 /\ w = 1
  <2>1. row.exists
    BY <1>8 DEF GapInv
  <2>2. ~gapFailed' => (worker'[1].pc = "backoff" => gap' # 0) /\ (worker'[1].pc = "wait" => gap' = 0)
    <3>1. CASE OpenGap(1)
      BY <1>1, <2>1, <3>1 DEF OpenGap, Goto, Types, WorkerRecords
    <3>2. CASE CloseGaps(1)
      BY <1>1, <3>2 DEF CloseGaps, Goto, Types, WorkerRecords
    <3>3. CASE ~OpenGap(1) /\ ~CloseGaps(1)
      <4>1. gap' = gap /\ gapFailed' = gapFailed
        BY <1>8, <3>3 DEF WorkerStep, Session, Play, MarkUp, DialFails, SessionOver,
           BackoffOver, ConnectionEnds, Tick, TickerStops, WorkerEnds
      <4>2. worker'[1].pc \in {"backoff", "wait"} => worker'[1].pc = worker[1].pc
        <5>1. worker[1] \in WorkerRecords
          BY <1>1
        <5>2. CASE Play(1) \/ DialFails(1) \/ BackoffOver(1) \/ ConnectionEnds(1)
          BY <1>1, <5>1, <5>2 DEF Play, DialFails, BackoffOver, ConnectionEnds, Goto, WorkerRecords
        <5>3. CASE MarkUp(1) \/ WorkerEnds(1)
          <6>1. \/ worker' = [worker EXCEPT ![1] = [worker[1] EXCEPT !.pc = "marked", !.up = TRUE]]
                \/ worker' = [worker EXCEPT ![1] = [worker[1] EXCEPT !.pc = "gone", !.tick = "none", !.status = "offline"]]
            BY <5>3 DEF MarkUp, WorkerEnds
          <6>2. \/ worker'[1] = [worker[1] EXCEPT !.pc = "marked", !.up = TRUE]
                \/ worker'[1] = [worker[1] EXCEPT !.pc = "gone", !.tick = "none", !.status = "offline"]
            BY <1>1, <6>1
          <6>3. worker'[1].pc \in {"marked", "gone"}
            BY <5>1, <6>2 DEF WorkerRecords
          <6> QED BY <6>3
        <5>4. CASE SessionOver(1)
          <6>1. worker'[1].pc \in {"returned", "down"}
            <7>1. CASE worker[1].cancelled
              BY <1>1, <5>1, <5>4, <7>1 DEF SessionOver, WorkerRecords
            <7>2. CASE ~worker[1].cancelled
              <8>1. worker' = [worker EXCEPT ![1] = [worker[1] EXCEPT !.pc = "down", !.up = FALSE]]
                BY <5>4, <7>2 DEF SessionOver
              <8>2. worker'[1] = [worker[1] EXCEPT !.pc = "down", !.up = FALSE]
                BY <1>1, <8>1
              <8> QED BY <5>1, <8>2 DEF WorkerRecords
            <7> QED BY <7>1, <7>2
          <6> QED BY <6>1
        <5>5. CASE Tick(1) \/ TickerStops(1)
          <6>1. worker'[1].pc = worker[1].pc
            <7>1. CASE Tick(1)
              BY <1>1, <5>1, <7>1 DEF Tick, WorkerRecords
            <7>2. CASE TickerStops(1)
              BY <1>1, <5>1, <7>2 DEF TickerStops, WorkerRecords
            <7> QED BY <5>5, <7>1, <7>2
          <6> QED BY <6>1
        <5> QED BY <1>8, <3>3, <5>2, <5>3, <5>4, <5>5 DEF WorkerStep, Session
      <4> QED BY <1>8, <4>1, <4>2 DEF GapInv
    <3> QED BY <3>1, <3>2, <3>3
  <2> QED BY <1>1, <1>3, <1>4, <1>5, <1>8, <2>2 DEF GapInv
<1> QED BY <1>6, <1>7, <1>8

(* While nobody has edited the camera, a gap row is open whenever its      *)
(* worker backs off and none is open while it streams, but for the time    *)
(* after a failed statement (docs/05-ingest-streaming.md:41).              *)
THEOREM GapsAreKept == Spec => []GapsFollowTheStream
<1>1. Init => GapInv
  <2> SUFFICES ASSUME Init PROVE GapInv
    OBVIOUS
  <2>1. worker[1] = NewWorker(1) /\ \A w \in Workers : w # 1 => worker[w] = Unborn
    BY WorkersFacts DEF Init
  <2>2. NewWorker(1).pc = "dial" /\ ~NewWorker(1).cancelled /\ Unborn.pc = "none"
    BY NewWorkerType, UnbornType
  <2>3. \A c \in Calls : call[c].pc = "idle"
    BY DEF Init, NoCall
  <2> QED BY <2>1, <2>2, <2>3 DEF Init, GapInv
<1>2. Types /\ GapInv /\ [Next]_vars => GapInv'
  <2>1. GapInv /\ UNCHANGED vars => GapInv'
    BY DEF GapInv, vars
  <2> QED BY <2>1, GapByAPI, GapByWorkers DEF Next, WorkerStep
<1>3. GapInv => GapsFollowTheStream
  BY DEF GapInv, GapsFollowTheStream, Undisturbed
<1> QED BY TypesKept, <1>1, <1>2, <1>3, PTL DEF Spec

----------------------------------------------------------------------------
(* The rest of the type invariant: a worker is up exactly while its        *)
(* session plays, and a version is one that some call wrote.               *)

InSession(r) ==
    /\ r.pc \in {"marked", "wait"} => r.up
    /\ r.pc \in {"dial", "played", "down", "backoff"} => ~r.up
    /\ r.pc \in {"returned", "gone"} => r.cancelled

(* Each edit that has written its row counts once.                         *)
Wrote == {c \in Calls : call[c].pc \notin {"idle", "write"}}
Versions ==
    /\ row.ver >= 1 /\ row.ver <= Cardinality(Wrote) + 1
    /\ \A c \in Calls : call[c].read.ver <= row.ver
    /\ \A w \in Workers : worker[w].ver <= row.ver

TypeInv ==
    /\ Types /\ Versions
    /\ \A w \in Workers : InSession(worker[w])
    /\ status \in {"online", "offline"} /\ connects \in 0 .. MaxConnects

(* A step of a worker keeps what its record says of its session.           *)
LEMMA SessionKept ==
  ASSUME Types, NEW w \in Workers, InSession(worker[w]), WorkerStep(w)
  PROVE  InSession(worker'[w])
<1>1. worker \in [Workers -> WorkerRecords] /\ worker[w] \in WorkerRecords
  BY DEF Types
<1> DEFINE r == worker[w]
<1>2. ASSUME NEW to \in PCs, worker' = [worker EXCEPT ![w].pc = to],
             to = "wait" => r.up, to \in {"dial", "played", "down", "backoff"} => ~r.up,
             to = "returned" => r.cancelled, to \notin {"marked", "gone"}
      PROVE  InSession(worker'[w])
  <2>1. worker'[w] = [r EXCEPT !.pc = to]
    BY <1>1, <1>2
  <2>2. worker'[w].pc = to /\ worker'[w].up = r.up /\ worker'[w].cancelled = r.cancelled
    BY <1>1, <2>1 DEF WorkerRecords
  <2> QED BY <1>2, <2>2 DEF InSession
<1>3. CASE Play(w) \/ CloseGaps(w) \/ DialFails(w) \/ OpenGap(w) \/ BackoffOver(w) \/ ConnectionEnds(w)
  BY <1>2, <1>3 DEF Play, CloseGaps, DialFails, OpenGap, BackoffOver, ConnectionEnds, Goto, PCs, InSession
<1>4. CASE MarkUp(w)
  <2>1. worker' = [worker EXCEPT ![w] = [r EXCEPT !.pc = "marked", !.up = TRUE]]
    BY <1>4 DEF MarkUp
  <2>2. worker'[w].pc = "marked" /\ worker'[w].up = TRUE
    BY <1>1, <2>1 DEF WorkerRecords
  <2> QED BY <2>2 DEF InSession
<1>5. CASE SessionOver(w)
  <2>1. CASE r.cancelled
    BY <1>2, <1>5, <2>1 DEF SessionOver, PCs
  <2>2. CASE ~r.cancelled
    <3>1. worker' = [worker EXCEPT ![w] = [r EXCEPT !.pc = "down", !.up = FALSE]]
      BY <1>5, <2>2 DEF SessionOver
    <3>2. worker'[w].pc = "down" /\ worker'[w].up = FALSE
      BY <1>1, <3>1 DEF WorkerRecords
    <3> QED BY <3>2 DEF InSession
  <2> QED BY <2>1, <2>2
<1>6. CASE Tick(w) \/ TickerStops(w)
  <2>1. worker'[w].pc = r.pc /\ worker'[w].up = r.up /\ worker'[w].cancelled = r.cancelled
    <3>1. CASE Tick(w)
      BY <1>1, <3>1 DEF Tick, WorkerRecords
    <3>2. CASE TickerStops(w)
      BY <1>1, <3>2 DEF TickerStops, WorkerRecords
    <3> QED BY <1>6, <3>1, <3>2
  <2> QED BY <2>1 DEF InSession
<1>7. CASE WorkerEnds(w)
  <2>1. worker' = [worker EXCEPT ![w] = [r EXCEPT !.pc = "gone", !.tick = "none", !.status = "offline"]]
    BY <1>7 DEF WorkerEnds
  <2>2. worker'[w].pc = "gone" /\ worker'[w].cancelled = r.cancelled
    BY <1>1, <2>1 DEF WorkerRecords
  <2>3. r.cancelled
    BY <1>7 DEF WorkerEnds, InSession
  <2> QED BY <2>2, <2>3 DEF InSession
<1> QED BY <1>3, <1>4, <1>5, <1>6, <1>7 DEF WorkerStep, Session

LEMMA TypeInvByWorkers ==
  ASSUME TypeInv, NEW w \in Workers, WorkerStep(w)
  PROVE  TypeInv'
<1>1. Types' /\ UNCHANGED <<row, call, registry, overlapped, failed>>
  BY WorkerTypes, WorkerFrame DEF TypeInv
<1>2. PICK r : Becomes(w, r)
  BY WorkerFrame DEF TypeInv, Changes
<1>3. worker'[w] = r /\ r.ver = worker[w].ver /\ \A v \in Workers : v # w => worker'[v] = worker[v]
  BY <1>2 DEF Becomes, TypeInv, Types
<1>4. Versions'
  BY <1>1, <1>3 DEF TypeInv, Versions, Wrote
<1>5. \A v \in Workers : InSession(worker'[v])
  BY <1>3, SessionKept DEF TypeInv
<1>6. connects' \in 0 .. MaxConnects
  BY IngestAssumption DEF TypeInv, WorkerStep, Session, Play, MarkUp, CloseGaps, DialFails, SessionOver,
     OpenGap, BackoffOver, ConnectionEnds, Tick, TickerStops, WorkerEnds
<1>7. status' \in {"online", "offline"}
  <2>1. worker[w].status \in {"online", "offline"} /\ status \in {"online", "offline"}
    BY DEF TypeInv, Types, WorkerRecords
  <2> QED BY <2>1 DEF WorkerStep, Session, Play, MarkUp, CloseGaps, DialFails, SessionOver, OpenGap,
             BackoffOver, ConnectionEnds, Tick, TickerStops, WorkerEnds
<1> QED BY <1>1, <1>4, <1>5, <1>6, <1>7 DEF TypeInv

(* Only an edit raises the version, once, as it enters Wrote.              *)
LEMMA VersionsByAPI ==
  ASSUME TypeInv, NEW c \in Calls, (\E op \in Ops : BeginCall(c, op)) \/ APIStep(c)
  PROVE  Versions'
<1>0. /\ call \in [Calls -> CallStates] /\ call[c] \in CallStates /\ row \in RowStates
      /\ worker \in [Workers -> WorkerRecords] /\ Versions
      /\ IsFiniteSet(Calls) /\ IsFiniteSet(Wrote) /\ Wrote \subseteq Calls
      /\ Cardinality(Wrote) \in Nat /\ row.ver \in Nat
  <2>1. Wrote \subseteq Calls
    BY DEF Wrote
  <2>2. IsFiniteSet(Wrote) /\ Cardinality(Wrote) \in Nat
    BY <2>1, IngestAssumption, FS_Subset, FS_CardinalityType
  <2> QED BY <2>1, <2>2, IngestAssumption DEF TypeInv, Types, RowStates
<1>1. \A d \in Calls : d # c => call'[d] = call[d]
  BY <1>0 DEF APIStep, BeginCall, WriteRow, Detach, Stop, ReadRow, Attach, EraseRow
<1>2. ASSUME row'.ver = row.ver, c \in Wrote \/ c \in Wrote', call'[c].read \in {call[c].read, row},
             call'[c].pc \notin {"idle", "write"},
             \A w \in Workers : worker'[w].ver \in {worker[w].ver, call[c].read.ver}
      PROVE  Versions'
  <2>1. Wrote' = Wrote \cup {c}
    BY <1>1, <1>2 DEF Wrote
  <2>2. IsFiniteSet(Wrote') /\ Cardinality(Wrote') \in Nat /\ Cardinality(Wrote) <= Cardinality(Wrote')
    <3>1. IsFiniteSet(Wrote')
      BY <1>0, <2>1, FS_AddElement
    <3> QED BY <2>1, <3>1, FS_Subset, FS_CardinalityType
  <2>3. \A d \in Calls : call'[d].read.ver <= row.ver
    BY <1>0, <1>1, <1>2 DEF Versions
  <2>4. \A w \in Workers : worker'[w].ver <= row.ver
    BY <1>2, <1>0 DEF Versions
  <2>5. row.ver >= 1 /\ row.ver <= Cardinality(Wrote) + 1
    BY <1>0 DEF Versions
  <2>6. row.ver <= Cardinality(Wrote') + 1
    BY <1>0, <2>2, <2>5
  <2> QED BY <1>2, <2>3, <2>4, <2>5, <2>6 DEF Versions
<1>3. ASSUME NEW op \in Ops, BeginCall(c, op) PROVE Versions'
  <2>1. /\ call'[c].pc = (IF op = "delete" THEN "detach" ELSE "write")
        /\ call'[c].read = call[c].read /\ row' = row /\ worker' = worker
    BY <1>0, <1>3 DEF BeginCall, CallStates
  <2>2. CASE op = "delete"
    BY <1>2, <2>1, <2>2 DEF Wrote
  <2>3. CASE op # "delete"
    <3>1. Wrote' = Wrote
      BY <1>1, <1>3, <2>1, <2>3 DEF Wrote, BeginCall
    <3>2. \A d \in Calls : call'[d].read = call[d].read
      BY <1>1, <2>1
    <3> QED BY <1>0, <2>1, <3>1, <3>2 DEF Versions
  <2> QED BY <2>2, <2>3
<1>4. CASE WriteRow(c)
  <2>1. call'[c].pc \in {"detach", "done"} /\ call'[c].read = call[c].read /\ worker' = worker
    BY <1>0, <1>4 DEF WriteRow, CallStates
  <2>2. row'.ver \in {row.ver, row.ver + 1}
    <3>1. Written(c).ver = IF call[c].op = "edit" THEN row.ver + 1 ELSE row.ver
      <4> DEFINE ver == IF call[c].op = "edit" THEN row.ver + 1 ELSE row.ver
                 enabled == CASE call[c].op = "enable" -> TRUE
                              [] call[c].op = "disable" -> FALSE
                              [] OTHER -> row.enabled
      <4>1. Written(c) = [row EXCEPT !.ver = ver, !.enabled = enabled]
        BY DEF Written
      <4> HIDE DEF ver, enabled
      <4>2. Written(c).ver = ver
        BY <1>0, <4>1 DEF RowStates
      <4> QED BY <4>2 DEF ver
    <3> QED BY <1>4, <3>1 DEF WriteRow
  <2>3. c \notin Wrote /\ Wrote' = Wrote \cup {c}
    BY <1>1, <1>4, <2>1 DEF Wrote, WriteRow
  <2>4. Cardinality(Wrote') = Cardinality(Wrote) + 1
    BY <1>0, <2>3, FS_AddElement
  <2>5. \A d \in Calls : call'[d].read = call[d].read /\ call[d].read.ver \in Nat
    <3>1. \A d \in Calls : call[d] \in CallStates
      BY <1>0
    <3> QED BY <1>1, <2>1, <3>1 DEF CallStates, RowStates
  <2>6. \A w \in Workers : worker[w].ver \in Nat
    BY <1>0 DEF WorkerRecords
  <2>7. /\ row.ver >= 1 /\ row.ver <= Cardinality(Wrote) + 1
        /\ \A d \in Calls : call[d].read.ver <= row.ver
        /\ \A w \in Workers : worker[w].ver <= row.ver
    BY <1>0 DEF Versions
  <2>8. row'.ver >= 1 /\ row'.ver <= Cardinality(Wrote') + 1
    BY <1>0, <2>2, <2>4, <2>7
  <2>9. \A d \in Calls : call'[d].read.ver <= row'.ver
    BY <1>0, <2>2, <2>5, <2>7
  <2>10. \A w \in Workers : worker'[w].ver <= row'.ver
    BY <1>0, <2>1, <2>2, <2>6, <2>7
  <2> QED BY <2>8, <2>9, <2>10 DEF Versions
<1>5. CASE Detach(c)
  <2>1. call'[c].pc = "stop" /\ call'[c].read = call[c].read /\ row' = row /\ worker' = worker
    BY <1>0, <1>5 DEF Detach, CallStates
  <2> QED BY <1>2, <2>1 DEF Wrote
<1>6. CASE Stop(c)
  <2>1. call'[c].pc \in {"erase", "get"} /\ call'[c].read = call[c].read /\ row' = row
    BY <1>0, <1>6 DEF Stop, CallStates
  <2>2. \A w \in Workers : worker'[w].ver = worker[w].ver
    BY <1>0, <1>6 DEF Stop, WorkerRecords
  <2> QED BY <1>2, <2>1, <2>2 DEF Wrote
<1>7. CASE ReadRow(c)
  <2>1. call'[c].pc \in {"attach", "done"} /\ call'[c].read \in {call[c].read, row} /\ row' = row /\ worker' = worker
    <3>1. \/ call' = [call EXCEPT ![c] = [call[c] EXCEPT !.read = row, !.pc = "attach"]]
          \/ call' = [call EXCEPT ![c] = [call[c] EXCEPT !.pc = "done"]]
      BY <1>7 DEF ReadRow
    <3>2. \/ call'[c] = [call[c] EXCEPT !.read = row, !.pc = "attach"]
          \/ call'[c] = [call[c] EXCEPT !.pc = "done"]
      BY <1>0, <3>1
    <3> QED BY <1>0, <1>7, <3>2 DEF ReadRow, CallStates
  <2> QED BY <1>2, <2>1 DEF Wrote
<1>8. CASE Attach(c)
  <2>1. call'[c].pc = "done" /\ call'[c].read = call[c].read /\ row' = row
    BY <1>0, <1>8 DEF Attach, CallStates
  <2>2. call[c].read.ver \in Nat
    BY <1>0 DEF CallStates, RowStates
  <2>3. \A w \in Workers : worker'[w] \in {worker[w], NewWorker(call[c].read.ver)}
    BY <1>0, <1>8 DEF Attach
  <2>4. \A w \in Workers : worker'[w].ver \in {worker[w].ver, call[c].read.ver}
    BY <2>2, <2>3, NewWorkerType
  <2> QED BY <1>2, <2>1, <2>4 DEF Wrote
<1>9. CASE EraseRow(c)
  <2>1. call'[c].pc = "done" /\ call'[c].read = call[c].read /\ worker' = worker /\ row'.ver = row.ver
    BY <1>0, <1>9 DEF EraseRow, CallStates, RowStates
  <2>2. Wrote' = Wrote
    BY <1>1, <1>9, <2>1 DEF Wrote, EraseRow
  <2>3. \A d \in Calls : call'[d].read = call[d].read
    BY <1>1, <2>1
  <2> QED BY <1>0, <2>1, <2>2, <2>3 DEF Versions
<1> QED BY <1>3, <1>4, <1>5, <1>6, <1>7, <1>8, <1>9 DEF APIStep

LEMMA TypeInvByAPI ==
  ASSUME TypeInv, NEW c \in Calls, (\E op \in Ops : BeginCall(c, op)) \/ APIStep(c)
  PROVE  TypeInv'
<1>0. worker \in [Workers -> WorkerRecords] /\ call[c] \in CallStates /\ Types
  BY DEF TypeInv, Types
<1>1. Types' /\ Versions'
  BY <1>0, APITypes, VersionsByAPI
<1>2. UNCHANGED <<status, connects>>
  BY DEF APIStep, BeginCall, WriteRow, Detach, Stop, ReadRow, Attach, EraseRow
<1>3. \A w \in Workers : InSession(worker'[w])
  <2>1. CASE worker' = worker
    BY <2>1 DEF TypeInv
  <2>2. CASE Stop(c)
    <3>1. \A w \in Workers : /\ worker'[w].pc = worker[w].pc /\ worker'[w].up = worker[w].up
                             /\ worker[w].cancelled => worker'[w].cancelled
      <4>1. CASE worker' = worker
        BY <4>1
      <4>2. CASE worker' = [worker EXCEPT ![call[c].old].cancelled = TRUE]
        <5> SUFFICES ASSUME NEW w \in Workers
                     PROVE  /\ worker'[w].pc = worker[w].pc /\ worker'[w].up = worker[w].up
                            /\ worker[w].cancelled => worker'[w].cancelled
          OBVIOUS
        <5>1. CASE w = call[c].old
          BY <1>0, <4>2, <5>1 DEF WorkerRecords
        <5>2. CASE w # call[c].old
          <6>1. worker'[w] = worker[w]
            BY <1>0, <4>2, <5>2
          <6> QED BY <6>1
        <5> QED BY <5>1, <5>2
      <4> QED BY <2>2, <4>1, <4>2 DEF Stop
    <3> QED BY <3>1 DEF InSession, TypeInv
  <2>3. CASE Attach(c)
    <3>1. call[c].read.ver \in Nat
      BY <1>0 DEF CallStates, RowStates
    <3>2. \A w \in Workers : worker'[w] \in {worker[w], NewWorker(call[c].read.ver)}
      BY <1>0, <2>3 DEF Attach
    <3>3. InSession(NewWorker(call[c].read.ver))
      BY <3>1, NewWorkerType DEF NewWorker, Unborn, InSession
    <3> QED BY <3>2, <3>3 DEF TypeInv
  <2> QED BY <2>1, <2>2, <2>3 DEF APIStep, BeginCall, WriteRow, Detach, ReadRow, EraseRow
<1> QED BY <1>1, <1>2, <1>3 DEF TypeInv

(* A worker counts as up exactly while its session plays and its loop      *)
(* returns only after it was stopped, and no configuration runs that no    *)
(* call has written (ingest/worker.go:79).                                 *)
THEOREM WellTyped == Spec => []TypeOK
<1>1. Init => TypeInv
  <2> SUFFICES ASSUME Init PROVE TypeInv
    OBVIOUS
  <2>1. Types /\ Cardinality(Calls) \in Nat
    BY InitTypes, IngestAssumption, FS_CardinalityType
  <2>2. row.ver = 1 /\ Wrote = {} /\ \A c \in Calls : call[c].read.ver = 0
    BY DEF Init, NoCall, Wrote
  <2>3. \A w \in Workers : worker[w] \in {NewWorker(1), Unborn}
    BY DEF Init
  <2>4. 1 \in Nat /\ Cardinality({}) = 0
    BY FS_EmptySet
  <2>5. NewWorker(1).ver = 1 /\ Unborn.ver = 0 /\ InSession(NewWorker(1)) /\ InSession(Unborn)
    BY <2>4, NewWorkerType DEF NewWorker, Unborn, InSession
  <2>6. Versions
    BY <2>2, <2>3, <2>4, <2>5 DEF Versions
  <2> QED BY <2>1, <2>3, <2>5, <2>6, IngestAssumption DEF Init, TypeInv
<1>2. TypeInv /\ [Next]_vars => TypeInv'
  <2>1. TypeInv /\ UNCHANGED vars => TypeInv'
    BY DEF TypeInv, Types, Versions, Wrote, vars
  <2> QED BY <2>1, TypeInvByAPI, TypeInvByWorkers DEF Next, WorkerStep
<1>3. TypeInv => TypeOK
  <2> SUFFICES ASSUME TypeInv PROVE TypeOK
    OBVIOUS
  <2>1. Cardinality(Wrote) <= Cardinality(Calls) /\ Cardinality(Wrote) \in Nat /\ Cardinality(Calls) \in Nat
    <3>1. Wrote \subseteq Calls
      BY DEF Wrote
    <3> QED BY <3>1, IngestAssumption, FS_Subset, FS_CardinalityType
  <2>2. row.ver \in 1 .. Cardinality(Calls) + 1
    <3>1. row.ver \in Nat
      BY DEF TypeInv, Types, RowStates
    <3> QED BY <2>1, <3>1 DEF TypeInv, Versions
  <2>3. row \in [exists : BOOLEAN, enabled : BOOLEAN, ver : 1 .. Cardinality(Calls) + 1]
    BY <2>2 DEF TypeInv, Types, RowStates
  <2>4. worker \in [Workers -> WorkerStates]
    <3> SUFFICES ASSUME NEW w \in Workers PROVE worker[w] \in WorkerStates
      BY DEF TypeInv, Types
    <3>1. worker[w] \in WorkerRecords /\ worker[w].ver <= row.ver
      BY DEF TypeInv, Types, Versions
    <3>2. worker[w].ver \in 0 .. Cardinality(Calls) + 1
      BY <2>1, <2>2, <3>1 DEF WorkerRecords
    <3> QED BY <3>1, <3>2 DEF WorkerRecords, WorkerStates
  <2>5. \A c \in Calls :
         /\ call[c].op \in Ops \cup {"none"}
         /\ call[c].pc \in {"idle", "write", "detach", "stop", "get", "attach", "erase", "done"}
         /\ call[c].old \in {0} \cup Workers
    BY DEF TypeInv, Types, CallStates
  <2> QED BY <2>3, <2>4, <2>5 DEF TypeInv, Types, TypeOK, InSession
<1> QED BY <1>1, <1>2, <1>3, PTL DEF Spec
=============================================================================
