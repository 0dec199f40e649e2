-------------------------------- MODULE Export --------------------------------
(***************************************************************************)
(* Clip exports (export/export.go, api/export_handlers.go): a request      *)
(* counts the user's active exports, inserts a row and starts a job; jobs  *)
(* take one of a few slots, read the row, mark it processing, concatenate  *)
(* the segments, run ffmpeg and write the outcome. All of a job's database *)
(* calls share one context with a deadline. A restart forgets the jobs and *)
(* keeps the rows; nothing looks at rows left behind.                      *)
(***************************************************************************)
EXTENDS Naturals, FiniteSets

CONSTANTS
    Requests,   \* POST /exports requests; each makes at most one row
    Users,
    Slots,      \* Worker.sem's capacity
    MaxTroubles \* bound: database errors, deadlines missed, restarts (not a
                \* request's statement that fails without effect)

ASSUME ExportAssumption == IsFiniteSet(Requests) /\ Slots \in Nat \ {0} /\ MaxTroubles \in Nat

VARIABLES
    request,  \* per request: [pc, user]
    exports,  \* per request: its row's status, "none" before the insert
    job,      \* per request: its goroutine's place
    expired,  \* jobs whose context has passed its deadline
    sem,      \* Worker.sem: the jobs holding a slot
    file,     \* exports/<id>.mp4: "none", "partial" or "complete"
    excused,  \* history: rows that a failed call or a restart left behind
    raced,    \* history: users with two requests in Enqueue at once
    troubles  \* database errors, deadlines and restarts so far

exportVars == <<request, exports, job, expired, sem, file, excused, raced, troubles>>

Active(r) == exports[r] \in {"pending", "processing"}
Enqueuing(r) == request[r].pc \in {"count", "insert"}
InSlot(r) == job[r] \in {"load", "mark", "copy", "remux", "finish", "fail"}

----------------------------------------------------------------------------
(* Enqueue.                                                                *)

CreateExport(r, u) ==
    /\ request[r].pc = "idle"
    /\ request' = [request EXCEPT ![r] = [pc |-> "count", user |-> u]]
    /\ raced' = IF \E q \in Requests : Enqueuing(q) /\ request[q].user = u THEN raced \cup {u} ELSE raced
    /\ UNCHANGED <<exports, job, expired, sem, file, excused, troubles>>

(* A request is refused if the user has an active export, or if the count  *)
(* fails.                                                                  *)
(* Mutant: exports that wait for a slot are not counted.                   *)
CountProcessing(r) ==
    /\ request[r].pc = "count"
    /\ request' = [request EXCEPT ![r].pc =
                     IF \E q \in Requests : request[q].user = request[r].user /\ exports[q] = "processing"
                     THEN "refused" ELSE "insert"]
    /\ UNCHANGED <<exports, job, expired, sem, file, excused, raced, troubles>>
CountActive(r) ==
    /\ request[r].pc = "count"
    /\ \/ /\ \A q \in Requests : request[q].user = request[r].user => ~Active(q)
          /\ request' = [request EXCEPT ![r].pc = "insert"]
       \/ request' = [request EXCEPT ![r].pc = "refused"]
    /\ UNCHANGED <<exports, job, expired, sem, file, excused, raced, troubles>>

(* The insert works and starts the job; or it fails; or its answer is      *)
(* lost, which leaves a pending row that no job will ever see ("gone").    *)
InsertExport(r) ==
    /\ request[r].pc = "insert"
    /\ \/ /\ request' = [request EXCEPT ![r].pc = "accepted"]
          /\ exports' = [exports EXCEPT ![r] = "pending"]
          /\ job' = [job EXCEPT ![r] = "queued"]
          /\ UNCHANGED <<excused, troubles>>
       \/ /\ request' = [request EXCEPT ![r].pc = "refused"]
          /\ UNCHANGED <<exports, job, excused, troubles>>
       \/ /\ troubles < MaxTroubles /\ troubles' = troubles + 1
          /\ request' = [request EXCEPT ![r].pc = "refused"]
          /\ exports' = [exports EXCEPT ![r] = "pending"]
          /\ job' = [job EXCEPT ![r] = "gone"]
          /\ excused' = excused \cup {r}
    /\ UNCHANGED <<expired, sem, file, raced>>

----------------------------------------------------------------------------
(* process.                                                                *)

Acquire(r) ==
    /\ job[r] = "queued" /\ Cardinality(sem) < Slots
    /\ sem' = sem \cup {r}
    /\ job' = [job EXCEPT ![r] = "load"]
    /\ UNCHANGED <<request, exports, expired, file, excused, raced, troubles>>

(* The job's next database call fails: its deadline has passed, or the     *)
(* database does.                                                          *)
CallFails(r) ==
    \/ r \in expired /\ UNCHANGED troubles
    \/ r \notin expired /\ troubles < MaxTroubles /\ troubles' = troubles + 1

JobEnds(r) == job' = [job EXCEPT ![r] = "gone"] /\ sem' = sem \ {r}

(* Get fails: the job returns, without a word to the row.                  *)
(* Mutant: and without giving the slot back.                               *)
LoadFailsKeepingSlot(r) ==
    /\ job[r] = "load" /\ CallFails(r)
    /\ job' = [job EXCEPT ![r] = "gone"]
    /\ excused' = excused \cup {r}
    /\ UNCHANGED <<request, exports, expired, sem, file, raced>>
LoadFails(r) ==
    /\ job[r] = "load" /\ CallFails(r)
    /\ JobEnds(r)
    /\ excused' = excused \cup {r}
    /\ UNCHANGED <<request, exports, expired, file, raced>>

Load(r) ==
    /\ job[r] = "load" /\ r \notin expired
    /\ job' = [job EXCEPT ![r] = "mark"]
    /\ UNCHANGED <<request, exports, expired, sem, file, excused, raced, troubles>>

(* setStatus(processing); a failure is only logged.                        *)
MarkProcessing(r) ==
    /\ job[r] = "mark"
    /\ \/ r \notin expired /\ exports' = [exports EXCEPT ![r] = "processing"] /\ UNCHANGED troubles
       \/ CallFails(r) /\ UNCHANGED exports
    /\ job' = [job EXCEPT ![r] = "copy"]
    /\ UNCHANGED <<request, expired, sem, file, excused, raced>>

(* Segments, the init segment, the temporary file. Any of it may fail, and *)
(* fails for sure after the deadline.                                      *)
CopySegments(r) ==
    /\ job[r] = "copy"
    /\ \/ r \notin expired /\ job' = [job EXCEPT ![r] = "remux"]
       \/ job' = [job EXCEPT ![r] = "fail"]
    /\ UNCHANGED <<request, exports, expired, sem, file, excused, raced, troubles>>

(* ffmpeg writes the artifact; killed at the deadline it leaves a part.    *)
(* Mutant: its exit status is not looked at.                               *)
RemuxUnchecked(r) ==
    /\ job[r] = "remux"
    /\ \/ r \notin expired /\ file' = [file EXCEPT ![r] = "complete"]
       \/ file' = [file EXCEPT ![r] = "partial"]
    /\ job' = [job EXCEPT ![r] = "finish"]
    /\ UNCHANGED <<request, exports, expired, sem, excused, raced, troubles>>
Remux(r) ==
    /\ job[r] = "remux"
    /\ \/ /\ r \notin expired
          /\ file' = [file EXCEPT ![r] = "complete"] /\ job' = [job EXCEPT ![r] = "finish"]
       \/ file' = [file EXCEPT ![r] = "partial"] /\ job' = [job EXCEPT ![r] = "fail"]
    /\ UNCHANGED <<request, exports, expired, sem, excused, raced, troubles>>

(* setStatus(done) or, from fail, setStatus(failed), with the job's own    *)
(* context: after the deadline the row keeps its old status.               *)
Outcome(r) == IF job[r] = "finish" THEN "done" ELSE "failed"
SetOutcome(r) ==
    /\ job[r] \in {"finish", "fail"}
    /\ \/ r \notin expired /\ exports' = [exports EXCEPT ![r] = Outcome(r)] /\ UNCHANGED <<excused, troubles>>
       \/ CallFails(r) /\ excused' = excused \cup {r} /\ UNCHANGED exports
    /\ JobEnds(r)
    /\ UNCHANGED <<request, expired, file, raced>>

Deadline(r) ==
    /\ InSlot(r) /\ r \notin expired /\ troubles < MaxTroubles
    /\ expired' = expired \cup {r}
    /\ troubles' = troubles + 1
    /\ UNCHANGED <<request, exports, job, sem, file, excused, raced>>

JobStep(r) ==
    Acquire(r) \/ Load(r) \/ LoadFails(r) \/ MarkProcessing(r) \/ CopySegments(r) \/ Remux(r) \/ SetOutcome(r)

(* The daemon restarts: requests and jobs are gone, rows and files stay.   *)
ExportRestart ==
    /\ troubles < MaxTroubles
    /\ troubles' = troubles + 1
    /\ excused' = excused \cup {r \in Requests : Active(r)}
    /\ request' = [r \in Requests |-> IF Enqueuing(r) THEN [request[r] EXCEPT !.pc = "refused"] ELSE request[r]]
    /\ job' = [r \in Requests |-> IF job[r] = "none" THEN "none" ELSE "gone"]
    /\ sem' = {}
    /\ UNCHANGED <<exports, expired, file, raced>>

----------------------------------------------------------------------------
ExportInit ==
    /\ request \in [Requests -> [pc : {"idle"}, user : Users]]
    /\ exports = [r \in Requests |-> "none"]
    /\ job = [r \in Requests |-> "none"]
    /\ expired = {} /\ sem = {} /\ excused = {} /\ raced = {}
    /\ file = [r \in Requests |-> "none"]
    /\ troubles = 0

ExportNext ==
    \/ \E r \in Requests : \/ CreateExport(r, request[r].user)
                           \/ CountActive(r) \/ InsertExport(r) \/ JobStep(r) \/ Deadline(r)
    \/ ExportRestart

(* A job's goroutine runs on; nothing need go wrong.                       *)
ExportFairness == \A r \in Requests : WF_exportVars(JobStep(r))

ExportSpec == ExportInit /\ [][ExportNext]_exportVars /\ ExportFairness

----------------------------------------------------------------------------
(* Properties.                                                             *)

ExportTypeOK ==
    /\ request \in [Requests -> [pc : {"idle", "count", "insert", "accepted", "refused"}, user : Users]]
    /\ exports \in [Requests -> {"none", "pending", "processing", "done", "failed"}]
    /\ job \in [Requests -> {"none", "queued", "load", "mark", "copy", "remux", "finish", "fail", "gone"}]
    /\ sem = {r \in Requests : InSlot(r)} /\ Cardinality(sem) <= Slots
    /\ expired \subseteq Requests /\ excused \subseteq Requests /\ raced \subseteq Users
    /\ file \in [Requests -> {"none", "partial", "complete"}]
    /\ troubles \in 0 .. MaxTroubles

(* export.go:26: a user whose requests do not overlap has one active       *)
(* export at a time. (Two that overlap both count none: raced.)            *)
ExportOnePerUser ==
    \A u \in Users \ raced : Cardinality({r \in Requests : request[r].user = u /\ Active(r)}) <= 1

(* What downloadExport serves, a row that is done, is a complete file; and *)
(* a row without a running job is final, or excused.                       *)
ExportDoneIsComplete ==
    \A r \in Requests :
        /\ exports[r] = "done" => file[r] = "complete"
        /\ Active(r) /\ job[r] = "gone" => r \in excused

(* Whatever fails: one active export for a user, no slot lost, and no      *)
(* artifact served that is not complete.                                   *)
ExportSafe == ExportTypeOK /\ ExportOnePerUser /\ ExportDoneIsComplete

(* Every accepted export comes to its end, done or failed, whatever goes   *)
(* wrong with the segments: unless the deadline, a database error or a     *)
(* restart leaves its row behind (ExportAlwaysEnds: that is for ever, and  *)
(* the user's next requests are refused for ever).                         *)
ExportEnds ==
    \A r \in Requests : exports[r] = "pending" ~> exports[r] \in {"done", "failed"} \/ r \in excused
ExportAlwaysEnds ==
    \A r \in Requests : exports[r] = "pending" ~> exports[r] \in {"done", "failed"}
===============================================================================
