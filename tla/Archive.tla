------------------------------ MODULE Archive ------------------------------
(***************************************************************************)
(* The recording archive of one camera: segment files on local disk,      *)
(* segment objects in S3, and the recording_segments index that says       *)
(* which segments exist and in which tier each of them is.                 *)
(*                                                                         *)
(* Five actors work on it without a lock or a transaction in common:       *)
(*   - a flush goroutine per segment    (record/recorder.go)               *)
(*   - the retention janitor            (record/janitor.go)                *)
(*   - the tierer                       (record/tiering.go)                *)
(*   - the camera-delete API handler    (api/camera_handlers.go)           *)
(*   - whoever pins and unpins segments (events manager, API)              *)
(* Every action below is one statement sent to the database or one call of *)
(* a storage backend, so anything may happen between two of them.          *)
(*                                                                         *)
(* A segment is named by its start time, one segment per unit of time, and *)
(* every segment counts one unit of bytes.                                 *)
(***************************************************************************)
EXTENDS Integers, FiniteSets

CONSTANTS
    N,           \* bound: segments 1 .. N may be recorded
    Horizon,     \* bound: the clock stops here
    Retention,   \* camera.retention_days, 0 = keep forever
    Budget,      \* camera.retention_gb, 0 = no budget
    TierAfter,   \* camera.tier_after_days, 0 = S3 tiering off
    ListLimit,   \* rows a janitor listing returns at most (500)
    TierLimit,   \* rows a tierer listing returns at most (100)
    Deletable,   \* may an administrator delete the camera?
    Faults,      \* how a call may fail, see LocalOutcome and RemoteOutcome
    MaxCrashes   \* bound: how often the daemon is killed and restarted

ASSUME BoundsAssumption == N \in Nat /\ Horizon \in Nat /\ MaxCrashes \in Nat
ASSUME PolicyAssumption ==
    /\ Retention \in Nat /\ Budget \in Nat /\ TierAfter \in Nat
    /\ ListLimit \in Nat /\ TierLimit \in Nat
    /\ Deletable \in BOOLEAN
ASSUME FaultsAssumption == Faults \subseteq {"error", "lost"}

Segments == 1 .. N
Tiers    == {"local", "s3"}
Listing  == [Segments -> Tiers \cup {"none"}]
Nothing  == [s \in Segments |-> "none"]

VARIABLES
    now,        \* the wall clock
    flush,      \* per segment: where its flush goroutine is
    storage,    \* the index: the storage column, "none" = no row
    pinned,     \* the index: rows with protected = true
    localFiles, \* segments with a file on local disk
    s3Objects,  \* segments with an object in the bucket
    removed,    \* history: objects the janitor or a camera delete removed
    janPc,      \* janitor: control point
    janPass,    \* janitor: the pass it is in, by age or by size
    janListed,  \* janitor: rows still to evict, with the tier it read
    janOver,    \* janitor: units over budget when it measured
    tierPc,     \* tierer: control point
    tierTodo,   \* tierer: rows still to tier
    camPc,      \* camera-delete handler: control point, "gone" = row deleted
    camListed,  \* camera-delete handler: rows whose objects are to be deleted
    crashes     \* number of crashes so far

indexVars == <<storage, pinned>>
objVars   == <<localFiles, s3Objects, removed>>
janVars   == <<janPc, janPass, janListed, janOver>>
tierVars  == <<tierPc, tierTodo>>
camVars   == <<camPc, camListed>>
vars == <<now, flush, indexVars, objVars, janVars, tierVars, camVars, crashes>>

----------------------------------------------------------------------------
(* Outcomes of calls, and small helpers.                                   *)

(* A call either works, or reports an error without having had an effect.  *)
LocalOutcome == {"ok"} \cup (Faults \cap {"error"})
(* A call over the network may also have its effect and still report an    *)
(* error: the statement committed and the answer was lost.                 *)
RemoteOutcome == {"ok"} \cup Faults
Effective(o) == o # "error"

Indexed(s) == storage[s] # "none"
Without(listing, s) == [listing EXCEPT ![s] = "none"]
Members(listing) == {s \in Segments : listing[s] # "none"}
Oldest(s, S) == s \in S /\ \A t \in S : s <= t
(* ORDER BY start_ts LIMIT n *)
First(S, n) == {s \in S : Cardinality({t \in S : t < s}) < n}
(* What a query returns of the rows it selects. *)
Select(S) == [s \in Segments |-> IF s \in S THEN storage[s] ELSE "none"]

Expired(s)  == Retention > 0 /\ s + Retention < now
(* Mutant: pinned segments are not tiered.                                 *)
TierableUnpinned(s) ==
    TierAfter > 0 /\ s + TierAfter < now /\ storage[s] = "local" /\ s \notin pinned
Tierable(s) == TierAfter > 0 /\ s + TierAfter < now /\ storage[s] = "local"
LocalUsage  == Cardinality({s \in Segments : storage[s] = "local"})
(* Mutants: the listing forgets NOT protected; it lists the local tier only. *)
EvictablePinnedToo == {s \in Segments : Indexed(s)}
EvictableLocalOnly == {s \in Segments : storage[s] = "local" /\ s \notin pinned}
Evictable   == {s \in Segments : Indexed(s) /\ s \notin pinned}

DropRow(s) == /\ storage' = Without(storage, s)
              /\ pinned'  = pinned \ {s}
DropAllRows == /\ storage' = Nothing
               /\ pinned'  = {}

(* Backend.Delete of the tier t: deleting a missing object is a success.   *)
DeleteObject(s, t) ==
    /\ localFiles' = IF t = "local" THEN localFiles \ {s} ELSE localFiles
    /\ s3Objects'  = IF t = "s3"    THEN s3Objects \ {s}  ELSE s3Objects
    /\ removed'    = removed \cup {s}

----------------------------------------------------------------------------
(* The recorder.                                                           *)

(* Time passes and, if the camera delivers video, the segment that starts  *)
(* now is cut and handed to a flush goroutine. The worker of a camera that *)
(* is being deleted, or is deleted, may still be recording: stop() only    *)
(* cancels a context its session does not watch.                           *)
Tick ==
    /\ now < Horizon
    /\ now' = now + 1
    /\ \/ now + 1 \in Segments /\ flush' = [flush EXCEPT ![now + 1] = "put"]
       \/ flush' = flush
    /\ UNCHANGED <<indexVars, objVars, janVars, tierVars, camVars, crashes>>

(* Local.Put writes a temporary file and renames it: all or nothing.       *)
FlushPut(s) ==
    /\ flush[s] = "put"
    /\ \E o \in LocalOutcome :
         /\ localFiles' = IF o = "ok" THEN localFiles \cup {s} ELSE localFiles
         /\ flush' = [flush EXCEPT ![s] = IF o = "ok" THEN "index" ELSE "failed"]
    /\ UNCHANGED <<now, indexVars, s3Objects, removed, janVars, tierVars,
                   camVars, crashes>>

(* The insert fails on the foreign key once the camera row is gone.        *)
FlushIndex(s) ==
    /\ flush[s] = "index"
    /\ \E o \in RemoteOutcome :
         LET inserted == Effective(o) /\ camPc # "gone" IN
         /\ storage' = IF inserted THEN [storage EXCEPT ![s] = "local"]
                                   ELSE storage
         /\ flush' = [flush EXCEPT ![s] =
                        IF inserted /\ o = "ok" THEN "done" ELSE "rollback"]
    /\ UNCHANGED <<now, pinned, objVars, janVars, tierVars, camVars, crashes>>

(* marshalAndFlush ignores what the delete of the object returns.          *)
FlushRollback(s) ==
    /\ flush[s] = "rollback"
    /\ \E o \in LocalOutcome :
         localFiles' = IF o = "ok" THEN localFiles \ {s} ELSE localFiles
    /\ flush' = [flush EXCEPT ![s] = "failed"]
    /\ UNCHANGED <<now, indexVars, s3Objects, removed, janVars, tierVars,
                   camVars, crashes>>

Flush(s) == FlushPut(s) \/ FlushIndex(s) \/ FlushRollback(s)

----------------------------------------------------------------------------
(* Pins: the events manager and POST /segments/protect pin a range of      *)
(* rows, DELETE /segments/{id}/protect unpins one.                         *)

Protect ==
    \E a, b \in Segments :
      /\ a <= b
      /\ pinned' = pinned \cup {s \in a .. b : Indexed(s)}
      /\ UNCHANGED <<now, flush, storage, objVars, janVars, tierVars, camVars,
                     crashes>>

Unprotect(s) ==
    /\ s \in pinned
    /\ pinned' = pinned \ {s}
    /\ UNCHANGED <<now, flush, storage, objVars, janVars, tierVars, camVars,
                   crashes>>

----------------------------------------------------------------------------
(* The janitor. A sweep is a pass by age, then a pass by size; each pass   *)
(* lists rows once and works through its own copy of the list.             *)

(* Start a sweep: list the rows past the retention age. If the listing     *)
(* fails, the age pass is over.                                            *)
JanitorListExpired ==
    /\ janPc = "idle" /\ camPc # "gone"
    /\ janPass' = "age" /\ janPc' = "evict"
    /\ \E o \in LocalOutcome :
         janListed' = IF o = "ok"
                      THEN Select({s \in First(Evictable, ListLimit) : Expired(s)})
                      ELSE Nothing
    /\ UNCHANGED <<now, flush, indexVars, objVars, janOver, tierVars, camVars,
                   crashes>>

(* Mutant: the size pass frees everything it measured, not the excess.     *)
JanitorMeasureAll ==
    /\ janPc = "evict" /\ janPass = "age" /\ Members(janListed) = {}
    /\ janOver' = IF Budget > 0 THEN LocalUsage ELSE 0
    /\ janPc'   = IF janOver' > 0 THEN "list" ELSE "idle"
    /\ UNCHANGED <<now, flush, indexVars, objVars, janPass, janListed, tierVars,
                   camVars, crashes>>

(* Age pass over: sum the local bytes, and go on only if over budget.      *)
JanitorMeasure ==
    /\ janPc = "evict" /\ janPass = "age" /\ Members(janListed) = {}
    /\ \E o \in LocalOutcome :
         LET over == LocalUsage - Budget
             go   == o = "ok" /\ Budget > 0 /\ over > 0 IN
         /\ janOver' = IF go THEN over ELSE 0
         /\ janPc'   = IF go THEN "list" ELSE "idle"
    /\ UNCHANGED <<now, flush, indexVars, objVars, janPass, janListed, tierVars,
                   camVars, crashes>>

(* The size pass takes the oldest rows until their sizes add up to janOver. *)
JanitorListOver ==
    /\ janPc = "list"
    /\ janPass' = "size" /\ janPc' = "evict"
    /\ \E o \in LocalOutcome :
         janListed' = IF o = "ok"
                      THEN Select(First(First(Evictable, ListLimit), janOver))
                      ELSE Nothing
    /\ UNCHANGED <<now, flush, indexVars, objVars, janOver, tierVars, camVars,
                   crashes>>

(* Delete the object in the tier the listing named; on an error leave the  *)
(* row for a later sweep.                                                  *)
JanitorDeleteObject(s) ==
    /\ janPc = "evict" /\ Oldest(s, Members(janListed))
    /\ \E o \in RemoteOutcome :
         /\ IF Effective(o) THEN DeleteObject(s, janListed[s])
                            ELSE UNCHANGED objVars
         /\ janPc' = IF o = "ok" THEN "row" ELSE "evict"
         /\ janListed' = IF o = "ok" THEN janListed ELSE Without(janListed, s)
    /\ UNCHANGED <<now, flush, indexVars, janPass, janOver, tierVars, camVars,
                   crashes>>

(* DELETE ... WHERE id: whatever has become of the row since the listing.  *)
JanitorDeleteRow(s) ==
    /\ janPc = "row" /\ Oldest(s, Members(janListed))
    /\ \E o \in RemoteOutcome :
         IF Effective(o) THEN DropRow(s) ELSE UNCHANGED indexVars
    /\ janPc' = "evict"
    /\ janListed' = Without(janListed, s)
    /\ UNCHANGED <<now, flush, objVars, janPass, janOver, tierVars, camVars,
                   crashes>>

JanitorDone ==
    /\ janPc = "evict" /\ janPass = "size" /\ Members(janListed) = {}
    /\ janPc' = "idle" /\ janOver' = 0
    /\ UNCHANGED <<now, flush, indexVars, objVars, janPass, janListed, tierVars,
                   camVars, crashes>>

Janitor ==
    \/ JanitorListExpired \/ JanitorMeasure \/ JanitorListOver \/ JanitorDone
    \/ \E s \in Segments : JanitorDeleteObject(s) \/ JanitorDeleteRow(s)

----------------------------------------------------------------------------
(* The tierer: tierOne for each listed segment, oldest first.              *)

TierList ==
    /\ tierPc = "idle" /\ camPc # "gone"
    /\ tierTodo' = First({s \in Segments : Tierable(s)}, TierLimit)
    /\ tierPc' = IF tierTodo' = {} THEN "idle" ELSE "open"
    /\ UNCHANGED <<now, flush, indexVars, objVars, janVars, camVars, crashes>>

(* tierOne of s returns, with or without an error: go on with the next.    *)
TierNext(s) ==
    /\ tierTodo' = tierTodo \ {s}
    /\ tierPc' = IF tierTodo' = {} THEN "idle" ELSE "open"

(* From here on the tierer holds an open file: it can upload the bytes     *)
(* even if the file is unlinked meanwhile.                                 *)
TierOpen(s) ==
    /\ tierPc = "open" /\ Oldest(s, tierTodo)
    /\ \E o \in LocalOutcome :
         IF o = "ok" /\ s \in localFiles
         THEN tierPc' = "upload" /\ tierTodo' = tierTodo
         ELSE TierNext(s)
    /\ UNCHANGED <<now, flush, indexVars, objVars, janVars, camVars, crashes>>

TierUpload(s) ==
    /\ tierPc = "upload" /\ Oldest(s, tierTodo)
    /\ \E o \in RemoteOutcome :
         /\ s3Objects' = IF Effective(o) THEN s3Objects \cup {s} ELSE s3Objects
         /\ IF o = "ok" THEN tierPc' = "stat" /\ tierTodo' = tierTodo
                        ELSE TierNext(s)
    /\ UNCHANGED <<now, flush, indexVars, localFiles, removed, janVars, camVars,
                   crashes>>

TierStat(s) ==
    /\ tierPc = "stat" /\ Oldest(s, tierTodo)
    /\ \E o \in LocalOutcome :
         IF o = "ok" /\ s \in s3Objects
         THEN tierPc' = "mark" /\ tierTodo' = tierTodo
         ELSE TierNext(s)
    /\ UNCHANGED <<now, flush, indexVars, objVars, janVars, camVars, crashes>>

(* Mutants: the local copy goes even if the row could not be updated; the  *)
(* local copy is forgotten once the row says s3.                           *)
TierMarkIgnoringError(s) ==
    /\ tierPc = "mark" /\ Oldest(s, tierTodo)
    /\ \E o \in RemoteOutcome :
         storage' = IF Effective(o) /\ Indexed(s)
                    THEN [storage EXCEPT ![s] = "s3"] ELSE storage
    /\ tierPc' = "unlink" /\ tierTodo' = tierTodo
    /\ UNCHANGED <<now, flush, pinned, objVars, janVars, camVars, crashes>>
TierMarkLast(s) ==
    /\ tierPc = "mark" /\ Oldest(s, tierTodo)
    /\ storage' = IF Indexed(s) THEN [storage EXCEPT ![s] = "s3"] ELSE storage
    /\ TierNext(s)
    /\ UNCHANGED <<now, flush, pinned, objVars, janVars, camVars, crashes>>

(* An UPDATE that finds no row is a success.                               *)
TierMark(s) ==
    /\ tierPc = "mark" /\ Oldest(s, tierTodo)
    /\ \E o \in RemoteOutcome :
         /\ storage' = IF Effective(o) /\ Indexed(s)
                       THEN [storage EXCEPT ![s] = "s3"] ELSE storage
         /\ IF o = "ok" THEN tierPc' = "unlink" /\ tierTodo' = tierTodo
                        ELSE TierNext(s)
    /\ UNCHANGED <<now, flush, pinned, objVars, janVars, camVars, crashes>>

TierUnlink(s) ==
    /\ tierPc = "unlink" /\ Oldest(s, tierTodo)
    /\ \E o \in LocalOutcome :
         localFiles' = IF o = "ok" THEN localFiles \ {s} ELSE localFiles
    /\ TierNext(s)
    /\ UNCHANGED <<now, flush, indexVars, s3Objects, removed, janVars, camVars,
                   crashes>>

Tierer ==
    \/ TierList
    \/ \E s \in Segments : \/ TierOpen(s) \/ TierUpload(s) \/ TierStat(s)
                           \/ TierMark(s) \/ TierUnlink(s)

----------------------------------------------------------------------------
(* DELETE /cameras/{id}, with or without delete_recordings.                *)

(* Without delete_recordings the handler goes straight to the camera row.  *)
DeleteCamera ==
    /\ Deletable /\ camPc = "idle"
    /\ camPc' \in {"rows", "objects"}
    /\ UNCHANGED <<now, flush, indexVars, objVars, janVars, tierVars, camListed,
                   crashes>>

(* DELETE ... RETURNING: on an error no object is deleted.                 *)
CamDeleteRows ==
    /\ camPc = "rows"
    /\ camPc' = "objects"
    /\ \E o \in RemoteOutcome :
         /\ IF Effective(o) THEN DropAllRows ELSE UNCHANGED indexVars
         /\ camListed' = IF o = "ok" THEN storage ELSE Nothing
    /\ UNCHANGED <<now, flush, objVars, janVars, tierVars, crashes>>

CamDeleteObject(s) ==
    /\ camPc = "objects" /\ camListed[s] # "none"
    /\ \E o \in RemoteOutcome :
         IF Effective(o) THEN DeleteObject(s, camListed[s]) ELSE UNCHANGED objVars
    /\ camListed' = Without(camListed, s)
    /\ UNCHANGED <<now, flush, indexVars, janVars, tierVars, camPc, crashes>>

(* The foreign key cascades to the segment rows. On an error the handler   *)
(* answers 500 and the camera stays.                                       *)
CamDeleteCamera ==
    /\ camPc = "objects" /\ Members(camListed) = {}
    /\ \E o \in RemoteOutcome :
         IF Effective(o) THEN camPc' = "gone" /\ DropAllRows
                         ELSE camPc' = "idle" /\ UNCHANGED indexVars
    /\ UNCHANGED <<now, flush, objVars, janVars, tierVars, camListed, crashes>>

CameraDelete ==
    CamDeleteRows \/ CamDeleteCamera \/ \E s \in Segments : CamDeleteObject(s)

----------------------------------------------------------------------------
(* The daemon is killed and restarts: files, objects and rows survive, the *)
(* goroutines and what they had listed do not.                             *)
Crash ==
    /\ crashes < MaxCrashes
    /\ crashes' = crashes + 1
    /\ flush' = [s \in Segments |->
                   IF flush[s] \in {"put", "index", "rollback"} THEN "failed"
                                                                ELSE flush[s]]
    /\ janPc' = "idle" /\ janPass' = "age" /\ janListed' = Nothing /\ janOver' = 0
    /\ tierPc' = "idle" /\ tierTodo' = {}
    /\ camPc' = IF camPc = "gone" THEN "gone" ELSE "idle"
    /\ camListed' = Nothing
    /\ UNCHANGED <<now, indexVars, objVars>>

----------------------------------------------------------------------------
Init ==
    /\ now = 0
    /\ flush = Nothing
    /\ storage = Nothing /\ pinned = {}
    /\ localFiles = {} /\ s3Objects = {} /\ removed = {}
    /\ janPc = "idle" /\ janPass = "age" /\ janListed = Nothing /\ janOver = 0
    /\ tierPc = "idle" /\ tierTodo = {}
    /\ camPc = "idle" /\ camListed = Nothing
    /\ crashes = 0

Next ==
    \/ Tick
    \/ \E s \in Segments : Flush(s)
    \/ Protect
    \/ \E s \in Segments : Unprotect(s)
    \/ Janitor
    \/ Tierer
    \/ DeleteCamera
    \/ CameraDelete
    \/ Crash

(* Tickers and goroutines keep running; nothing obliges a user to pin,     *)
(* unpin or delete, a camera to deliver video, or the daemon to crash.     *)
Fairness ==
    /\ WF_vars(Tick)
    /\ \A s \in Segments : WF_vars(Flush(s))
    /\ WF_vars(Janitor)
    /\ WF_vars(Tierer)
    /\ WF_vars(CameraDelete)

Spec == Init /\ [][Next]_vars
FairSpec == Spec /\ Fairness

----------------------------------------------------------------------------
(* Properties.                                                             *)

FlushPc == {"none", "put", "index", "rollback", "done", "failed"}

(* Types, with the links between a control point and its data: only rows   *)
(* can be pinned, and the tierer has a segment in hand unless it is idle.   *)
TypeOK ==
    /\ now \in 0 .. Horizon
    /\ flush \in [Segments -> FlushPc]
    /\ storage \in Listing
    /\ pinned \subseteq Members(storage)
    /\ localFiles \subseteq Segments
    /\ s3Objects \subseteq Segments
    /\ removed \subseteq Segments
    /\ janPc \in {"idle", "evict", "row", "list"}
    /\ janPass \in {"age", "size"}
    /\ janListed \in Listing
    /\ janOver \in Nat
    /\ tierPc \in {"idle", "open", "upload", "stat", "mark", "unlink"}
    /\ tierTodo \subseteq Segments
    /\ tierPc = "idle" <=> tierTodo = {}
    /\ camPc \in {"idle", "rows", "objects", "gone"}
    /\ camListed \in Listing
    /\ crashes \in 0 .. MaxCrashes

(* Whatever happens between the steps of the flush, the tierer and the     *)
(* janitor, and whichever call fails: an indexed segment that was flushed  *)
(* without an error, and that nobody set out to delete, can be played from *)
(* the tier its row names (tiering.go "verifies size, flips the index row, *)
(* then deletes the local copy").                                          *)
ObjectIn(s, t) == IF t = "local" THEN s \in localFiles ELSE s \in s3Objects
RowsBacked ==
    \A s \in Segments :
        Indexed(s) /\ flush[s] = "done" /\ s \notin removed
            => ObjectIn(s, storage[s])

(* While the camera exists and no call fails or crash happens, every file  *)
(* on the local disk is accounted for: its row says local, its flush is    *)
(* not over, or the tierer is about to unlink it. Without it the disk      *)
(* fills with files no retention rule reaches.                             *)
LocalFilesOwned ==
    crashes = 0 =>
        \A s \in localFiles :
            \/ storage[s] = "local"
            \/ flush[s] \in {"index", "rollback"}
            \/ tierPc = "unlink" /\ Oldest(s, tierTodo)

(* A pin placed before a sweep lists its rows is honoured by that sweep    *)
(* and by every later one: a pinned segment that is not on the janitor's   *)
(* list stays off it, and keeps its row and its object, unless the camera  *)
(* is being deleted.                                                       *)
Kept(s) == /\ janListed'[s] = "none"
           /\ storage'[s] # "none"
           /\ s \in removed' => s \in removed
PinHolds ==
    [][\A s \in pinned : janListed[s] = "none" /\ camPc = "idle" => Kept(s)]_vars

(* The janitor removes a segment only if it is past the retention age, or  *)
(* the camera is over its budget at that moment. (For cameras that do not  *)
(* tier: see RetentionPerTier.)                                            *)
EvictionJustified ==
    [][\A s \in Segments :
          s \in removed' \ removed => Expired(s) \/ LocalUsage > Budget]_vars

(* Retention is not only promised but carried out: a segment past its      *)
(* retention age leaves the index unless somebody pins it.                 *)
ExpiredEvicted ==
    \A s \in Segments :
        (Indexed(s) /\ Expired(s) /\ s \notin pinned)
            ~> (~Indexed(s) \/ s \in pinned)

(* A segment old enough to be tiered does not stay on the local disk, even *)
(* across a crash, unless the janitor has deleted its file. (The listing   *)
(* must be longer than the number of rows a crash left without a file:     *)
(* such a row fails to open, and is listed first again in every sweep.)    *)
TieringHappens ==
    \A s \in Segments : Tierable(s) ~> (storage[s] # "local" \/ s \in removed)

(* What the docs promise and the code does not do.                         *)

(* janitor.go:14 "protected segments are never evicted": the listing is    *)
(* taken before the pin, and the delete does not look again.               *)
ProtectedNeverEvicted ==
    [][\A s \in pinned : janPc = "evict" => (s \in removed' => s \in removed)]_vars

(* docs/06-storage.md:85 "a reconcile job (hourly) removes orphans in both *)
(* directions": an object without a row does not stay for ever.            *)
Orphan(s) == ~Indexed(s) /\ (s \in localFiles \/ s \in s3Objects)
OrphansReconciled == \A s \in Segments : Orphan(s) ~> ~Orphan(s)

(* docs/06-storage.md:88 "Retention runs independently per tier": the size *)
(* pass measures the local tier only, yet evicts the oldest rows of any.   *)
RetentionPerTier ==
    [][\A s \in Segments :
          janPass = "size" /\ janPc = "evict" /\ s \in removed' \ removed
            => janListed[s] = "local"]_vars
============================================================================
