--------------------------- MODULE ArchiveProofs ---------------------------
(***************************************************************************)
(* Proofs about Archive, for every N, Horizon, retention policy, set of    *)
(* faults and number of crashes:                                           *)
(*   TypeCorrect      Spec => []TypeOK                                     *)
(*   RowsAreBacked    Spec => []RowsBacked, from the invariant IInv        *)
(*   PinsAreHonoured  Spec => PinHolds, from TypeOK                        *)
(*   FilesAreOwned    Quiet => (Spec => []LocalFilesOwned), from IInv and  *)
(*                    what the janitor's list says of the rows on it       *)
(***************************************************************************)
EXTENDS Archive, TLAPS, FiniteSetTheorems

(* The number of units of a set of segments is a natural number.           *)
LEMMA CountType ==
  ASSUME NEW S \in SUBSET Segments
  PROVE  Cardinality(S) \in Nat
<1>1. IsFiniteSet(Segments)
  BY FS_Interval, BoundsAssumption DEF Segments
<1>2. IsFiniteSet(S)
  BY <1>1, FS_Subset
<1> QED BY <1>2, FS_CardinalityType

(* What a listing is: of any set of rows, with one row taken out, empty.   *)
LEMMA SelectType ==
  ASSUME storage \in Listing, NEW S
  PROVE  Select(S) \in Listing
BY DEF Select, Listing

(* A listing without one of its rows is a listing.                         *)
LEMMA WithoutType ==
  ASSUME NEW L \in Listing, NEW s \in Segments
  PROVE  Without(L, s) \in Listing
BY DEF Without, Listing

(* So is the empty listing.                                                *)
LEMMA NothingType == Nothing \in Listing
BY DEF Nothing, Listing

(* Dropping a row keeps the pins a subset of the rows.                     *)
LEMMA DropRowType ==
  ASSUME storage \in Listing, pinned \subseteq Members(storage),
         NEW s \in Segments, DropRow(s)
  PROVE  storage' \in Listing /\ pinned' \subseteq Members(storage')
BY WithoutType DEF DropRow, Without, Members, Listing

(* DELETE ... RETURNING leaves no row and no pin.                          *)
LEMMA DropAllRowsType ==
  ASSUME DropAllRows
  PROVE  storage' \in Listing /\ pinned' \subseteq Members(storage')
BY NothingType DEF DropAllRows

(* Deleting an object leaves sets of segments.                             *)
LEMMA DeleteObjectType ==
  ASSUME TypeOK, NEW s \in Segments, NEW t, DeleteObject(s, t)
  PROVE  /\ localFiles' \subseteq Segments
         /\ s3Objects' \subseteq Segments
         /\ removed' \subseteq Segments
BY DEF DeleteObject, TypeOK

----------------------------------------------------------------------------
(* Every action keeps TypeOK. *)

(* TypeOK, actor by actor: time and the recorder.                          *)
LEMMA TickType ==
  ASSUME TypeOK, Tick
  PROVE  TypeOK'
BY BoundsAssumption DEF Tick, TypeOK, FlushPc, Segments, Members,
   indexVars, objVars, janVars, tierVars, camVars

(* The flush goroutines.                                                   *)
LEMMA FlushType ==
  ASSUME TypeOK, NEW s \in Segments, Flush(s)
  PROVE  TypeOK'
<1> USE DEF TypeOK, indexVars, objVars, janVars, tierVars, camVars, FlushPc
<1>1. CASE FlushPut(s)
  BY <1>1 DEF FlushPut, Members
<1>2. CASE FlushIndex(s)
  <2>1. storage' \in Listing
    BY <1>2 DEF FlushIndex, Listing, Tiers
  <2>2. pinned' \subseteq Members(storage')
    BY <1>2 DEF FlushIndex, Members, Listing
  <2>3. flush' \in [Segments -> FlushPc]
    BY <1>2 DEF FlushIndex
  <2> QED BY <1>2, <2>1, <2>2, <2>3 DEF FlushIndex
<1>3. CASE FlushRollback(s)
  BY <1>3 DEF FlushRollback, Members
<1> QED BY <1>1, <1>2, <1>3 DEF Flush

(* Whoever pins and unpins.                                                *)
LEMMA PinType ==
  ASSUME TypeOK, Protect \/ \E s \in Segments : Unprotect(s)
  PROVE  TypeOK'
<1> USE DEF TypeOK, objVars, janVars, tierVars, camVars
<1>1. CASE Protect
  <2>1. PICK a \in Segments, b \in Segments :
               pinned' = pinned \cup {r \in a .. b : Indexed(r)}
    BY <1>1 DEF Protect
  <2>2. a .. b \subseteq Segments
    BY BoundsAssumption DEF Segments
  <2>3. pinned' \subseteq Members(storage')
    BY <1>1, <2>1, <2>2 DEF Protect, Members, Indexed
  <2> QED BY <1>1, <2>3 DEF Protect
<1>2. ASSUME NEW s \in Segments, Unprotect(s) PROVE TypeOK'
  BY <1>2 DEF Unprotect, Members
<1> QED BY <1>1, <1>2

(* The janitor.                                                            *)
LEMMA JanitorType ==
  ASSUME TypeOK, Janitor
  PROVE  TypeOK'
<1> USE DEF TypeOK, indexVars, objVars, tierVars, camVars
<1>1. CASE JanitorListExpired
  <2>1. janListed' \in Listing
    BY <1>1, SelectType, NothingType DEF JanitorListExpired
  <2> QED BY <1>1, <2>1 DEF JanitorListExpired, Members
<1>2. CASE JanitorMeasure
  <2>1. LocalUsage \in Nat
    BY CountType DEF LocalUsage
  <2>2. janOver' \in Nat
    BY <1>2, <2>1, PolicyAssumption DEF JanitorMeasure
  <2>3. janPc' \in {"idle", "evict", "row", "list"}
    BY <1>2 DEF JanitorMeasure
  <2> QED BY <1>2, <2>2, <2>3 DEF JanitorMeasure, Members
<1>3. CASE JanitorListOver
  <2>1. janListed' \in Listing
    BY <1>3, SelectType, NothingType DEF JanitorListOver
  <2> QED BY <1>3, <2>1 DEF JanitorListOver, Members
<1>4. CASE JanitorDone
  BY <1>4 DEF JanitorDone, Members
<1>5. ASSUME NEW s \in Segments, JanitorDeleteObject(s) PROVE TypeOK'
  <2>1. /\ localFiles' \subseteq Segments
        /\ s3Objects' \subseteq Segments
        /\ removed' \subseteq Segments
    BY <1>5, DeleteObjectType DEF JanitorDeleteObject
  <2>2. janListed' \in Listing
    BY <1>5, WithoutType DEF JanitorDeleteObject
  <2> QED BY <1>5, <2>1, <2>2 DEF JanitorDeleteObject, Members
<1>6. ASSUME NEW s \in Segments, JanitorDeleteRow(s) PROVE TypeOK'
  <2>1. storage' \in Listing /\ pinned' \subseteq Members(storage')
    BY <1>6, DropRowType DEF JanitorDeleteRow, Members
  <2>2. janListed' \in Listing
    BY <1>6, WithoutType DEF JanitorDeleteRow
  <2> QED BY <1>6, <2>1, <2>2 DEF JanitorDeleteRow
<1> QED BY <1>1, <1>2, <1>3, <1>4, <1>5, <1>6 DEF Janitor

(* The tierer, which is busy exactly while it has segments to do.          *)
LEMMA TiererType ==
  ASSUME TypeOK, Tierer
  PROVE  TypeOK'
<1> USE DEF TypeOK, indexVars, objVars, janVars, camVars
<1>1. CASE TierList
  BY <1>1 DEF TierList, Members, First
<1>2. ASSUME NEW s \in Segments, TierOpen(s) PROVE TypeOK'
  BY <1>2 DEF TierOpen, TierNext, Members
<1>3. ASSUME NEW s \in Segments, TierUpload(s) PROVE TypeOK'
  BY <1>3 DEF TierUpload, TierNext, Members
<1>4. ASSUME NEW s \in Segments, TierStat(s) PROVE TypeOK'
  BY <1>4 DEF TierStat, TierNext, Members
<1>5. ASSUME NEW s \in Segments, TierMark(s) PROVE TypeOK'
  <2>1. storage' \in Listing /\ pinned' \subseteq Members(storage')
    BY <1>5 DEF TierMark, Listing, Tiers, Members, Indexed
  <2>2. tierTodo' \subseteq Segments /\ (tierPc' = "idle" <=> tierTodo' = {})
    BY <1>5 DEF TierMark, TierNext
  <2>3. tierPc' \in {"idle", "open", "upload", "stat", "mark", "unlink"}
    BY <1>5 DEF TierMark, TierNext
  <2> QED BY <1>5, <2>1, <2>2, <2>3 DEF TierMark
<1>6. ASSUME NEW s \in Segments, TierUnlink(s) PROVE TypeOK'
  BY <1>6 DEF TierUnlink, TierNext, Members
<1> QED BY <1>1, <1>2, <1>3, <1>4, <1>5, <1>6 DEF Tierer

(* The camera-delete handler.                                              *)
LEMMA CameraDeleteType ==
  ASSUME TypeOK, DeleteCamera \/ CameraDelete
  PROVE  TypeOK'
<1> USE DEF TypeOK, indexVars, objVars, janVars, tierVars
<1>1. CASE DeleteCamera
  BY <1>1 DEF DeleteCamera, Members
<1>2. CASE CamDeleteRows
  <2>1. storage' \in Listing /\ pinned' \subseteq Members(storage')
    BY <1>2, DropAllRowsType DEF CamDeleteRows, Members
  <2>2. camListed' \in Listing
    BY <1>2, NothingType DEF CamDeleteRows
  <2> QED BY <1>2, <2>1, <2>2 DEF CamDeleteRows
<1>3. CASE CamDeleteCamera
  <2>1. storage' \in Listing /\ pinned' \subseteq Members(storage')
    BY <1>3, DropAllRowsType DEF CamDeleteCamera, Members
  <2> QED BY <1>3, <2>1 DEF CamDeleteCamera
<1>4. ASSUME NEW s \in Segments, CamDeleteObject(s) PROVE TypeOK'
  <2>1. /\ localFiles' \subseteq Segments
        /\ s3Objects' \subseteq Segments
        /\ removed' \subseteq Segments
    BY <1>4, DeleteObjectType DEF CamDeleteObject
  <2>2. camListed' \in Listing
    BY <1>4, WithoutType DEF CamDeleteObject
  <2> QED BY <1>4, <2>1, <2>2 DEF CamDeleteObject, Members
<1> QED BY <1>1, <1>2, <1>3, <1>4 DEF CameraDelete

(* A crash forgets every control point.                                    *)
LEMMA CrashType ==
  ASSUME TypeOK, Crash
  PROVE  TypeOK'
<1>1. flush' \in [Segments -> FlushPc]
  BY DEF Crash, TypeOK, FlushPc
<1>2. crashes' \in 0 .. MaxCrashes
  BY BoundsAssumption DEF Crash, TypeOK
<1> QED BY <1>1, <1>2, NothingType DEF Crash, TypeOK, indexVars, objVars, Members

(* The initial state is well typed.                                        *)
LEMMA InitType == Init => TypeOK
BY NothingType, BoundsAssumption DEF Init, TypeOK, Nothing, FlushPc, Members

(* Every step keeps TypeOK.                                                *)
LEMMA NextType == TypeOK /\ [Next]_vars => TypeOK'
<1> SUFFICES ASSUME TypeOK, [Next]_vars PROVE TypeOK'
  OBVIOUS
<1>1. CASE UNCHANGED vars
  BY <1>1 DEF vars, indexVars, objVars, janVars, tierVars, camVars, TypeOK, Members
<1>2. CASE Next
  <2>1. CASE Tick \/ Crash
    BY <2>1, TickType, CrashType
  <2>2. ASSUME NEW s \in Segments, Flush(s) PROVE TypeOK'
    BY <2>2, FlushType
  <2>3. CASE Protect \/ \E s \in Segments : Unprotect(s)
    BY <2>3, PinType
  <2>4. CASE Janitor \/ Tierer
    BY <2>4, JanitorType, TiererType
  <2>5. CASE DeleteCamera \/ CameraDelete
    BY <2>5, CameraDeleteType
  <2> QED BY <1>2, <2>1, <2>2, <2>3, <2>4, <2>5 DEF Next
<1> QED BY <1>1, <1>2

(* Every variable keeps its type, only rows are pinned, and the tierer     *)
(* holds a segment exactly while it is not idle.                           *)
THEOREM TypeCorrect == Spec => []TypeOK
BY InitType, NextType, PTL DEF Spec

----------------------------------------------------------------------------
(* RowsBacked. It is not inductive: it says nothing of the moment before a *)
(* row appears or changes tier. The strengthening says what each actor     *)
(* relies on at the control points in between.                             *)

Flushed(s) == flush[s] \in {"rollback", "done", "failed"}

(* Segments that start after now have not been cut. *)
NotYetCut == \A s \in Segments : flush[s] # "none" => s <= now
(* A flush that is about to insert its row has written the file. *)
FileFirst == \A s \in Segments : flush[s] = "index" => s \in localFiles \cup removed
(* Rows, and so what the tierer lists, come from flushes past the insert:  *)
(* a row never returns to the local tier once it is s3.                    *)
RowsFlushed == \A s \in Segments : Indexed(s) => Flushed(s)
TodoFlushed == \A s \in tierTodo : Flushed(s)
(* The tierer updates the row of an object that is in the bucket, and      *)
(* unlinks the file of a row that is not local any more.                   *)
Verified == \A s \in Segments :
              tierPc = "mark" /\ Oldest(s, tierTodo) => s \in s3Objects \cup removed
Flipped  == \A s \in Segments :
              tierPc = "unlink" /\ Oldest(s, tierTodo) => storage[s] # "local"

Links == /\ RowsBacked /\ NotYetCut /\ FileFirst /\ RowsFlushed /\ TodoFlushed
         /\ Verified /\ Flipped
IInv == TypeOK /\ Links

(* Steps that leave alone the clock, the flushes, the tiers, the objects   *)
(* and the tierer leave Links alone.                                       *)
LEMMA FrameLinks ==
  ASSUME Links, UNCHANGED <<now, flush, storage, objVars, tierVars>>
  PROVE  Links'
BY DEF Links, RowsBacked, NotYetCut, FileFirst, RowsFlushed, TodoFlushed,
       Verified, Flipped, Flushed, Indexed, ObjectIn, Oldest, objVars, tierVars

(* So does deleting the object of a segment: the segment counts as removed *)
(* from then on.                                                           *)
LEMMA DeleteObjectLinks ==
  ASSUME IInv, NEW s \in Segments, NEW t, DeleteObject(s, t),
         UNCHANGED <<now, flush, storage, tierVars>>
  PROVE  Links'
<1> USE DEF IInv, Links, DeleteObject, tierVars, Oldest, TypeOK
<1>1. RowsBacked'
  BY DEF RowsBacked, Indexed, ObjectIn
<1>2. NotYetCut' /\ RowsFlushed' /\ TodoFlushed' /\ Flipped'
  BY DEF NotYetCut, RowsFlushed, TodoFlushed, Flipped, Flushed, Indexed
<1>3. FileFirst' /\ Verified'
  BY DEF FileFirst, Verified
<1> QED BY <1>1, <1>2, <1>3

(* Dropping rows does too: every part of Links that mentions a row only    *)
(* restricts segments that have one.                                       *)
LEMMA FewerRowsLinks ==
  ASSUME IInv, UNCHANGED <<now, flush, objVars, tierVars>>,
         \A s \in Segments : storage'[s] \in {storage[s], "none"}
  PROVE  Links'
<1> USE DEF IInv, Links, objVars, tierVars, Oldest
<1>1. RowsBacked' /\ RowsFlushed' /\ Flipped'
  BY DEF RowsBacked, RowsFlushed, Flipped, Flushed, Indexed, ObjectIn
<1>2. NotYetCut' /\ FileFirst' /\ TodoFlushed' /\ Verified'
  BY DEF NotYetCut, FileFirst, TodoFlushed, Verified, Flushed
<1> QED BY <1>1, <1>2

(* Rows that disappear disturb none of the links.                          *)
LEMMA DropLinks ==
  ASSUME IInv, UNCHANGED <<now, flush, objVars, tierVars>>,
         DropAllRows \/ \E s \in Segments : DropRow(s)
  PROVE  Links'
<1>1. \A s \in Segments : storage'[s] \in {storage[s], "none"}
  BY DEF DropAllRows, DropRow, Nothing, Without, IInv, TypeOK, Listing
<1> QED BY <1>1, FewerRowsLinks

(* The links, actor by actor: the segment cut now has no file yet.         *)
LEMMA TickLinks ==
  ASSUME IInv, Tick
  PROVE  Links'
<1> USE DEF IInv, Links, Tick, indexVars, objVars, tierVars, Oldest, TypeOK,
            BoundsAssumption
<1>1. \A s \in Segments : flush'[s] = flush[s] \/ (s = now + 1 /\ flush'[s] = "put")
  OBVIOUS
<1>2. \A s \in Segments : flush'[s] # flush[s] => flush[s] = "none"
  BY <1>1 DEF NotYetCut, Segments
<1>3. RowsBacked' /\ RowsFlushed'
  BY <1>1, <1>2 DEF RowsBacked, RowsFlushed, Flushed, Indexed, ObjectIn
<1>4. NotYetCut'
  BY <1>1 DEF NotYetCut, Segments
<1>5. TodoFlushed'
  BY <1>2 DEF TodoFlushed, Flushed
<1>6. FileFirst' /\ Verified' /\ Flipped'
  BY <1>1 DEF FileFirst, Verified, Flipped
<1> QED BY <1>3, <1>4, <1>5, <1>6

(* The flush writes the file before the row.                               *)
LEMMA FlushLinks ==
  ASSUME IInv, NEW s \in Segments, Flush(s)
  PROVE  Links'
<1> USE DEF IInv, Links, indexVars, tierVars, Oldest, TypeOK
<1>1. CASE FlushPut(s)
  <2> USE <1>1 DEF FlushPut
  <2>1. RowsBacked' /\ RowsFlushed' /\ TodoFlushed'
    BY DEF RowsBacked, RowsFlushed, TodoFlushed, Flushed, Indexed, ObjectIn
  <2>2. NotYetCut' /\ FileFirst'
    BY DEF NotYetCut, FileFirst
  <2>3. Verified' /\ Flipped'
    BY DEF Verified, Flipped
  <2> QED BY <2>1, <2>2, <2>3
<1>2. CASE FlushIndex(s)
  <2> USE <1>2 DEF FlushIndex, objVars
  <2>1. s \notin tierTodo
    BY DEF TodoFlushed, Flushed
  <2>2. /\ \A r \in Segments : r # s => flush'[r] = flush[r] /\ storage'[r] = storage[r]
        /\ flush'[s] \in {"done", "rollback"}
        /\ storage'[s] \in {"local", storage[s]}
    BY DEF Listing
  <2>3. flush[s] = "index" /\ storage[s] = "none"
    BY DEF RowsFlushed, Flushed, Indexed
  <2>4. RowsBacked'
    BY <2>2, <2>3 DEF RowsBacked, FileFirst, Indexed, ObjectIn, Listing
  <2>5. RowsFlushed' /\ TodoFlushed'
    BY <2>2 DEF RowsFlushed, TodoFlushed, Flushed, Indexed
  <2>6. NotYetCut' /\ FileFirst'
    BY <2>2, <2>3 DEF NotYetCut, FileFirst
  <2>7. Verified' /\ Flipped'
    BY <2>1, <2>2 DEF Verified, Flipped
  <2> QED BY <2>4, <2>5, <2>6, <2>7
<1>3. CASE FlushRollback(s)
  <2> USE <1>3 DEF FlushRollback
  <2>1. RowsBacked' /\ RowsFlushed' /\ TodoFlushed'
    BY DEF RowsBacked, RowsFlushed, TodoFlushed, Flushed, Indexed, ObjectIn
  <2>2. NotYetCut' /\ FileFirst'
    BY DEF NotYetCut, FileFirst
  <2>3. Verified' /\ Flipped'
    BY DEF Verified, Flipped
  <2> QED BY <2>1, <2>2, <2>3
<1> QED BY <1>1, <1>2, <1>3 DEF Flush

(* The janitor only removes, and what it removes is in removed.            *)
LEMMA JanitorLinks ==
  ASSUME IInv, Janitor
  PROVE  Links'
<1>1. CASE JanitorListExpired \/ JanitorMeasure \/ JanitorListOver \/ JanitorDone
  BY <1>1, FrameLinks DEF IInv, indexVars, JanitorListExpired, JanitorMeasure,
     JanitorListOver, JanitorDone
<1>2. ASSUME NEW s \in Segments, JanitorDeleteObject(s) PROVE Links'
  BY <1>2, DeleteObjectLinks, FrameLinks DEF IInv, JanitorDeleteObject, indexVars
<1>3. ASSUME NEW s \in Segments, JanitorDeleteRow(s) PROVE Links'
  BY <1>3, DropLinks, FrameLinks DEF IInv, JanitorDeleteRow, indexVars
<1> QED BY <1>1, <1>2, <1>3 DEF Janitor

(* The tierer verifies the object before it changes the row, and changes   *)
(* the row before it unlinks the file.                                     *)
LEMMA TiererLinks ==
  ASSUME IInv, Tierer
  PROVE  Links'
<1> USE DEF IInv, Links, indexVars, objVars, TypeOK, Oldest
<1>1. CASE TierList
  <2> USE <1>1 DEF TierList
  <2>1. TodoFlushed'
    BY DEF TodoFlushed, RowsFlushed, Flushed, Indexed, Tierable, First
  <2>2. RowsBacked' /\ NotYetCut' /\ FileFirst' /\ RowsFlushed'
    BY DEF RowsBacked, NotYetCut, FileFirst, RowsFlushed, Flushed, Indexed, ObjectIn
  <2>3. Verified' /\ Flipped'
    BY DEF Verified, Flipped
  <2> QED BY <2>1, <2>2, <2>3
<1>2. ASSUME NEW s \in Segments, TierOpen(s) \/ TierStat(s) PROVE Links'
  <2> USE <1>2 DEF TierOpen, TierStat, TierNext
  <2>1. RowsBacked' /\ NotYetCut' /\ FileFirst' /\ RowsFlushed' /\ TodoFlushed'
    BY DEF RowsBacked, NotYetCut, FileFirst, RowsFlushed, TodoFlushed, Flushed,
           Indexed, ObjectIn
  <2>2. Verified' /\ Flipped'
    BY DEF Verified, Flipped, Segments
  <2> QED BY <2>1, <2>2
<1>3. ASSUME NEW s \in Segments, TierUpload(s) PROVE Links'
  <2> USE <1>3 DEF TierUpload, TierNext
  <2>1. RowsBacked' /\ NotYetCut' /\ FileFirst' /\ RowsFlushed' /\ TodoFlushed'
    BY DEF RowsBacked, NotYetCut, FileFirst, RowsFlushed, TodoFlushed, Flushed,
           Indexed, ObjectIn
  <2>2. Verified' /\ Flipped'
    BY DEF Verified, Flipped
  <2> QED BY <2>1, <2>2
<1>4. ASSUME NEW s \in Segments, TierMark(s) PROVE Links'
  <2> USE <1>4 DEF TierMark, TierNext
  <2>1. /\ \A r \in Segments : r # s => storage'[r] = storage[r]
        /\ storage'[s] \in {"s3", storage[s]}
    BY DEF Listing
  <2>2. Indexed(s)' => Indexed(s)
    BY DEF Indexed
  <2>3. RowsBacked'
    BY <2>1, <2>2 DEF RowsBacked, Verified, Indexed, ObjectIn
  <2>4. NotYetCut' /\ FileFirst'
    BY DEF NotYetCut, FileFirst
  <2>5. RowsFlushed' /\ TodoFlushed'
    BY <2>1, <2>2 DEF RowsFlushed, TodoFlushed, Flushed, Indexed
  <2>6. Verified'
    BY DEF Verified
  <2>7. tierPc' = "unlink" => storage'[s] # "local" /\ tierTodo' = tierTodo
    BY DEF Effective, Indexed, Listing
  <2>8. Flipped'
    BY <2>7 DEF Flipped, Segments
  <2> QED BY <2>3, <2>4, <2>5, <2>6, <2>8
<1>5. ASSUME NEW s \in Segments, TierUnlink(s) PROVE Links'
  <2> USE <1>5 DEF TierUnlink, TierNext
  <2>1. storage[s] # "local" /\ Flushed(s)
    BY DEF Flipped, TodoFlushed
  <2>2. RowsBacked'
    BY <2>1 DEF RowsBacked, Indexed, ObjectIn, Listing, Tiers
  <2>3. FileFirst'
    BY <2>1 DEF FileFirst, Flushed
  <2>4. NotYetCut' /\ RowsFlushed' /\ TodoFlushed'
    BY DEF NotYetCut, RowsFlushed, TodoFlushed, Flushed, Indexed
  <2>5. Verified' /\ Flipped'
    BY DEF Verified, Flipped
  <2> QED BY <2>2, <2>3, <2>4, <2>5
<1> QED BY <1>1, <1>2, <1>3, <1>4, <1>5 DEF Tierer

(* The camera-delete handler only removes as well.                         *)
LEMMA CameraDeleteLinks ==
  ASSUME IInv, DeleteCamera \/ CameraDelete
  PROVE  Links'
<1>1. CASE DeleteCamera
  BY <1>1, FrameLinks DEF IInv, indexVars, DeleteCamera
<1>2. CASE CamDeleteRows \/ CamDeleteCamera
  BY <1>2, DropLinks, FrameLinks DEF IInv, indexVars, CamDeleteRows, CamDeleteCamera
<1>3. ASSUME NEW s \in Segments, CamDeleteObject(s) PROVE Links'
  BY <1>3, DeleteObjectLinks, FrameLinks DEF IInv, indexVars, CamDeleteObject
<1> QED BY <1>1, <1>2, <1>3 DEF CameraDelete

(* A crash touches neither rows nor objects.                               *)
LEMMA CrashLinks ==
  ASSUME IInv, Crash
  PROVE  Links'
<1> USE DEF IInv, Links, Crash, indexVars, objVars, TypeOK
<1>1. \A s \in Segments : /\ flush'[s] \in {flush[s], "failed"}
                          /\ flush[s] = "none" => flush'[s] = "none"
  OBVIOUS
<1>2. RowsBacked' /\ NotYetCut' /\ FileFirst' /\ RowsFlushed'
  BY <1>1 DEF RowsBacked, NotYetCut, FileFirst, RowsFlushed, Flushed, Indexed, ObjectIn
<1>3. TodoFlushed' /\ Verified' /\ Flipped'
  BY DEF TodoFlushed, Verified, Flipped, Oldest
<1> QED BY <1>2, <1>3

(* Nothing is indexed in the initial state.                                *)
LEMMA InitIInv == Init => IInv
<1>1. Init => Links
  BY DEF Init, Links, RowsBacked, NotYetCut, FileFirst, RowsFlushed, TodoFlushed,
         Verified, Flipped, Indexed, Nothing
<1> QED BY <1>1, InitType DEF IInv

(* Every step keeps the inductive invariant.                               *)
LEMMA NextIInv == IInv /\ [Next]_vars => IInv'
<1> SUFFICES ASSUME IInv, [Next]_vars PROVE Links'
  BY NextType DEF IInv
<1>1. CASE UNCHANGED vars \/ Protect \/ \E s \in Segments : Unprotect(s)
  BY <1>1, FrameLinks DEF IInv, vars, indexVars, Protect, Unprotect
<1>2. CASE Tick \/ Crash
  BY <1>2, TickLinks, CrashLinks
<1>3. ASSUME NEW s \in Segments, Flush(s) PROVE Links'
  BY <1>3, FlushLinks
<1>4. CASE Janitor \/ Tierer
  BY <1>4, JanitorLinks, TiererLinks
<1>5. CASE DeleteCamera \/ CameraDelete
  BY <1>5, CameraDeleteLinks
<1> QED BY <1>1, <1>2, <1>3, <1>4, <1>5 DEF Next

(* Whatever the interleaving of flush, tierer, janitor and camera delete,  *)
(* the failing calls and the crashes: an indexed, flushed segment nobody   *)
(* removed is in the tier its row names (tiering.go, tierOne; recorder.go, *)
(* marshalAndFlush).                                                       *)
THEOREM RowsAreBacked == Spec => []RowsBacked
<1>1. IInv => RowsBacked
  BY DEF IInv, Links
<1> QED BY <1>1, InitIInv, NextIInv, PTL DEF Spec

----------------------------------------------------------------------------
(* PinHolds *)

(* A listing of evictable rows holds no pinned one.                        *)
LEMMA ListingSkipsPinned ==
  ASSUME NEW s \in pinned, NEW S \in SUBSET Evictable, s \in Segments
  PROVE  Select(S)[s] = "none"
BY DEF Select, Evictable

(* A pinned segment that is neither on the janitor's list nor being        *)
(* deleted with its camera stays off the list, indexed and in place:       *)
(* ListEvictable's NOT protected is what keeps a pin in force.             *)
THEOREM PinsAreHonoured == Spec => PinHolds
<1>1. ASSUME TypeOK, Next, NEW s \in pinned, janListed[s] = "none", camPc = "idle"
      PROVE  Kept(s)
  <2>0. s \in Segments /\ storage[s] # "none"
    BY <1>1 DEF TypeOK, Members
  <2> USE <1>1, <2>0 DEF Kept, TypeOK, Listing, indexVars, objVars, janVars
  <2>1. CASE Tick \/ Protect \/ DeleteCamera \/ \E r \in Segments : Unprotect(r)
    BY <2>1 DEF Tick, Protect, DeleteCamera, Unprotect
  <2>2. CASE Crash
    BY <2>2 DEF Crash, Nothing
  <2>3. ASSUME NEW r \in Segments, Flush(r) PROVE Kept(s)
    BY <2>3 DEF Flush, FlushPut, FlushIndex, FlushRollback
  <2>4. CASE Janitor
    <3>1. CASE JanitorListExpired
      <4>1. {r \in First(Evictable, ListLimit) : Expired(r)} \in SUBSET Evictable
        BY DEF First
      <4> QED BY <3>1, <4>1, ListingSkipsPinned DEF JanitorListExpired, Nothing
    <3>2. CASE JanitorListOver
      <4>1. First(First(Evictable, ListLimit), janOver) \in SUBSET Evictable
        BY DEF First
      <4> QED BY <3>2, <4>1, ListingSkipsPinned DEF JanitorListOver, Nothing
    <3>3. CASE JanitorMeasure \/ JanitorDone
      BY <3>3 DEF JanitorMeasure, JanitorDone
    <3>4. ASSUME NEW r \in Segments, JanitorDeleteObject(r) PROVE Kept(s)
      <4>1. r # s
        BY <3>4 DEF JanitorDeleteObject, Oldest, Members
      <4> QED BY <3>4, <4>1 DEF JanitorDeleteObject, DeleteObject, Without
    <3>5. ASSUME NEW r \in Segments, JanitorDeleteRow(r) PROVE Kept(s)
      <4>1. r # s
        BY <3>5 DEF JanitorDeleteRow, Oldest, Members
      <4> QED BY <3>5, <4>1 DEF JanitorDeleteRow, DropRow, Without
    <3> QED BY <2>4, <3>1, <3>2, <3>3, <3>4, <3>5 DEF Janitor
  <2>5. CASE Tierer
    BY <2>5 DEF Tierer, TierList, TierOpen, TierUpload, TierStat, TierMark, TierUnlink
  <2>6. CASE CameraDelete
    BY <2>6 DEF CameraDelete, CamDeleteRows, CamDeleteObject, CamDeleteCamera
  <2> QED BY <1>1, <2>1, <2>2, <2>3, <2>4, <2>5, <2>6 DEF Next
<1>2. TypeOK /\ [Next]_vars
        => [\A s \in pinned : janListed[s] = "none" /\ camPc = "idle" => Kept(s)]_vars
  BY <1>1
<1> QED BY <1>2, TypeCorrect, PTL DEF Spec, PinHolds

----------------------------------------------------------------------------
(* LocalFilesOwned, for a daemon whose calls work, that is not killed, and *)
(* whose camera is not deleted. What the janitor listed must be tied to    *)
(* what it will find when it comes to the row: a segment it listed as      *)
(* local has no file left, and one it listed as s3 cannot be local again.  *)

Quiet == Faults = {} /\ ~Deletable

ListedFlushed == \A s \in Segments : janListed[s] # "none" => Flushed(s)
ListedStays   == \A s \in Segments : janListed[s] = "s3" => storage[s] # "local"
ObjectGone    == \A s \in Segments :
                   janPc = "row" /\ Oldest(s, Members(janListed)) /\ janListed[s] = "local"
                     => s \notin localFiles

OwnLinks == /\ LocalFilesOwned /\ ListedFlushed /\ ListedStays /\ ObjectGone
            /\ camPc = "idle" /\ crashes = 0

(* Steps of the recorder. *)
LEMMA RecorderOwned ==
  ASSUME Quiet, IInv, OwnLinks, Tick \/ \E s \in Segments : Flush(s)
  PROVE  OwnLinks'
<1> USE DEF OwnLinks, IInv, Links, TypeOK, Listing, indexVars, objVars, janVars,
            tierVars, camVars, Oldest, Members
<1>1. CASE Tick
  <2>1. \A s \in Segments : flush'[s] = flush[s] \/ flush[s] = "none"
    BY <1>1, BoundsAssumption DEF Tick, NotYetCut, Segments
  <2> QED BY <1>1, <2>1 DEF Tick, LocalFilesOwned, ListedFlushed, ListedStays,
             ObjectGone, Flushed
<1>2. ASSUME NEW s \in Segments, FlushPut(s) PROVE OwnLinks'
  <2>1. flush[s] = "put" /\ flush' = [flush EXCEPT ![s] = "index"]
        /\ localFiles' = localFiles \cup {s}
    BY <1>2 DEF FlushPut, LocalOutcome, Quiet
  <2>2. janListed[s] = "none"
    BY <2>1 DEF ListedFlushed, Flushed
  <2>3. LocalFilesOwned' /\ ListedFlushed' /\ ListedStays'
    BY <1>2, <2>1 DEF FlushPut, LocalFilesOwned, ListedFlushed, ListedStays, Flushed
  <2>4. ObjectGone'
    BY <1>2, <2>1, <2>2 DEF FlushPut, ObjectGone
  <2> QED BY <1>2, <2>3, <2>4 DEF FlushPut
<1>3. ASSUME NEW s \in Segments, FlushIndex(s) PROVE OwnLinks'
  <2>1. /\ flush[s] = "index" /\ flush' = [flush EXCEPT ![s] = "done"]
        /\ storage' = [storage EXCEPT ![s] = "local"]
    BY <1>3 DEF FlushIndex, RemoteOutcome, Quiet, Effective
  <2>2. janListed[s] = "none"
    BY <2>1 DEF ListedFlushed, Flushed
  <2>3. LocalFilesOwned' /\ ListedFlushed'
    BY <1>3, <2>1 DEF FlushIndex, LocalFilesOwned, ListedFlushed, Flushed
  <2>4. ListedStays' /\ ObjectGone'
    BY <1>3, <2>1, <2>2 DEF FlushIndex, ListedStays, ObjectGone
  <2> QED BY <1>3, <2>3, <2>4 DEF FlushIndex
<1>4. ASSUME NEW s \in Segments, FlushRollback(s) PROVE OwnLinks'
  BY <1>4 DEF FlushRollback, LocalOutcome, Quiet, LocalFilesOwned, ListedFlushed,
     ListedStays, ObjectGone, Flushed
<1> QED BY <1>1, <1>2, <1>3, <1>4 DEF Flush

(* Steps of the janitor. *)
LEMMA JanitorOwned ==
  ASSUME Quiet, IInv, OwnLinks, Janitor
  PROVE  OwnLinks'
<1> USE DEF OwnLinks, IInv, Links, TypeOK, Listing, indexVars, objVars, tierVars,
            camVars, Oldest, Members
<1>1. CASE JanitorListExpired \/ JanitorListOver
  <2>1. /\ \A s \in Segments : janListed'[s] \in {"none", storage[s]}
        /\ janPc' = "evict"
    BY <1>1 DEF JanitorListExpired, JanitorListOver, Select, Nothing
  <2>2. ListedFlushed' /\ ListedStays'
    BY <1>1, <2>1 DEF JanitorListExpired, JanitorListOver, ListedFlushed, ListedStays,
       RowsFlushed, Flushed, Indexed
  <2> QED BY <1>1, <2>1, <2>2 DEF JanitorListExpired, JanitorListOver, ObjectGone,
             LocalFilesOwned
<1>2. CASE JanitorMeasure \/ JanitorDone
  BY <1>2 DEF JanitorMeasure, JanitorDone, LocalFilesOwned, ListedFlushed,
     ListedStays, ObjectGone, Flushed
<1>3. ASSUME NEW s \in Segments, JanitorDeleteObject(s) PROVE OwnLinks'
  <2>1. /\ DeleteObject(s, janListed[s]) /\ janPc' = "row" /\ janListed' = janListed
    BY <1>3 DEF JanitorDeleteObject, RemoteOutcome, Quiet, Effective
  <2>2. ObjectGone'
    BY <1>3, <2>1 DEF JanitorDeleteObject, DeleteObject, ObjectGone, Segments
  <2> QED BY <1>3, <2>1, <2>2 DEF JanitorDeleteObject, DeleteObject, LocalFilesOwned,
             ListedFlushed, ListedStays, Flushed
<1>4. ASSUME NEW s \in Segments, JanitorDeleteRow(s) PROVE OwnLinks'
  <2>1. /\ storage' = [storage EXCEPT ![s] = "none"]
        /\ janListed' = [janListed EXCEPT ![s] = "none"]
        /\ janPc = "row" /\ janPc' = "evict" /\ janListed[s] # "none"
    BY <1>4 DEF JanitorDeleteRow, DropRow, Without, RemoteOutcome, Quiet, Effective
  <2>2. s \in localFiles => storage[s] # "local"
    BY <1>4, <2>1 DEF JanitorDeleteRow, ObjectGone, ListedStays, Tiers
  <2>3. LocalFilesOwned'
    BY <1>4, <2>1, <2>2 DEF JanitorDeleteRow, LocalFilesOwned
  <2> QED BY <1>4, <2>1, <2>3 DEF JanitorDeleteRow, ListedFlushed, ListedStays,
             ObjectGone, Flushed
<1> QED BY <1>1, <1>2, <1>3, <1>4 DEF Janitor

(* Steps of the tierer. *)
LEMMA TiererOwned ==
  ASSUME Quiet, IInv, OwnLinks, Tierer
  PROVE  OwnLinks'
<1> USE DEF OwnLinks, IInv, Links, TypeOK, Listing, indexVars, objVars, janVars,
            camVars, Oldest, Members
<1>1. CASE TierList
  BY <1>1 DEF TierList, LocalFilesOwned, ListedFlushed, ListedStays, ObjectGone, Flushed
<1>2. ASSUME NEW s \in Segments, TierOpen(s) \/ TierUpload(s) \/ TierStat(s)
      PROVE  OwnLinks'
  BY <1>2 DEF TierOpen, TierUpload, TierStat, TierNext, LocalFilesOwned,
     ListedFlushed, ListedStays, ObjectGone, Flushed
<1>3. ASSUME NEW s \in Segments, TierMark(s) PROVE OwnLinks'
  <2>1. /\ tierPc' = "unlink" /\ tierTodo' = tierTodo /\ s \in tierTodo
        /\ \A r \in Segments : storage'[r] = storage[r] \/ (r = s /\ storage'[r] = "s3")
    BY <1>3 DEF TierMark, RemoteOutcome, Quiet, Effective
  <2> QED BY <1>3, <2>1 DEF TierMark, LocalFilesOwned, ListedFlushed, ListedStays,
             ObjectGone, Flushed, Segments
<1>4. ASSUME NEW s \in Segments, TierUnlink(s) PROVE OwnLinks'
  <2>1. localFiles' = localFiles \ {s} /\ s \in tierTodo /\ tierPc = "unlink"
    BY <1>4 DEF TierUnlink, LocalOutcome, Quiet
  <2>2. LocalFilesOwned'
    BY <1>4, <2>1 DEF TierUnlink, LocalFilesOwned, Segments
  <2> QED BY <1>4, <2>1, <2>2 DEF TierUnlink, ListedFlushed, ListedStays, ObjectGone,
             Flushed
<1> QED BY <1>1, <1>2, <1>3, <1>4 DEF Tierer

(* Nothing but a crash is counted, and a count does not go back.           *)
LEMMA CrashesCounted ==
  ASSUME TypeOK, [Next]_vars, crashes' = 0
  PROVE  crashes = 0 /\ ~Crash
<1>1. crashes \in Nat
  BY BoundsAssumption DEF TypeOK
<1>2. CASE Crash
  BY <1>1, <1>2 DEF Crash
<1>3. CASE UNCHANGED vars \/ Protect \/ \E s \in Segments : Unprotect(s)
  BY <1>1, <1>3 DEF vars, Protect, Unprotect, Crash
<1>4. CASE Tick \/ \E s \in Segments : Flush(s)
  BY <1>1, <1>4 DEF Tick, Flush, FlushPut, FlushIndex, FlushRollback, Crash
<1>5. CASE Janitor
  BY <1>1, <1>5 DEF Janitor, JanitorListExpired, JanitorMeasure, JanitorListOver,
     JanitorDeleteObject, JanitorDeleteRow, JanitorDone, Crash
<1>6. CASE Tierer
  BY <1>1, <1>6 DEF Tierer, TierList, TierOpen, TierUpload, TierStat, TierMark,
     TierUnlink, Crash
<1>7. CASE DeleteCamera \/ CameraDelete
  BY <1>1, <1>7 DEF DeleteCamera, CameraDelete, CamDeleteRows, CamDeleteCamera,
     CamDeleteObject, Crash
<1> QED BY <1>2, <1>3, <1>4, <1>5, <1>6, <1>7 DEF Next

(* When no call fails, every step before the first crash leaves each local *)
(* file its owner.                                                         *)
LEMMA NextOwned ==
  Quiet /\ IInv /\ (crashes = 0 => OwnLinks) /\ [Next]_vars
    => (crashes' = 0 => OwnLinks')
<1> SUFFICES ASSUME Quiet, IInv, crashes = 0 => OwnLinks, [Next]_vars, crashes' = 0
             PROVE  OwnLinks'
  OBVIOUS
<1>0. OwnLinks /\ ~Crash
  BY CrashesCounted DEF IInv
<1>1. CASE UNCHANGED vars \/ Protect \/ \E s \in Segments : Unprotect(s)
  BY <1>0, <1>1 DEF vars, indexVars, objVars, janVars, tierVars, camVars, Protect,
     Unprotect, OwnLinks, LocalFilesOwned, ListedFlushed, ListedStays, ObjectGone,
     Flushed, Oldest, Members
<1>2. CASE Tick \/ \E s \in Segments : Flush(s)
  BY <1>0, <1>2, RecorderOwned
<1>3. CASE Janitor \/ Tierer
  BY <1>0, <1>3, JanitorOwned, TiererOwned
<1>4. ~DeleteCamera /\ ~CameraDelete
  BY <1>0 DEF Quiet, OwnLinks, DeleteCamera, CameraDelete, CamDeleteRows,
     CamDeleteCamera, CamDeleteObject
<1> QED BY <1>0, <1>1, <1>2, <1>3, <1>4 DEF Next

(* With calls that work, before the first crash and without a camera       *)
(* delete, no file on the local disk is without an owner that will remove  *)
(* or keep it, however janitor and tierer interleave on it.                *)
THEOREM FilesAreOwned == Quiet => (Spec => []LocalFilesOwned)
<1> SUFFICES ASSUME Quiet PROVE Spec => []LocalFilesOwned
  OBVIOUS
<1>1. Init => OwnLinks
  BY DEF Init, OwnLinks, LocalFilesOwned, ListedFlushed, ListedStays, ObjectGone, Nothing
<1>2. (crashes = 0 => OwnLinks) => LocalFilesOwned
  BY DEF OwnLinks, LocalFilesOwned
<1>3. IInv /\ (crashes = 0 => OwnLinks) /\ [Next]_vars => (crashes = 0 => OwnLinks)'
  BY NextOwned
<1> QED BY <1>1, <1>2, <1>3, InitIInv, NextIInv, PTL DEF Spec
============================================================================
