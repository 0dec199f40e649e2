------------------------------ MODULE EventFeed --------------------------------
(***************************************************************************)
(* The events table as the feed reads it while it changes: the cursor      *)
(* pages of GET /events (events/store.go), the deletion of an event with   *)
(* its snapshot file (api/event_handlers.go) and the goroutine that        *)
(* attaches the snapshot after the event was inserted (events/manager.go). *)
(* An event's id is a random UUID: its order says nothing of its time.     *)
(***************************************************************************)
EXTENDS Naturals, FiniteSets, SequencesExt

CONSTANTS
    MaxEvent,   \* bound: events are 1..MaxEvent, ordered as their ids are
    MaxTs,      \* bound: timestamps 1..MaxTs
    Limit,      \* events of a page
    Pictured,   \* bound: events whose camera has a frame for a snapshot
    MaxAcks,    \* bound: acknowledgements
    MaxDeletes, \* bound: DELETE requests
    Deleters    \* DELETE requests that may run at once

ASSUME FeedAssumption ==
    /\ Limit \in Nat \ {0} /\ IsFiniteSet(Deleters)
    /\ MaxEvent \in Nat /\ MaxTs \in Nat /\ MaxAcks \in Nat /\ MaxDeletes \in Nat

Ids == 1..MaxEvent
NoTs == 0
Gone == MaxTs + 1

VARIABLES
    ts,      \* per event: its timestamp, NoTs before it is inserted, or Gone
    acked,   \* events with acked_at
    path,    \* events whose snapshot_path is set
    file,    \* events whose snapshot file is in the backend
    attach,  \* per event: what its attachSnapshot goroutine does next
    del,     \* per DELETE: its event, next step and the row it read
    page,    \* of the reader: "first", "more" or "end" of the feed
    feed,    \* the events it was given so far
    unacked, \* whether it asks for unacknowledged events only
    steady   \* history: events that matched its filter ever since it began

feedVars == <<ts, acked, path, file, attach, del, page, feed, unacked, steady>>
tableVars == <<ts, acked, path, file, attach, del>>

Rows == {e \in Ids : ts[e] \in 1..MaxTs}
Matching == {e \in Rows : unacked => e \notin acked}
NoDelete == [step |-> "idle", event |-> 0, path |-> FALSE]
Steady == steady' = {e \in steady : ts'[e] = ts[e] /\ (unacked => e \notin acked')}

----------------------------------------------------------------------------
(* Store.Insert, and the goroutine the manager starts for the snapshot.    *)
Insert(e, t) ==
    /\ ts[e] = NoTs
    /\ ts' = [ts EXCEPT ![e] = t]
    /\ attach' = [attach EXCEPT ![e] = IF e \in Pictured THEN "put" ELSE "done"]
    /\ UNCHANGED <<acked, path, file, del, page, feed, unacked, steady>>

Ack(e) ==
    /\ e \in Rows \ acked /\ Cardinality(acked) < MaxAcks
    /\ acked' = acked \union {e}
    /\ UNCHANGED <<ts, path, file, attach, del, page, feed, unacked>> /\ Steady

PutSnapshot(e) ==
    /\ attach[e] = "put"
    /\ \/ file' = file \union {e} /\ attach' = [attach EXCEPT ![e] = "set"]
       \/ file' = file /\ attach' = [attach EXCEPT ![e] = "done"]  \* no frame, or no space
    /\ UNCHANGED <<ts, acked, path, del, page, feed, unacked, steady>>

(* SetSnapshot updates no row when the event is gone.                      *)
(* Mutant: it writes the row it was started for back.                      *)
SetSnapshotAnyway(e) ==
    /\ attach[e] = "set" /\ attach' = [attach EXCEPT ![e] = "done"]
    /\ path' = path \union {e}
    /\ UNCHANGED <<ts, acked, file, del, page, feed, unacked, steady>>
SetSnapshot(e) ==
    /\ attach[e] = "set" /\ attach' = [attach EXCEPT ![e] = "done"]
    /\ path' = IF e \in Rows THEN path \union {e} ELSE path
    /\ UNCHANGED <<ts, acked, file, del, page, feed, unacked, steady>>

----------------------------------------------------------------------------
(* DELETE /events/:id: eventForParam, then Store.Delete, which reads the   *)
(* row and deletes it in two statements, then the file of the row read.    *)
LoadForDelete(d, e) ==
    /\ del[d].step = "idle" /\ e \in Rows
    /\ Cardinality({f \in Ids : ts[f] = Gone}) + Cardinality({x \in Deleters : del[x].step # "idle"})
           < MaxDeletes
    /\ del' = [del EXCEPT ![d] = [step |-> "get", event |-> e, path |-> FALSE]]
    /\ UNCHANGED <<ts, acked, path, file, attach, page, feed, unacked, steady>>

(* Get finds no row when another request deleted it: the handler then      *)
(* reads a field of a nil event.                                           *)
GetForDelete(d) ==
    /\ del[d].step = "get"
    /\ LET e == del[d].event
       IN  del' = [del EXCEPT ![d] = [step |-> IF e \in Rows THEN "exec" ELSE "panic",
                                      event |-> e, path |-> e \in path]]
    /\ UNCHANGED <<ts, acked, path, file, attach, page, feed, unacked, steady>>

DeleteRow(d) ==
    /\ del[d].step = "exec"
    /\ ts' = [ts EXCEPT ![del[d].event] = Gone]
    /\ path' = path \ {del[d].event}
    /\ del' = [del EXCEPT ![d].step = IF del[d].path THEN "unlink" ELSE "idle"]
    /\ UNCHANGED <<acked, file, attach, page, feed, unacked>> /\ Steady

(* Mutant: the file may go before the row does.                            *)
DeleteFileEarly(d) ==
    /\ del[d].step = "unlink" \/ (del[d].step = "exec" /\ del[d].path)
    /\ file' = file \ {del[d].event}
    /\ del' = IF del[d].step = "unlink" THEN [del EXCEPT ![d] = NoDelete] ELSE del
    /\ UNCHANGED <<ts, acked, path, attach, page, feed, unacked, steady>>
DeleteFile(d) ==
    /\ del[d].step = "unlink" /\ file' = file \ {del[d].event}
    /\ del' = [del EXCEPT ![d] = NoDelete]
    /\ UNCHANGED <<ts, acked, path, attach, page, feed, unacked, steady>>

----------------------------------------------------------------------------
(* (ts, id) of one row after that of another.                              *)
Above(e, f) == ts[e] > ts[f] \/ (ts[e] = ts[f] /\ e > f)

(* GET /events: newest first, a page from the cursor on, one more row read *)
(* to know whether there is a next one. The cursor keeps the (ts, id) of   *)
(* the last event, so that the row itself may go.                          *)
Begin(flag) ==
    /\ page = "first" /\ page' = "more"
    /\ unacked' = flag /\ steady' = {e \in Rows : flag => e \notin acked}
    /\ feed' = <<>> /\ UNCHANGED tableVars

(* Mutant: the cursor is a time only.                                      *)
BelowTime(c) == {e \in Matching : ts[e] < c.ts}
Below(c) == {e \in Matching : ts[e] < c.ts \/ (ts[e] = c.ts /\ e < c.id)}

Candidates ==
    IF feed = <<>> THEN Matching ELSE Below(Last(feed))

(* The rows of S, each behind as many as are above it.                     *)
AboveIn(S, e) == {f \in S : Above(f, e)}
Sorted(S) ==
    [i \in 1..Cardinality(S) |-> CHOOSE e \in S : Cardinality(AboveIn(S, e)) = i - 1]

NextPage ==
    /\ page = "more"
    /\ LET rows == Sorted(Candidates)
           more == Len(rows) > Limit
           given == SubSeq(rows, 1, IF more THEN Limit ELSE Len(rows))
       IN  /\ feed' = feed \o [i \in DOMAIN given |-> [ts |-> ts[given[i]], id |-> given[i]]]
           /\ page' = IF more THEN "more" ELSE "end"
    /\ UNCHANGED <<ts, acked, path, file, attach, del, unacked, steady>>

----------------------------------------------------------------------------
FeedInit ==
    /\ ts = [e \in Ids |-> NoTs] /\ acked = {} /\ path = {} /\ file = {}
    /\ attach = [e \in Ids |-> "none"] /\ del = [d \in Deleters |-> NoDelete]
    /\ page = "first" /\ feed = <<>> /\ unacked = FALSE /\ steady = {}

FeedNext ==
    \/ \E e \in Ids, t \in 1..MaxTs : Insert(e, t)
    \/ \E e \in Ids : Ack(e) \/ PutSnapshot(e) \/ SetSnapshot(e)
    \/ \E d \in Deleters, e \in Ids : LoadForDelete(d, e)
    \/ \E d \in Deleters : GetForDelete(d) \/ DeleteRow(d) \/ DeleteFile(d)
    \/ \E flag \in BOOLEAN : Begin(flag)
    \/ NextPage

FeedSpec == FeedInit /\ [][FeedNext]_feedVars

----------------------------------------------------------------------------
(* Type invariant; a row of the feed was read from the table.              *)
FeedTypeOK ==
    /\ ts \in [Ids -> 0..Gone] /\ acked \subseteq Ids
    /\ path \subseteq Rows /\ file \subseteq Ids
    /\ attach \in [Ids -> {"none", "put", "set", "done"}]
    /\ \A d \in Deleters : del[d].step \in {"idle", "get", "exec", "unlink", "panic"}
    /\ page \in {"first", "more", "end"} /\ steady \subseteq Matching
    /\ \A i \in DOMAIN feed : ts[feed[i].id] \in {feed[i].ts, Gone}

(* Paging through the feed while events come, go and are acknowledged      *)
(* gives newest first, no event twice, and in the end every event that     *)
(* matched all along.                                                      *)
FeedPages ==
    /\ \A i, j \in DOMAIN feed : i < j =>
          \/ feed[i].ts > feed[j].ts
          \/ feed[i].ts = feed[j].ts /\ feed[i].id > feed[j].id
    /\ page = "end" => \A e \in steady : \E i \in DOMAIN feed : feed[i].id = e

(* An event that names a snapshot can serve it, whatever is being deleted. *)
FeedSnapshotServed == path \subseteq file

(* The feed is complete and in order, and the pictures it names are there. *)
FeedSafe == FeedTypeOK /\ FeedPages /\ FeedSnapshotServed

(* event_handlers.go: a deleted event leaves no snapshot file behind. One  *)
(* deleted before its snapshot was attached does, for good.                *)
FeedNoOrphans ==
    \A e \in Ids : ts[e] = Gone /\ attach[e] = "done"
                   /\ (\A d \in Deleters : del[d].event # e) => e \notin file

(* Every DELETE is answered: not the second of two of the same event.      *)
FeedDeleteAnswered == \A d \in Deleters : del[d].step # "panic"
===============================================================================
