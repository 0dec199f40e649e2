------------------------------- MODULE Snapshot --------------------------------
(***************************************************************************)
(* The pictures of one camera (ingest/snapshot.go, ingest.go): the newest  *)
(* key frame of each of its streams, decoded on demand by ffmpeg, one      *)
(* decode at a time per stream, at most DecodeSlots in the program, with a *)
(* short cache. A caller is a still (Snapshot: main stream first, full     *)
(* size) or a tile (MJPEGFrame: sub stream first, scaled down). Key frames *)
(* are numbered; a picture is the number of its frame and its size.        *)
(***************************************************************************)
EXTENDS Naturals, FiniteSets, Sequences

CONSTANTS
    Watchers,    \* requests that may be under way at once
    DecodeSlots, \* size of decodeSem
    HasSub,      \* whether the camera has a sub stream
    MaxKeys,     \* bound: key frames of a stream
    MaxCalls     \* bound: calls


Streams == {"main", "sub"}
Kinds == {"still", "tile"}
Order == [still |-> <<"main", "sub">>, tile |-> <<"sub", "main">>]
Size == [still |-> "full", tile |-> "scaled"]
NoPicture == [key |-> 0, size |-> "none"]
NoOne == "no one"

ASSUME SnapshotAssumption ==
    /\ IsFiniteSet(Watchers) /\ NoOne \notin Watchers
    /\ DecodeSlots \in Nat \ {0} /\ HasSub \in BOOLEAN /\ MaxKeys \in Nat

VARIABLES
    annexb,   \* per stream: number of its last key frame, 0 when it has none
    shown,    \* per stream: cachedJPG
    fresh,    \* streams whose cachedAt is less than jpegCacheTTL ago
    leader,   \* per stream: whose decode runs (inflight), or NoOne
    watcher,  \* per watcher: kind, step, which stream of its order, its frame
    given,    \* per watcher: the picture its last call returned, and its kind
    calls     \* how many calls were made

snapVars == <<annexb, shown, fresh, leader, watcher, given, calls>>

Idle == [step |-> "idle", kind |-> "still", try |-> 1, key |-> 0]
Stream(k) == Order[watcher[k].kind][watcher[k].try]
Decoding == {k \in Watchers : watcher[k].step = "decode"}

(* Returns to the caller: with a picture, with an error, or, ErrNoSnapshot *)
(* of the first stream, to the second one.                                 *)
Return(k, picture) ==
    /\ watcher' = [watcher EXCEPT ![k] = Idle]
    /\ given' = [given EXCEPT ![k] = [kind |-> watcher[k].kind, picture |-> picture]]
Fails(k) == watcher' = [watcher EXCEPT ![k] = Idle] /\ UNCHANGED given
NoSnapshot(k) ==
    IF watcher[k].try = 1
    THEN watcher' = [watcher EXCEPT ![k].step = "look", ![k].try = 2] /\ UNCHANGED given
    ELSE Fails(k)

----------------------------------------------------------------------------
(* snapshot.offer: a key frame of a stream.                                *)
OfferKey(s) ==
    /\ annexb[s] < MaxKeys /\ (s = "sub" => HasSub)
    /\ annexb' = [annexb EXCEPT ![s] = @ + 1]
    /\ UNCHANGED <<shown, fresh, leader, watcher, given, calls>>

CacheAges(s) ==
    /\ s \in fresh /\ fresh' = fresh \ {s}
    /\ UNCHANGED <<annexb, shown, leader, watcher, given, calls>>

Call(k, kind) ==
    /\ watcher[k].step = "idle" /\ calls < MaxCalls
    /\ watcher' = [watcher EXCEPT ![k] = [Idle EXCEPT !.step = "look", !.kind = kind]]
    /\ calls' = calls + 1
    /\ UNCHANGED <<annexb, shown, fresh, leader, given>>

(* snapshot.jpeg up to its first unlock: the cache, the decode of another, *)
(* no key frame, or a decode of its own.                                   *)
(* Mutant: without the singleflight.                                       *)
LookAlone(k) ==
    LET s == Stream(k)
    IN  /\ watcher[k].step = "look"
        /\ IF shown[s] # NoPicture /\ s \in fresh
           THEN Return(k, shown[s]) /\ UNCHANGED leader
           ELSE IF annexb[s] = 0 THEN NoSnapshot(k) /\ UNCHANGED leader
           ELSE /\ leader' = [leader EXCEPT ![s] = k] /\ UNCHANGED given
                /\ watcher' = [watcher EXCEPT ![k].step = "slot", ![k].key = annexb[s]]
        /\ UNCHANGED <<annexb, shown, fresh, calls>>
Look(k) ==
    LET s == Stream(k)
    IN  /\ watcher[k].step = "look"
        /\ IF shown[s] # NoPicture /\ (s \in fresh \/ leader[s] # NoOne)
           THEN Return(k, shown[s]) /\ UNCHANGED leader
           ELSE IF leader[s] # NoOne
           THEN /\ watcher' = [watcher EXCEPT ![k].step = "wait"]
                /\ UNCHANGED <<leader, given>>
           ELSE IF annexb[s] = 0 THEN NoSnapshot(k) /\ UNCHANGED leader
           ELSE /\ leader' = [leader EXCEPT ![s] = k] /\ UNCHANGED given
                /\ watcher' = [watcher EXCEPT ![k].step = "slot", ![k].key = annexb[s]]
        /\ UNCHANGED <<annexb, shown, fresh, calls>>

(* decodeJPEG takes a slot of the semaphore.                               *)
(* Mutant: the semaphore is per camera stream, so it bounds nothing.       *)
TakeSlotFree(k) ==
    /\ watcher[k].step = "slot" /\ watcher' = [watcher EXCEPT ![k].step = "decode"]
    /\ UNCHANGED <<annexb, shown, fresh, leader, given, calls>>
TakeSlot(k) ==
    /\ watcher[k].step = "slot" /\ Cardinality(Decoding) < DecodeSlots
    /\ watcher' = [watcher EXCEPT ![k].step = "decode"]
    /\ UNCHANGED <<annexb, shown, fresh, leader, given, calls>>

(* The end of a decode: inflight is cleared and its channel closed, which  *)
(* wakes those that wait. They read the cache, under the lock again.       *)
(* Mutant: a waiter is not woken when the decode failed.                   *)
WokenOnSuccess(s, ok) ==
    {k \in Watchers : ok /\ watcher[k].step = "wait" /\ Stream(k) = s}
Woken(s, ok) == {k \in Watchers : watcher[k].step = "wait" /\ Stream(k) = s}
Close(k, ok) ==
    [w \in Watchers |->
        IF w = k THEN Idle
        ELSE IF w \in Woken(Stream(k), ok) THEN [watcher[w] EXCEPT !.step = "woken"]
        ELSE watcher[w]]

Decoded(k) ==
    LET s == Stream(k)
        picture == [key |-> watcher[k].key, size |-> Size[watcher[k].kind]]
    IN  /\ watcher[k].step = "decode"
        /\ shown' = [shown EXCEPT ![s] = picture] /\ fresh' = fresh \union {s}
        /\ leader' = [leader EXCEPT ![s] = NoOne]
        /\ watcher' = Close(k, TRUE)
        /\ given' = [given EXCEPT ![k] = [kind |-> watcher[k].kind, picture |-> picture]]
        /\ UNCHANGED <<annexb, calls>>

(* ffmpeg fails or takes 5 s, or the caller hangs up, in the decode or     *)
(* before its slot is free: the last picture, however old, or the error.   *)
(* Mutant: a failed decode is stamped as cached, too.                     *)
DecodeFailsStamping(k) ==
    LET s == Stream(k)
    IN  /\ watcher[k].step \in {"slot", "decode"}
        /\ leader' = [leader EXCEPT ![s] = NoOne] /\ fresh' = fresh \union {s}
        /\ watcher' = Close(k, FALSE)
        /\ UNCHANGED <<annexb, shown, given, calls>>
DecodeFails(k) ==
    LET s == Stream(k)
    IN  /\ watcher[k].step \in {"slot", "decode"}
        /\ leader' = [leader EXCEPT ![s] = NoOne]
        /\ watcher' = Close(k, FALSE)
        /\ given' = IF shown[s] = NoPicture THEN given
                    ELSE [given EXCEPT ![k] = [kind |-> watcher[k].kind, picture |-> shown[s]]]
        /\ UNCHANGED <<annexb, shown, fresh, calls>>

Wake(k) ==
    /\ watcher[k].step = "woken"
    /\ IF shown[Stream(k)] # NoPicture THEN Return(k, shown[Stream(k)]) ELSE NoSnapshot(k)
    /\ UNCHANGED <<annexb, shown, fresh, leader, calls>>

(* The caller of one that waits hangs up.                                  *)
StopWaiting(k) ==
    /\ watcher[k].step \in {"wait", "woken"} /\ Fails(k)
    /\ UNCHANGED <<annexb, shown, fresh, leader, calls>>

----------------------------------------------------------------------------
SnapInit ==
    /\ annexb = [s \in Streams |-> 0] /\ shown = [s \in Streams |-> NoPicture]
    /\ fresh = {} /\ leader = [s \in Streams |-> NoOne]
    /\ watcher = [k \in Watchers |-> Idle]
    /\ given = [k \in Watchers |-> [kind |-> "none", picture |-> NoPicture]]
    /\ calls = 0

SnapNext ==
    \/ \E s \in Streams : OfferKey(s) \/ CacheAges(s)
    \/ \E k \in Watchers, kind \in Kinds : Call(k, kind)
    \/ \E k \in Watchers :
          Look(k) \/ TakeSlot(k) \/ Decoded(k) \/ DecodeFails(k) \/ Wake(k) \/ StopWaiting(k)

SnapSpec == SnapInit /\ [][SnapNext]_snapVars

----------------------------------------------------------------------------
(* Type invariant; a shown picture is of a frame the stream had.          *)
SnapTypeOK ==
    /\ annexb \in [Streams -> 0..MaxKeys] /\ fresh \subseteq Streams
    /\ leader \in [Streams -> Watchers \union {NoOne}]
    /\ \A s \in Streams : shown[s].key <= annexb[s] /\ (s \in fresh => shown[s] # NoPicture)
    /\ \A k \in Watchers :
          watcher[k].step \in {"idle", "look", "slot", "decode", "wait", "woken"}

(* However many watch: never two decodes of one stream and never more in   *)
(* the program than there are slots; inflight belongs to who decodes.      *)
SnapOneDecode ==
    /\ Cardinality(Decoding) <= DecodeSlots
    /\ \A k \in Watchers : watcher[k].step \in {"slot", "decode"} => leader[Stream(k)] = k

(* The picture of a stream never goes back to an older frame.              *)
SnapNeverBack == \A s \in Streams : shown'[s].key >= shown[s].key

(* Whoever waits for a decode waits for one that runs, and ends: nobody is *)
(* forgotten when it fails or its caller hangs up, before ffmpeg or in it. *)
SnapWaiterNotForgotten ==
    \A k \in Watchers : watcher[k].step = "wait" =>
        \E l \in Watchers : /\ leader[Stream(k)] = l /\ Stream(l) = Stream(k)
                            /\ watcher[l].step \in {"slot", "decode"}

(* Decodes are shared and bounded, and nobody waits for one that ended.    *)
SnapSafe == SnapTypeOK /\ SnapOneDecode /\ SnapWaiterNotForgotten

(* ingest.go:153 "Snapshot returns the latest decoded JPEG for a camera at *)
(* full resolution": not while a tile's scaled picture of the main stream  *)
(* is in the cache, as it is for a camera with no sub stream: the cache    *)
(* does not know the size of its picture.                                  *)
SnapFullSize ==
    \A k \in Watchers : given[k].kind = "still" => given[k].picture.size = "full"
===============================================================================
