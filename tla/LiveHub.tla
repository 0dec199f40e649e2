------------------------------- MODULE LiveHub --------------------------------
(***************************************************************************)
(* The live fan-out of one camera stream (live/live.go): ingest sessions   *)
(* offer frames, the hub keeps a ring from the latest key frame and copies *)
(* each frame to the viewers' channels; a goroutine per viewer forwards    *)
(* them with the PTS rebased to an output channel, which liveMP4 reads and *)
(* packages (live/fmp4_stream.go).                                         *)
(*                                                                         *)
(* A frame is [id, ses, pts, key, era]: the id-th frame offered, by which  *)
(* session, its PTS within it, whether the hub took it for a key frame     *)
(* (it asks with the codec of the last Begin, so any answer is possible),  *)
(* and the session of the last Begin. Parameter sets are named by the      *)
(* session they are of. Hub.remove has no caller: a stream once created    *)
(* stays.                                                                  *)
(***************************************************************************)
EXTENDS Integers, Sequences

CONSTANTS
    Viewers,
    RingMax,     \* maxRingFrames
    ChanBuf,     \* subBuf
    VideoClock,  \* videoClock, the longest sample duration
    InBand,      \* the sessions (H.265) whose description omits the sets
    MaxFrames,   \* bound: frames offered
    MaxSessions  \* bound: ingest sessions

(* Subscribe fills the output channel with the ring, under the lock: it    *)
(* must fit.                                                               *)
ASSUME LiveAssumption ==
    /\ ChanBuf \in Nat /\ RingMax \in 1 .. ChanBuf /\ VideoClock \in Nat \ {0}
    /\ MaxFrames \in Nat /\ MaxSessions \in Nat /\ InBand \subseteq Nat \ {0}

VARIABLES
    session,  \* the ingest session: [num, pc, pts, known], known = has it
              \* its parameter sets (~h265NeedParams)
    offered,  \* frames offered to the stream so far
    era,      \* session of the last Begin, 0 = no stream
    params,   \* streamState.sps, pps, vps: whose, 0 = empty
    begun,    \* history: frames offered before the last Begin
    ring,     \* streamState.ring
    viewer    \* per viewer, see NewViewer

liveVars == <<session, offered, era, params, begun, ring, viewer>>

NoViewer == [pc |-> "idle", reg |-> FALSE, raw |-> <<>>, closed |-> FALSE,
             held |-> <<>>, out |-> <<>>, outClosed |-> TRUE,
             zero |-> 0, era |-> 0, params |-> 0, ses |-> 0, last |-> <<>>, dur |-> 0]

Rebased(f, zero) == [f EXCEPT !.pts = @ - zero]

(* Mutant: the ring's newest frame is the origin.                          *)
NewViewerAtLast(r, e, sets) ==
    [NoViewer EXCEPT !.pc = "watching", !.reg = TRUE, !.outClosed = FALSE,
        !.zero = r[Len(r)].pts, !.era = e, !.params = sets, !.ses = r[1].ses,
        !.out = [i \in DOMAIN r |-> Rebased(r[i], r[Len(r)].pts)]]
NewViewer(r, e, sets) ==
    [NoViewer EXCEPT !.pc = "watching", !.reg = TRUE, !.outClosed = FALSE,
        !.zero = r[1].pts, !.era = e, !.params = sets, !.ses = r[1].ses,
        !.out = [i \in DOMAIN r |-> Rebased(r[i], r[1].pts)]]

Kicked(x) == [x EXCEPT !.reg = FALSE, !.closed = TRUE]

----------------------------------------------------------------------------
(* Ingest: packet callbacks run from Play on, Begin is called after it.    *)

LivePlay ==
    /\ session.pc = "down" /\ session.num < MaxSessions
    /\ session' = [num |-> session.num + 1, pc |-> "playing", pts |-> 0,
                    known |-> session.num + 1 \notin InBand]
    /\ UNCHANGED <<offered, era, params, begun, ring, viewer>>

(* The sets Begin puts in force. Its arguments are read before it takes    *)
(* the lock: a session that learns its sets in between passes none.        *)
SetsAtBegin ==
    (IF session.known THEN {session.num} ELSE {}) \cup (IF session.num \in InBand THEN {0} ELSE {})

(* Mutant: the sets of the old session stay in force.                      *)
BeginKeepingSets ==
    /\ session.pc = "playing"
    /\ session' = [session EXCEPT !.pc = "live"]
    /\ era' = session.num /\ begun' = offered /\ ring' = <<>>
    /\ viewer' = [v \in Viewers |-> IF viewer[v].reg THEN Kicked(viewer[v]) ELSE viewer[v]]
    /\ UNCHANGED <<offered, params>>
(* Mutant: registered viewers stay.                                        *)
BeginKeeping ==
    /\ session.pc = "playing"
    /\ session' = [session EXCEPT !.pc = "live"]
    /\ era' = session.num /\ params' \in SetsAtBegin /\ begun' = offered /\ ring' = <<>>
    /\ UNCHANGED <<offered, viewer>>
(* Mutant: their channels are not closed.                                  *)
BeginNotClosing ==
    /\ session.pc = "playing"
    /\ session' = [session EXCEPT !.pc = "live"]
    /\ era' = session.num /\ params' \in SetsAtBegin /\ begun' = offered /\ ring' = <<>>
    /\ viewer' = [v \in Viewers |-> [viewer[v] EXCEPT !.reg = FALSE]]
    /\ UNCHANGED offered
Begin ==
    /\ session.pc = "playing"
    /\ session' = [session EXCEPT !.pc = "live"]
    /\ era' = session.num /\ params' \in SetsAtBegin /\ begun' = offered /\ ring' = <<>>
    /\ viewer' = [v \in Viewers |-> IF viewer[v].reg THEN Kicked(viewer[v]) ELSE viewer[v]]
    /\ UNCHANGED offered

(* A key frame carries the sets the description omitted: they are in force *)
(* at once, before Begin too, if there is a stream; viewers that have      *)
(* joined keep what they were given.                                       *)
SetParams ==
    /\ session.pc \in {"playing", "live"} /\ ~session.known
    /\ session' = [session EXCEPT !.known = TRUE]
    /\ params' = IF era = 0 THEN 0 ELSE session.num
    /\ UNCHANGED <<offered, era, begun, ring, viewer>>

(* Mutant: a key frame does not start the ring over.                       *)
NewRingGrown(f) ==
    LET r == Append(ring, f)
    IN  IF Len(r) > RingMax THEN Tail(r) ELSE r
NewRing(f) ==
    LET r == IF f.key THEN <<f>> ELSE Append(ring, f)
    IN  IF Len(r) > RingMax THEN Tail(r) ELSE r

(* A registered viewer gets the frame, or is dropped if its channel is     *)
(* full. Mutants: the channel has no limit; the frame is dropped instead.  *)
DeliveredUnbounded(x, f) == IF x.reg THEN [x EXCEPT !.raw = Append(@, f)] ELSE x
DeliveredOrLost(x, f) ==
    IF ~x.reg \/ Len(x.raw) = ChanBuf THEN x ELSE [x EXCEPT !.raw = Append(@, f)]
Delivered(x, f) ==
    IF ~x.reg THEN x
    ELSE IF Len(x.raw) < ChanBuf THEN [x EXCEPT !.raw = Append(@, f)]
    ELSE Kicked(x)

(* A frame for a stream that no Begin has created is ignored.              *)
Offer(key) ==
    /\ session.pc \in {"playing", "live"}
    /\ era # 0 /\ offered < MaxFrames
    /\ LET f == [id |-> offered + 1, ses |-> session.num, pts |-> session.pts, key |-> key, era |-> era]
       IN  /\ ring' = NewRing(f)
           /\ viewer' = [v \in Viewers |-> Delivered(viewer[v], f)]
    /\ offered' = offered + 1
    /\ session' = [session EXCEPT !.pts = @ + 1]
    /\ UNCHANGED <<era, params, begun>>

LiveSessionEnds ==
    /\ session.pc \in {"playing", "live"}
    /\ session' = [session EXCEPT !.pc = "down"]
    /\ UNCHANGED <<offered, era, params, begun, ring, viewer>>

----------------------------------------------------------------------------
(* A viewer: Subscribe, the forwarding goroutine, the handler's loop.      *)

SetViewer(v, x) ==
    viewer' = [viewer EXCEPT ![v] = x] /\ UNCHANGED <<session, offered, era, params, begun, ring>>

Subscribe(v) ==
    /\ viewer[v].pc = "idle"
    /\ era # 0 /\ ring # <<>>
    /\ SetViewer(v, NewViewer(ring, era, params))

ForwardTake(v) ==
    /\ viewer[v].held = <<>> /\ viewer[v].raw # <<>>
    /\ LET x == viewer[v] IN
       SetViewer(v, [x EXCEPT !.held = <<Rebased(Head(x.raw), x.zero)>>, !.raw = Tail(@)])

ForwardPut(v) ==
    /\ viewer[v].held # <<>> /\ Len(viewer[v].out) < ChanBuf
    /\ SetViewer(v, [viewer[v] EXCEPT !.out = @ \o viewer[v].held, !.held = <<>>])

(* range over raw ends: out is closed.                                     *)
ForwardEnds(v) ==
    /\ viewer[v].closed /\ viewer[v].raw = <<>> /\ viewer[v].held = <<>>
    /\ ~viewer[v].outClosed
    /\ SetViewer(v, [viewer[v] EXCEPT !.outClosed = TRUE])

Forward(v) == ForwardTake(v) \/ ForwardPut(v) \/ ForwardEnds(v)

(* estimateFrameDuration and the fallback for 0.                           *)
SampleDuration(pts, prev) ==
    IF prev <= 0 THEN 1
    ELSE IF pts - prev < 1 THEN 1
    ELSE IF pts - prev > VideoClock THEN VideoClock ELSE pts - prev

LastPTS(x) == IF x.last = <<>> THEN 0 ELSE Head(x.last).pts

(* WriteSample of the next frame.                                          *)
WatchFrame(v) ==
    /\ viewer[v].pc = "watching" /\ viewer[v].out # <<>>
    /\ LET x == viewer[v]
           f == Head(x.out)
       IN  SetViewer(v, [x EXCEPT !.out = Tail(@), !.last = <<f>>,
                                  !.dur = SampleDuration(f.pts, LastPTS(x))])

(* The handler returns (channel closed, request cancelled, write failed,   *)
(* codec not H.264) and runs cancel: delete under the lock, then close.    *)
WatchClosed(v) ==
    /\ viewer[v].pc = "watching" /\ viewer[v].out = <<>> /\ viewer[v].outClosed
    /\ SetViewer(v, [viewer[v] EXCEPT !.pc = "cancel"])

Leave(v) ==
    /\ viewer[v].pc = "watching"
    /\ SetViewer(v, [viewer[v] EXCEPT !.pc = "cancel"])

(* Mutant: closed first.                                                   *)
CancelCloseFirst(v) ==
    /\ viewer[v].pc = "cancel"
    /\ SetViewer(v, [viewer[v] EXCEPT !.closed = TRUE, !.pc = "close"])
CancelDelete(v) ==
    /\ viewer[v].pc = "cancel"
    /\ SetViewer(v, [viewer[v] EXCEPT !.reg = FALSE, !.pc = "close"])

(* Mutant: not closed at all.                                              *)
CancelLeavesOpen(v) ==
    /\ viewer[v].pc = "close"
    /\ SetViewer(v, [viewer[v] EXCEPT !.pc = "left"])
CancelClose(v) ==
    /\ viewer[v].pc = "close"
    /\ SetViewer(v, [viewer[v] EXCEPT !.closed = TRUE, !.pc = "left"])

Handler(v) == WatchFrame(v) \/ WatchClosed(v) \/ CancelDelete(v) \/ CancelClose(v)

----------------------------------------------------------------------------
LiveInit ==
    /\ session = [num |-> 0, pc |-> "down", pts |-> 0, known |-> TRUE]
    /\ offered = 0 /\ era = 0 /\ params = 0 /\ begun = 0 /\ ring = <<>>
    /\ viewer = [v \in Viewers |-> NoViewer]

LiveNext ==
    \/ LivePlay \/ Begin \/ SetParams \/ LiveSessionEnds
    \/ \E key \in BOOLEAN : Offer(key)
    \/ \E v \in Viewers : Subscribe(v) \/ Forward(v) \/ Handler(v) \/ Leave(v)

LiveSpec == LiveInit /\ [][LiveNext]_liveVars

(* Goroutines run and a handler that waits on a closed or ready channel    *)
(* proceeds (a stuck write is a Leave); nobody has to watch, leave or send.*)
LiveFairness ==
    \A v \in Viewers : WF_liveVars(Forward(v)) /\ WF_liveVars(Handler(v))

----------------------------------------------------------------------------
(* Properties.                                                             *)

(* A frame is offered by the session of the last Begin or a later one.     *)
Frames ==
    {f \in [id : 1 .. MaxFrames, ses : 1 .. MaxSessions, pts : -MaxFrames .. MaxFrames,
            key : BOOLEAN, era : 1 .. MaxSessions] : f.era <= f.ses}

(* Types; channels within their capacity, durations within theirs.         *)
LiveTypeOK ==
    /\ session \in [num : 0 .. MaxSessions, pc : {"down", "playing", "live"}, pts : 0 .. MaxFrames,
                   known : BOOLEAN]
    /\ offered \in 0 .. MaxFrames /\ begun \in 0 .. offered
    /\ era \in 0 .. session.num /\ params \in 0 .. session.num
    /\ ring \in Seq(Frames) /\ Len(ring) <= RingMax
    /\ \A v \in Viewers :
         LET x == viewer[v] IN
         /\ x.pc \in {"idle", "watching", "cancel", "close", "left"}
         /\ {x.reg, x.closed, x.outClosed} \subseteq BOOLEAN
         /\ {x.raw, x.held, x.out, x.last} \subseteq Seq(Frames)
         /\ Len(x.raw) <= ChanBuf /\ Len(x.out) <= ChanBuf /\ Len(x.held) <= 1
         /\ x.dur \in 0 .. VideoClock

(* Everything on its way to the viewer, oldest first, starting with the    *)
(* frame it got last.                                                      *)
InFlight(x) == x.last \o x.out \o x.held \o x.raw

(* live.go:133 "a dropped P-frame breaks decode": what a viewer gets is a  *)
(* run of offered frames without a hole, up to the latest one while it is  *)
(* registered.                                                             *)
LiveNoHole ==
    \A v \in Viewers :
        LET q == InFlight(viewer[v]) IN
        /\ \A i \in 1 .. Len(q) - 1 : q[i + 1].id = q[i].id + 1
        /\ viewer[v].reg => q[Len(q)].id = offered

(* A registered viewer's channel is open, whoever removes it: Offer never  *)
(* sends on a closed channel.                                              *)
LiveNoSendOnClosed == \A v \in Viewers : viewer[v].reg => ~viewer[v].closed

(* The parameter sets that may be in force after the Begin of session e:   *)
(* its own; none, if its description has none and it has not shown them    *)
(* yet; or those of a later session that shows its sets before its Begin.  *)
SetsUnder(e) ==
    {e} \cup {s \in InBand : s > e} \cup (IF e \in InBand THEN {0} ELSE {})

(* live.go:72: a new session kicks the viewers, so what a viewer is sent   *)
(* was all offered after one Begin, which set the parameter sets it was    *)
(* given, up to sets that come in band (LiveParamsFresh); frames of a      *)
(* later session come only from one that has not begun yet.                *)
LiveParamsMatch ==
    /\ params \in SetsUnder(era)
    /\ \A v \in Viewers :
         LET x == viewer[v]
             q == InFlight(x)
         IN  /\ x.params \in SetsUnder(x.era)
             /\ \A i \in DOMAIN q : q[i].era = x.era /\ q[i].ses >= x.era
LiveParamsFresh == \A v \in Viewers : viewer[v].params = viewer[v].era

(* live.go:145: a viewer's time line starts at 0 and advances, as long as  *)
(* the frames are of the session it joined in.                             *)
LiveTimeLine ==
    \A v \in Viewers :
        LET x == viewer[v]
            q == x.last \o x.out \o x.held
        IN \A i \in DOMAIN q :
             q[i].ses = x.ses => /\ q[i].pts >= 0
                                 /\ i > 1 => q[i].pts > q[i - 1].pts

(* The ring is part of one group of pictures: a suffix of what was offered *)
(* since Begin, with a key frame nowhere but at its start; and it starts   *)
(* with one, or with the first frame after Begin, or it is full and has    *)
(* lost its start. live.go:168 says that it always starts with one         *)
(* (LiveRingStartsWithKey).                                                *)
LiveRingIsOneGroup ==
    /\ \A i \in DOMAIN ring :
         /\ ring[i].id = offered - Len(ring) + i
         /\ ring[i].key => i = 1
         /\ ring[i].era = era
    /\ ring # <<>> => ring[1].key \/ ring[1].id = begun + 1 \/ Len(ring) = RingMax
LiveRingStartsWithKey == ring # <<>> => ring[1].key

(* What a viewer receives has no hole, comes with the parameter sets of    *)
(* the last Begin up to sets sent in band, and its time line advances; the *)
(* ring it starts with is of one group of pictures; and no frame is sent   *)
(* on a closed channel.                                                    *)
LiveSafe ==
    /\ LiveTypeOK /\ LiveNoHole /\ LiveNoSendOnClosed
    /\ LiveParamsMatch /\ LiveTimeLine /\ LiveRingIsOneGroup

(* A viewer that was kicked or dropped sees its stream end.                *)
LiveKickedEnds ==
    \A v \in Viewers : (viewer[v].pc = "watching" /\ ~viewer[v].reg) ~> viewer[v].pc # "watching"

(* The goroutine of a viewer that left ends if what it still has to        *)
(* forward fits into the output channel; live.go:190 "we drain and close   *)
(* `out`" promises it always does (LiveForwardersEnd).                     *)
Fits(x) == Len(x.out) + Len(x.held) + Len(x.raw) <= ChanBuf
LiveForwardersEndIfFits ==
    \A v \in Viewers : (viewer[v].pc = "left" /\ Fits(viewer[v])) ~> viewer[v].outClosed
LiveForwardersEnd == \A v \in Viewers : viewer[v].pc = "left" ~> viewer[v].outClosed

(* Every viewer that is dropped or has left comes to its end: the handler  *)
(* of the one, the goroutine of the other.                                 *)
LiveEnds == LiveKickedEnds /\ LiveForwardersEndIfFits
===============================================================================
