------------------------------ MODULE Recorder ------------------------------
(***************************************************************************)
(* The recorder of one camera (record/recorder.go): it cuts the stream of  *)
(* access units into segments at key frames, or, in motion mode, keeps a   *)
(* pre-roll ring and records only while motion is signalled. Three         *)
(* goroutines use it under its mutex: the RTSP reader (WriteVideo), the    *)
(* session loop (Close) and the event bridge (MotionActive). A segment cut *)
(* by WriteVideo is flushed by a goroutine of its own; Close and           *)
(* MotionActive flush in the caller.                                       *)
(*                                                                         *)
(* An access unit is its position in the delivery log. Time is a number of *)
(* ticks, at most one access unit per tick. The wall-clock time of an      *)
(* access unit is its arrival time until the camera has sent a sender      *)
(* report, and the camera's own clock from then on. Audio is left out.     *)
(***************************************************************************)
EXTENDS Integers, Sequences, SequencesExt

CONSTANTS
    Modes,     \* record modes considered
    SegDur,    \* targetSegDur
    PreRoll,   \* preRollRing
    Skews,     \* camera clock minus server clock, the possibilities
    Horizon,   \* bound: the clock stops here
    MaxSessions \* bound: how many RTSP sessions there are

ASSUME RecorderAssumption ==
    /\ Modes \subseteq {"continuous", "motion", "off"}
    /\ SegDur \in Nat \ {0} /\ PreRoll \in Nat \ {0}
    /\ Horizon \in Nat /\ MaxSessions \in Nat
    /\ Skews \subseteq Int

VARIABLES
    mode,         \* r.mode: SetMode is called once, by newCameraWorker
    now,          \* the server's clock
    skew,         \* this camera's clock error
    synced,       \* has the session's camera sent a sender report?
    session,      \* number of the RTSP session
    log,          \* history: access units delivered, with their circumstances
    open,         \* r.open
    samples,      \* r.vSamples: positions in log
    times,        \* r.vNTP: wall-clock times, kept in the ring only
    startNTP,     \* r.startNTP
    motionActive, \* r.motionActive
    cuts,         \* history: the segments cut so far, r.seq = Len(cuts)
    flushing,     \* segments whose flush is not over
    closeWait,    \* the segment Close is flushing, 0 = none
    motionWait    \* the segment MotionActive is flushing, 0 = none

streamVars == <<mode, now, skew, synced, session, log>>
recVars    == <<open, samples, times, startNTP, motionActive>>
flushVars  == <<cuts, flushing, closeWait, motionWait>>
vars == <<streamVars, recVars, flushVars>>

Key(n) == log[n].key
Recording == mode = "continuous" \/ (mode = "motion" /\ motionActive)

----------------------------------------------------------------------------
(* Cutting.                                                                *)

(* snapshotLocked: the samples become a segment, numbered by r.seq, and    *)
(* the per-segment state is reset. No samples, no segment.                 *)
Cut(by) ==
    /\ cuts' = IF samples = <<>> THEN cuts
               ELSE Append(cuts, [start |-> startNTP, frames |-> samples, by |-> by])
    /\ flushing' = IF samples = <<>> THEN flushing
                   ELSE flushing \cup {Len(cuts) + 1}

(* trimRingLocked: if the ring spans more than PreRoll, it starts again at *)
(* the newest key frame of its leading run of frames not after the cutoff. *)
NewestKey(candidates, keys) ==
    LET heads == {i \in candidates : keys[i]}
    IN IF heads = {} THEN 1 ELSE CHOOSE i \in heads : \A j \in heads : j <= i
(* Mutant: the newest key frame of the whole ring, cutoff or not.          *)
RingHeadNewest(ntps, keys) ==
    IF Last(ntps) - ntps[1] <= PreRoll THEN 1 ELSE NewestKey(DOMAIN ntps, keys)
RingHead(ntps, keys) ==
    LET cutoff == Last(ntps) - PreRoll
        old == {i \in DOMAIN ntps : \A j \in 1 .. i : ntps[j] <= cutoff}
    IN IF Last(ntps) - ntps[1] <= PreRoll THEN 1 ELSE NewestKey(old, keys)

----------------------------------------------------------------------------
(* WriteVideo, one disjunct per way through it. The access unit of this    *)
(* tick is position n of the log; cuts are flushed by a new goroutine.     *)

WriteOff ==
    /\ mode = "off"
    /\ UNCHANGED <<recVars, flushVars>>

WriteRing(n, isKey, ntp) ==
    /\ mode = "motion" /\ ~motionActive
    /\ LET frames == Append(samples, n)
           ntps   == Append(times, ntp)
           keys   == Append([i \in DOMAIN samples |-> Key(samples[i])], isKey)
           head   == RingHead(ntps, keys) IN
       /\ samples' = SubSeq(frames, head, Len(frames))
       /\ times'   = SubSeq(ntps, head, Len(ntps))
    /\ UNCHANGED <<open, startNTP, motionActive, flushVars>>

WriteWaitForKey(isKey) ==
    /\ Recording /\ ~open /\ ~isKey
    /\ UNCHANGED <<recVars, flushVars>>

WriteFirst(n, isKey, ntp) ==
    /\ Recording /\ ~open /\ isKey
    /\ open' = TRUE /\ startNTP' = ntp
    /\ samples' = Append(samples, n)
    /\ UNCHANGED <<times, motionActive, flushVars>>

(* Mutant: the cut does not wait for a key frame.                          *)
CutDueAnyFrame(isKey, ntp) == ntp - startNTP >= SegDur
(* Mutant: the boundary is missed by one.                                  *)
CutDueLate(isKey, ntp) == isKey /\ ntp - startNTP > SegDur
CutDue(isKey, ntp) == isKey /\ ntp - startNTP >= SegDur

WriteNext(n, isKey, ntp) ==
    /\ Recording /\ open /\ ~CutDue(isKey, ntp)
    /\ samples' = Append(samples, n)
    /\ UNCHANGED <<open, times, startNTP, motionActive, flushVars>>

(* Mutants: the key frame that ends a segment belongs to neither; the new  *)
(* segment starts with the samples of the old one.                         *)
WriteCutWithoutReset(n, isKey, ntp) ==
    /\ Recording /\ open /\ CutDue(isKey, ntp)
    /\ Cut("key")
    /\ startNTP' = ntp /\ samples' = Append(samples, n) /\ times' = <<>>
    /\ UNCHANGED <<open, motionActive, closeWait, motionWait>>
WriteCutDroppingKey(n, isKey, ntp) ==
    /\ Recording /\ open /\ CutDue(isKey, ntp)
    /\ Cut("key")
    /\ startNTP' = ntp /\ samples' = <<>> /\ times' = <<>>
    /\ UNCHANGED <<open, motionActive, closeWait, motionWait>>
WriteCut(n, isKey, ntp) ==
    /\ Recording /\ open /\ CutDue(isKey, ntp)
    /\ Cut("key")
    /\ startNTP' = ntp /\ samples' = <<n>> /\ times' = <<>>
    /\ UNCHANGED <<open, motionActive, closeWait, motionWait>>

(* An access unit arrives: PacketNTP is known only after a sender report,  *)
(* until then onVideoAU takes the arrival time.                            *)
WriteVideo(isKey) ==
    LET n   == Len(log) + 1
        ntp == now + 1 + IF synced THEN skew ELSE 0 IN
    /\ now < Horizon /\ closeWait = 0
    /\ now' = now + 1
    /\ log' = Append(log, [key |-> isKey, at |-> now + 1, ntp |-> ntp,
                           session |-> session, recording |-> Recording])
    /\ \/ WriteOff
       \/ WriteRing(n, isKey, ntp)
       \/ WriteWaitForKey(isKey)
       \/ WriteFirst(n, isKey, ntp)
       \/ WriteNext(n, isKey, ntp)
       \/ WriteCut(n, isKey, ntp)
    /\ UNCHANGED <<mode, skew, synced, session>>

----------------------------------------------------------------------------
(* MotionActive, called by the event bridge, which waits for the flush.    *)

MotionOn ==
    /\ mode = "motion" /\ ~motionActive /\ motionWait = 0
    /\ motionActive' = TRUE
    /\ IF ~open /\ samples # <<>>
       THEN open' = TRUE /\ startNTP' = times[1]
       ELSE UNCHANGED <<open, startNTP>>
    /\ UNCHANGED <<streamVars, samples, times, flushVars>>

(* Mutants: the ring's times survive the cut; the window's last segment is *)
(* dropped instead of flushed.                                             *)
MotionOffKeepingTimes ==
    /\ mode = "motion" /\ motionActive /\ motionWait = 0
    /\ motionActive' = FALSE
    /\ IF open
       THEN /\ Cut("motion")
            /\ open' = FALSE /\ samples' = <<>>
            /\ motionWait' = IF samples = <<>> THEN 0 ELSE Len(cuts) + 1
       ELSE UNCHANGED <<open, samples, cuts, flushing, motionWait>>
    /\ UNCHANGED <<streamVars, times, startNTP, closeWait>>
MotionOffDropping ==
    /\ mode = "motion" /\ motionActive /\ motionWait = 0
    /\ motionActive' = FALSE /\ open' = FALSE /\ samples' = <<>> /\ times' = <<>>
    /\ UNCHANGED <<streamVars, startNTP, flushVars>>
MotionOff ==
    /\ mode = "motion" /\ motionActive /\ motionWait = 0
    /\ motionActive' = FALSE
    /\ IF open
       THEN /\ Cut("motion")
            /\ open' = FALSE /\ samples' = <<>> /\ times' = <<>>
            /\ motionWait' = IF samples = <<>> THEN 0 ELSE Len(cuts) + 1
       ELSE UNCHANGED <<open, samples, times, cuts, flushing, motionWait>>
    /\ UNCHANGED <<streamVars, startNTP, closeWait>>

(* The session ends. Close flushes an open segment; a ring stays.          *)
Close ==
    /\ closeWait = 0 /\ session < MaxSessions
    /\ session' = session + 1 /\ synced' = FALSE
    /\ IF open
       THEN /\ Cut("close")
            /\ open' = FALSE /\ samples' = <<>> /\ times' = <<>>
            /\ closeWait' = IF samples = <<>> THEN 0 ELSE Len(cuts) + 1
       ELSE UNCHANGED <<open, samples, times, cuts, flushing, closeWait>>
    /\ UNCHANGED <<mode, now, skew, log, startNTP, motionActive, motionWait>>

----------------------------------------------------------------------------
(* marshalAndFlush of segment i returns: its row is in the index. (How a   *)
(* flush may fail, and what that leaves behind, is Archive's subject.)      *)
FlushDone(i) ==
    /\ i \in flushing
    /\ flushing' = flushing \ {i}
    /\ closeWait'  = IF closeWait = i THEN 0 ELSE closeWait
    /\ motionWait' = IF motionWait = i THEN 0 ELSE motionWait
    /\ UNCHANGED <<streamVars, recVars, cuts>>

(* No access unit in this tick.                                            *)
Idle ==
    /\ now < Horizon
    /\ now' = now + 1
    /\ UNCHANGED <<mode, skew, synced, session, log, recVars, flushVars>>

SenderReport ==
    /\ ~synced /\ synced' = TRUE
    /\ UNCHANGED <<mode, now, skew, session, log, recVars, flushVars>>

Init ==
    /\ mode \in Modes /\ now = 0 /\ skew \in Skews /\ synced = FALSE /\ session = 1 /\ log = <<>>
    /\ open = FALSE /\ samples = <<>> /\ times = <<>> /\ startNTP = 0
    /\ motionActive = FALSE
    /\ cuts = <<>> /\ flushing = {} /\ closeWait = 0 /\ motionWait = 0

Next ==
    \/ \E isKey \in BOOLEAN : WriteVideo(isKey)
    \/ MotionOn
    \/ MotionOff
    \/ Close
    \/ \E i \in flushing : FlushDone(i)
    \/ Idle
    \/ SenderReport

Spec == Init /\ [][Next]_vars

----------------------------------------------------------------------------
(* Properties.                                                             *)

(* Types, and what trimRingLocked and MotionActive index without a check:  *)
(* while no segment is open vNTP is parallel to vSamples, and an open      *)
(* segment is never empty.                                                 *)
TypeOK ==
    /\ mode \in Modes /\ now \in 0 .. Horizon /\ skew \in Skews /\ synced \in BOOLEAN
    /\ open \in BOOLEAN /\ motionActive \in BOOLEAN
    /\ samples \in Seq(1 .. Len(log)) /\ times \in Seq(Int) /\ startNTP \in Int
    /\ ~open => Len(times) = Len(samples)
    /\ open => samples # <<>>
    /\ flushing \subseteq 1 .. Len(cuts)
    /\ closeWait \in {0} \cup flushing /\ motionWait \in {0} \cup flushing

InCuts(n) == \E i \in DOMAIN cuts : \E j \in DOMAIN cuts[i].frames : cuts[i].frames[j] = n
Kept(n) == InCuts(n) \/ (open /\ \E j \in DOMAIN samples : samples[j] = n)

(* Nothing delivered while recording is lost: a key frame is always kept,  *)
(* and once a frame is kept so is the next of the same session, however    *)
(* cuts and disconnects fall. Only the end of a motion window breaks the   *)
(* sequence: until the next key frame a new window has nothing to add to.  *)
ClosedByMotion(n) ==
    \E i \in DOMAIN cuts : cuts[i].by = "motion" /\ Last(cuts[i].frames) = n
NoFrameLost ==
    \A n \in DOMAIN log :
        /\ log[n].recording /\ Key(n) => Kept(n)
        /\ n + 1 \in DOMAIN log /\ log[n + 1].recording /\ Kept(n)
             /\ log[n].session = log[n + 1].session /\ ~ClosedByMotion(n)
             => Kept(n + 1)

(* Segments, in the order they were cut, partition what was kept: no frame *)
(* is in two segments and none is out of order.                            *)
Increasing(frames) == \A i, j \in DOMAIN frames : i < j => frames[i] < frames[j]
Before(first, second) ==
    \A i \in DOMAIN first : \A j \in DOMAIN second : first[i] < second[j]
InOrder ==
    /\ Increasing(samples)
    /\ \A i \in DOMAIN cuts :
         /\ Increasing(cuts[i].frames) /\ Before(cuts[i].frames, samples)
         /\ \A k \in DOMAIN cuts : i < k => Before(cuts[i].frames, cuts[k].frames)

(* Every frame of a recording is in one segment, and in its place there.   *)
FramesKept == TypeOK /\ NoFrameLost /\ InOrder

(* docs/01-architecture.md:56 "segments must start with an IDR frame to be  *)
(* independently playable"; and no segment joins two RTSP sessions, whose  *)
(* timestamps have nothing in common. Both hold in continuous mode; in     *)
(* motion mode the ring carries frames over a reconnect and into a window  *)
(* that opens in the middle of a group of pictures.                        *)
StartsWithKey == \A i \in DOMAIN cuts : Key(cuts[i].frames[1])
OneSession ==
    \A i \in DOMAIN cuts : \A j, k \in DOMAIN cuts[i].frames :
        log[cuts[i].frames[j]].session = log[cuts[i].frames[k]].session
SegmentsPlayable == mode = "continuous" => StartsWithKey /\ OneSession

(* The recorder compares wall-clock times of which one may be the server's *)
(* and another the camera's, in a ring that outlived its session in either *)
(* order. So far as the two clocks are apart it is wrong, and no further.  *)
Apart == IF skew < 0 THEN -skew ELSE skew

(* The pre-roll ring holds every frame of the last PreRoll, and, beyond    *)
(* that, not more than the group of pictures it needs to start decoding;   *)
(* by the times of arrival, give or take what the clocks are apart.        *)
RingCovers ==
    mode = "motion" /\ ~open /\ times # <<>> =>
        LET cutoff == log[Len(log)].at - PreRoll IN
        /\ \A n \in samples[1] .. Len(log) : \E j \in DOMAIN samples : samples[j] = n
        /\ samples[1] > 1 /\ ~InCuts(samples[1] - 1) /\ ~log[samples[1] - 1].recording
             => log[samples[1] - 1].at <= cutoff + Apart
        /\ \A j \in 2 .. Len(samples) :
              Key(samples[j]) => log[samples[j]].at > cutoff - Apart

(* The age of a segment is as far off: a key frame that arrives SegDur and *)
(* Apart after the first frame starts the next segment, and only a key     *)
(* frame does, at most Apart too early.                                    *)
CutOnAge ==
    [][\A n \in DOMAIN log' \ DOMAIN log :
          LET age == log'[n].at - log[samples[1]].at
          IN  open => /\ log'[n].key /\ age >= SegDur + Apart => samples' = <<n>>
                      /\ samples' = <<n>> => log'[n].key /\ age >= SegDur - Apart]_vars

(* docs/05-ingest-streaming.md:34 "close + cut when (age >= 6s) AND (next   *)
(* frame is IDR)" (the code's figure is 1s): no segment holds a key frame  *)
(* that arrived SegDur or more after its first frame. Violated: when the   *)
(* first sender report of a camera whose clock is behind arrives, the age  *)
(* steps back and the key frames that follow do not cut.                   *)
SegmentsCutAtAge ==
    mode = "continuous" /\ open =>
        \A j \in 2 .. Len(samples) :
            Key(samples[j]) => log[samples[j]].at - log[samples[1]].at < SegDur

(* store.go:67 "start_ts only increases": a segment is indexed after the   *)
(* ones that started before it.                                            *)
IndexedInOrder ==
    [][\A i \in flushing \ flushing' : \A j \in flushing' : j > i]_vars
============================================================================
