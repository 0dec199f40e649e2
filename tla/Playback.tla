------------------------------- MODULE Playback --------------------------------
(***************************************************************************)
(* What a viewer is shown of one camera's segment index while the recorder *)
(* fills it: the timeline (coverage and motion density), the HLS playlists *)
(* (internal/api/playback_handlers.go) and the index queries below them    *)
(* (internal/record/store.go). Reads change nothing, so they are operators *)
(* over the index; the properties ask them for every window over Times.    *)
(* Time is counted in units, Second of them to a second: a unit is what    *)
(* separates two segments' paths, and the shortest duration a playlist     *)
(* announces, a millisecond. A density is the covered part of its bucket,  *)
(* not yet divided by the bucket's length.                                 *)
(***************************************************************************)
EXTENDS Integers, FiniteSets, SequencesExt

CONSTANTS
    Second,      \* units in a second: sequence numbers are whole seconds
    Lengths,     \* from a segment's start to its end
    Pauses,      \* from the end of one segment to the start of the next
    LiveLimit,   \* segments of a live playlist (RecentSegments' limit)
    Buckets,     \* buckets of the timeline
    Times,       \* bound: the ends of the windows asked for
    MaxSegments  \* bound: segments the recorder cuts

ASSUME PlaybackAssumption ==
    /\ Second \in Nat \ {0} /\ Lengths \subseteq Int /\ Pauses \subseteq Int
    /\ LiveLimit \in Nat \ {0} /\ Buckets \in Nat \ {0}
    /\ Times \subseteq Int

VARIABLES
    segs,    \* the segments in the order the recorder cut them
    indexed  \* those InsertSegment has stored, by their place in segs

playbackVars == <<segs, indexed>>

Segment == [start : Int, end : Int, motion : BOOLEAN]
Earlier(i, j) == segs[i].start < segs[j].start
ByStart(I) ==
    LET before(i) == {j \in I : Earlier(j, i)}
    IN  [k \in 1..Cardinality(I) |->
            segs[CHOOSE i \in I : Cardinality(before(i)) = k - 1]]

----------------------------------------------------------------------------
(* The recorder. The clock is the camera's where it has sent a report and  *)
(* the server's where not (ingest/worker.go:393), and steps when one takes *)
(* over from the other: a segment may start before the last one ended, or  *)
(* started, and may end before its start.                                  *)
Starts == IF segs = <<>> THEN {0} ELSE {Last(segs).end + p : p \in Pauses}

CutSegment ==
    /\ Len(segs) < MaxSegments
    /\ \E s \in Starts, n \in Lengths, m \in BOOLEAN :
          segs' = Append(segs, [start |-> s, end |-> s + n, motion |-> m])
    /\ UNCHANGED indexed

(* Every cut is flushed by a goroutine of its own: in any order. The path  *)
(* is the start, and a path that is there is not stored again.             *)
(* Mutant: the segment that is still being recorded is indexed, too.       *)
IndexAhead ==
    /\ \E i \in 1..Len(segs) + 1 \ indexed : indexed' = indexed \union {i}
    /\ UNCHANGED segs
IndexSegment ==
    /\ \E i \in DOMAIN segs \ indexed :
          /\ \A j \in indexed : segs[j].start # segs[i].start
          /\ indexed' = indexed \union {i}
    /\ UNCHANGED segs

----------------------------------------------------------------------------
(* The index queries.                                                      *)
SegmentsInRange(from, to) ==
    ByStart({i \in indexed : segs[i].start < to /\ segs[i].end > from})

(* Mutant: the oldest segments instead of the newest.                      *)
OldestSegments ==
    LET older(i) == {j \in indexed : Earlier(j, i)}
    IN  ByStart({i \in indexed : Cardinality(older(i)) < LiveLimit})
RecentSegments ==
    LET newer(i) == {j \in indexed : Earlier(i, j)}
    IN  ByStart({i \in indexed : Cardinality(newer(i)) < LiveLimit})

----------------------------------------------------------------------------
(* mergeRanges: the coverage mask of the timeline.                         *)
(* Mutant: the end of a merged range is the end of the last segment, and   *)
(* touching segments are not merged.                                       *)
MergeTouchingApart(out, s) ==
    IF out # <<>> /\ s.start < Last(out).end
    THEN [out EXCEPT ![Len(out)].end = s.end]
    ELSE Append(out, [start |-> s.start, end |-> s.end])
Merge(out, s) ==
    IF out # <<>> /\ s.start <= Last(out).end
    THEN IF s.end > Last(out).end THEN [out EXCEPT ![Len(out)].end = s.end] ELSE out
    ELSE Append(out, [start |-> s.start, end |-> s.end])
MergeRanges(list) ==
    LET merged[n \in 0..Len(list)] == IF n = 0 THEN <<>> ELSE Merge(merged[n - 1], list[n])
    IN  merged[Len(list)]

----------------------------------------------------------------------------
(* The motion density of a window, per bucket.                             *)
Lesser(a, b) == IF a < b THEN a ELSE b
Greater(a, b) == IF a > b THEN a ELSE b
BucketDur(from, to) == (IF to > from THEN to - from ELSE Second) \div Buckets
DensityDefined(from, to) == BucketDur(from, to) > 0

(* Mutant: segments are not clamped to the window, so that the loop over   *)
(* the buckets of one that starts before it ends at once.                  *)
BucketsUnclamped(s, from, to) ==
    LET d == BucketDur(from, to)
        first == (s.start - from) \div d
        last == Lesser((Lesser(s.end, to) - from - 1) \div d, Buckets - 1)
    IN  IF first < 0 THEN {} ELSE first..last
BucketsOf(s, from, to) ==
    LET d == BucketDur(from, to)
        first == (Greater(s.start, from) - from) \div d
        last == Lesser((Lesser(s.end, to) - from - 1) \div d, Buckets - 1)
    IN  IF first < 0 THEN {} ELSE first..last

Covered(s, i, from, to) ==
    LET d == BucketDur(from, to)
    IN  Greater(0, Lesser(Lesser(s.end, to), from + (i + 1) * d)
                       - Greater(Greater(s.start, from), from + i * d))

Total(f) ==
    LET sum[n \in 0..Len(f)] == IF n = 0 THEN 0 ELSE sum[n - 1] + f[n]
    IN  sum[Len(f)]
MotionIn(list, i, from, to) ==
    [k \in DOMAIN list |-> IF list[k].motion /\ i \in BucketsOf(list[k], from, to)
                           THEN Covered(list[k], i, from, to) ELSE 0]
Density(list, from, to) ==
    [i \in 1..Buckets |-> Lesser(BucketDur(from, to), Total(MotionIn(list, i - 1, from, to)))]

----------------------------------------------------------------------------
(* buildPlaylist.                                                          *)
Duration(r) == r.end - r.start
Median(list) ==
    LET shorter(i) == {j \in DOMAIN list :
                          \/ Duration(list[j]) < Duration(list[i])
                          \/ Duration(list[j]) = Duration(list[i]) /\ j < i}
    IN  IF Len(list) < 2 THEN 0
        ELSE Duration(list[CHOOSE i \in DOMAIN list : Cardinality(shorter(i)) = Len(list) \div 2])

(* Mutant: the distance of the two starts is taken for the gap.            *)
DiscontinuityStarts(list, i) ==
    i > 1 /\ list[i].start - list[i - 1].start
                 > (IF Median(list) = 0 THEN 2 * Second ELSE 2 * Median(list))
Discontinuity(list, i) ==
    i > 1 /\ list[i].start - list[i - 1].end
                 > (IF Median(list) = 0 THEN 2 * Second ELSE 2 * Median(list))

(* Mutant: the last fragment is not clamped.                               *)
FragmentEndUnclamped(list, i, to) == list[i].end
FragmentEnd(list, i, to) ==
    IF i = Len(list) /\ list[i].end > to THEN to ELSE list[i].end
FragmentStart(list, i, from) ==
    IF i = 1 /\ list[i].start < from THEN from ELSE list[i].start
Playlist(list, from, to) ==
    [i \in DOMAIN list |->
        [at |-> FragmentStart(list, i, from),
         dur |-> Greater(1, FragmentEnd(list, i, to) - FragmentStart(list, i, from)),
         discontinuity |-> Discontinuity(list, i)]]

SequenceNumber(s) == s.start \div Second
MediaSequence(list) == IF list = <<>> THEN 0 ELSE SequenceNumber(list[1])

----------------------------------------------------------------------------
PlaybackInit == segs = <<>> /\ indexed = {}
PlaybackNext == CutSegment \/ IndexSegment
PlaybackSpec == PlaybackInit /\ [][PlaybackNext]_playbackVars

----------------------------------------------------------------------------
(* The windows that are asked for; an empty index has nothing to show.     *)
Windows == {w \in Times \X Times : w[1] < w[2]}
Asked == IF indexed = {} THEN {} ELSE Windows
Cells(r) == r.start..r.end - 1
Motion(list) == UNION {Cells(list[i]) : i \in {j \in DOMAIN list : list[j].motion}}
Bucket(b, from, to) ==
    LET d == BucketDur(from, to) IN from + b * d..(from + (b + 1) * d) - 1
(* What each segment with motion has in a bucket.                          *)
Shares(list, b, from, to) ==
    [k \in DOMAIN list |-> IF list[k].motion
                           THEN Cardinality(Cells(list[k]) \intersect Bucket(b, from, to)) ELSE 0]
MotionApart(list, b, from, to) ==
    \A i, j \in DOMAIN list :
        i # j /\ list[i].motion /\ list[j].motion
            => Cells(list[i]) \intersect Cells(list[j]) \intersect Bucket(b, from, to) = {}

(* Type invariant: the index holds segments that were cut.                 *)
PlaybackTypeOK == segs \in Seq(Segment) /\ indexed \subseteq DOMAIN segs

(* The coverage the timeline and the availability answer show is exactly   *)
(* what the segments cover, as ranges that neither overlap nor touch,      *)
(* however the segments overlap and in whichever order they were indexed.  *)
MergedIsCoverage ==
    \A w \in Asked :
        LET list == SegmentsInRange(w[1], w[2])
            out == MergeRanges(list)
        IN  /\ UNION {Cells(out[i]) : i \in DOMAIN out}
                   = UNION {Cells(list[i]) : i \in DOMAIN list}
            /\ \A i \in 1..Len(out) - 1 : out[i].end < out[i + 1].start

(* The density of every bucket counts each segment with motion by what it  *)
(* has in the bucket, up to the whole of it: no motion is lost between the *)
(* buckets or at the ends of the window, none is counted in two of them,   *)
(* the density is never less than the motion covers, and it is what motion *)
(* covers where no two of the segments share a part of the bucket.         *)
DensityConserves ==
    \A w \in {v \in Asked : DensityDefined(v[1], v[2])} : \A b \in 0..Buckets - 1 :
        LET list == SegmentsInRange(w[1], w[2])
            density == Density(list, w[1], w[2])[b + 1]
            covered == Cardinality(Motion(list) \intersect Bucket(b, w[1], w[2]))
        IN  /\ density = Lesser(BucketDur(w[1], w[2]), Total(Shares(list, b, w[1], w[2])))
            /\ covered <= density
            /\ MotionApart(list, b, w[1], w[2]) => density = covered

(* playback_handlers.go:92 "fraction of each bucket covered by has_motion  *)
(* segments": violated where two of them overlap, as they do when the clock*)
(* stepped back; what they share counts twice.                             *)
DensityIsFraction ==
    \A w \in {v \in Asked : DensityDefined(v[1], v[2])} : \A b \in 0..Buckets - 1 :
        LET list == SegmentsInRange(w[1], w[2])
        IN  Density(list, w[1], w[2])[b + 1]
                = Cardinality(Motion(list) \intersect Bucket(b, w[1], w[2]))

(* The playlist and the timeline agree on where recording was broken: a    *)
(* discontinuity is marked where the coverage has a hole, or an older      *)
(* segment reaches over it (or most fragments end before they start), and  *)
(* a hole of more than two seconds and more than twice as long as the      *)
(* longest fragment is always marked.                                      *)
PlaylistMarksHoles ==
    \A w \in Asked :
        LET list == SegmentsInRange(w[1], w[2])
            out == MergeRanges(list)
            gap(i) == list[i].start - list[i - 1].end
        IN  \A i \in 2..Len(list) :
              /\ Discontinuity(list, i) =>
                    \/ \E r \in DOMAIN out : out[r].start = list[i].start
                    \/ \E j \in 1..i - 2 : list[j].end >= list[i].start
                    \/ Median(list) < 0
              /\ (gap(i) > 2 * Second /\ \A j \in DOMAIN list : gap(i) > 2 * Duration(list[j]))
                    => Discontinuity(list, i)

(* What a playlist announces lies in the window that was asked for, in the *)
(* order of time, and no fragment is announced as empty. Only the first    *)
(* and the last fragment are clamped: another sticks out of the window only*)
(* where it overlaps the first or the last one.                            *)
PlaylistWithinWindow ==
    \A w \in Asked :
        LET list == SegmentsInRange(w[1], w[2])
            p == Playlist(list, w[1], w[2])
        IN  \A i \in DOMAIN p :
              /\ p[i].dur > 0
              /\ w[1] <= p[i].at \/ (i > 1 /\ list[i].start < list[1].end)
              /\ p[i].at + p[i].dur <= w[2] \/ (i < Len(p) /\ list[Len(p)].start < list[i].end)
              /\ i > 1 => p[i - 1].at <= p[i].at \/ list[i].start < list[1].end

(* Timeline, density and playlists say of every window what the index      *)
(* holds: all of it, and nothing else.                                     *)
PlaybackSafe ==
    /\ PlaybackTypeOK /\ MergedIsCoverage /\ DensityConserves
    /\ PlaylistMarksHoles /\ PlaylistWithinWindow

(* The media sequence of the live playlist never goes back once it is full,*)
(* although segments are indexed out of order.                             *)
LiveNeverBack ==
    Cardinality(indexed) >= LiveLimit
        => MediaSequence(RecentSegments') >= MediaSequence(RecentSegments)

(* record/store.go:26: a "stable, monotonic integer" is the HLS number of  *)
(* a segment: it keeps its number while it is in the playlist. Not so when *)
(* segments are not a second long or are indexed late.                     *)
NumberIn(list, s) == MediaSequence(list) + CHOOSE i \in DOMAIN list : list[i] = s
LiveNumbersStable ==
    [][\A i \in DOMAIN RecentSegments, j \in DOMAIN RecentSegments' :
          RecentSegments[i] = (RecentSegments')[j] =>
            NumberIn(RecentSegments, RecentSegments[i])
                = NumberIn(RecentSegments', RecentSegments[i])]_playbackVars

(* Every timeline request is answered. Not one whose window is shorter     *)
(* than its number of buckets, in units of a clock tick: the bucket is of  *)
(* no length and the handler divides by it.                                *)
TimelineAnswered == \A w \in Windows : DensityDefined(w[1], w[2])
===============================================================================
