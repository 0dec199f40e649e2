---------------------------- MODULE RecorderProofs ----------------------------
(***************************************************************************)
(* Proofs about Recorder, for streams, sessions and motion windows of any  *)
(* length, any segment duration and any pre-roll.                          *)
(***************************************************************************)
EXTENDS Recorder, SequenceTheorems, WellFoundedInduction, NaturalsInduction, TLAPS

(* What the variables that TypeOK does not speak of hold.                  *)
Entries == [key : BOOLEAN, at : Nat, ntp : Int, session : Nat, recording : BOOLEAN]
Segments == [start : Int, frames : Seq(Nat), by : {"key", "motion", "close"}]
Types ==
    /\ TypeOK
    /\ log \in Seq(Entries) /\ cuts \in Seq(Segments) /\ session \in Nat

(* Who owns the samples: an open segment only while recording, the ring    *)
(* only while not.                                                         *)
Owned ==
    /\ open => Recording
    /\ Recording /\ ~open => samples = <<>>
    /\ mode = "off" => samples = <<>>
    /\ motionActive => mode = "motion"

(* The samples are the latest access units; the segments are runs of those *)
(* before them, in order.                                                  *)
Older == Len(log) - Len(samples)
Run(frames) == \A j \in DOMAIN frames : frames[j] = frames[1] + j - 1
CutsOrdered(segments, older) ==
    \A i \in DOMAIN segments :
      /\ segments[i].frames # <<>> /\ Run(segments[i].frames)
      /\ \A j \in DOMAIN segments[i].frames : segments[i].frames[j] \in 1 .. older
      /\ \A k \in DOMAIN segments : i < k => Before(segments[i].frames, segments[k].frames)
Ordered ==
    /\ \A j \in DOMAIN samples : samples[j] = Older + j
    /\ CutsOrdered(cuts, Older)

IInv == Types /\ Owned /\ Ordered

----------------------------------------------------------------------------
(* Sequences.                                                              *)

(* The access units known so far are known afterwards.                     *)
LEMMA SeqWider ==
  ASSUME NEW n \in Nat, NEW m \in Nat, n <= m, NEW s \in Seq(1 .. n)
  PROVE  s \in Seq(1 .. m)
<1>1. Len(s) \in Nat /\ \A i \in 1 .. Len(s) : s[i] \in 1 .. m
  BY ElementOfSeq, LenProperties
<1>2. s = [i \in 1 .. Len(s) |-> s[i]]
  BY LenProperties
<1> QED BY <1>1, <1>2, IsASeq

(* A nonempty set of positions has a greatest element.                     *)
LEMMA Greatest ==
  ASSUME NEW n \in Nat, NEW S \in SUBSET (1 .. n), S # {}
  PROVE  \E x \in S : \A y \in S : y <= x
<1> DEFINE T == {n - z : z \in S}
           R == OpToRel(<, Nat)
<1>1. T \subseteq Nat /\ T # {}
  <2>1. PICK x \in S : TRUE
    OBVIOUS
  <2>2. n - x \in T
    BY <2>1
  <2>3. \A z \in S : n - z \in Nat
    OBVIOUS
  <2> QED BY <2>2, <2>3
<1>2. PICK t \in T : \A y \in T : ~(<<y, t>> \in R)
  BY <1>1, NatLessThanWellFounded, WFMin
<1>3. \A y \in T : ~(y < t)
  BY <1>1, <1>2 DEF OpToRel
<1>4. PICK x \in S : t = n - x
  OBVIOUS
<1>5. ASSUME NEW y \in S PROVE y <= x
  BY <1>3, <1>4
<1> QED BY <1>5

(* Where the ring starts after a trim: at its first frame, or at a key     *)
(* frame before which nothing is within the pre-roll.                      *)
LEMMA RingHeadIsPosition ==
  ASSUME NEW ntps \in Seq(Int), ntps # <<>>, NEW keys
  PROVE  /\ RingHead(ntps, keys) \in 1 .. Len(ntps)
         /\ RingHead(ntps, keys) > 1 =>
               /\ keys[RingHead(ntps, keys)]
               /\ \A j \in 1 .. RingHead(ntps, keys) : ntps[j] <= ntps[Len(ntps)] - PreRoll
<1> DEFINE cutoff == ntps[Len(ntps)] - PreRoll
           old == {i \in DOMAIN ntps : \A j \in 1 .. i : ntps[j] <= cutoff}
           heads == {i \in old : keys[i]}
<1>1. DOMAIN ntps = 1 .. Len(ntps) /\ Len(ntps) \in Nat \ {0} /\ 1 \in 1 .. Len(ntps)
  BY EmptySeq, LenProperties
<1>2. CASE heads = {} \/ ntps[Len(ntps)] - ntps[1] <= PreRoll
  <2>1. RingHead(ntps, keys) = 1
    BY <1>2 DEF RingHead, NewestKey, Last
  <2> QED BY <1>1, <2>1
<1>3. CASE heads # {} /\ ~(ntps[Len(ntps)] - ntps[1] <= PreRoll)
  <2>1. RingHead(ntps, keys) = CHOOSE i \in heads : \A j \in heads : j <= i
    BY <1>3 DEF RingHead, NewestKey, Last
  <2>2. heads \in SUBSET (1 .. Len(ntps))
    BY <1>1
  <2>3. \E i \in heads : \A j \in heads : j <= i
    BY <1>1, <1>3, <2>2, Greatest
  <2>4. RingHead(ntps, keys) \in heads
    BY <2>1, <2>3
  <2> QED BY <1>1, <2>4
<1> QED BY <1>2, <1>3

----------------------------------------------------------------------------
(* What a step does to the log and to the segments.                        *)

NewEntry(isKey) ==
    [key |-> isKey, at |-> now + 1, ntp |-> now + 1 + IF synced THEN skew ELSE 0,
     session |-> session, recording |-> Recording]

LEMMA Delivered ==
  ASSUME Types, NEW isKey \in BOOLEAN, WriteVideo(isKey)
  PROVE  /\ NewEntry(isKey) \in Entries
         /\ log' \in Seq(Entries) /\ Len(log) \in Nat /\ Len(log') = Len(log) + 1
         /\ \A n \in 1 .. Len(log) : log'[n] = log[n]
         /\ log'[Len(log) + 1] = NewEntry(isKey)
         /\ UNCHANGED <<mode, skew, synced, session>>
         /\ now' = now + 1 /\ now' \in 0 .. Horizon
<1>1. now + 1 \in Nat /\ skew \in Int /\ Recording \in BOOLEAN
  BY RecorderAssumption DEF Types, TypeOK, Recording
<1>2. NewEntry(isKey) \in Entries
  BY <1>1 DEF NewEntry, Entries, Types, TypeOK
<1>3. log' = Append(log, NewEntry(isKey))
  BY DEF WriteVideo, NewEntry
<1>4. UNCHANGED <<mode, skew, synced, session>> /\ now' = now + 1 /\ now' \in 0 .. Horizon
  BY RecorderAssumption DEF WriteVideo, Types, TypeOK
<1> QED BY <1>2, <1>3, <1>4, AppendProperties, LenProperties DEF Types

LEMMA SamplesAreNaturals ==
  ASSUME Types
  PROVE  /\ samples \in Seq(Nat) /\ Len(samples) \in Nat
         /\ DOMAIN samples = 1 .. Len(samples)
         /\ \A j \in DOMAIN samples : samples[j] \in 1 .. Len(log)
<1>1. Len(log) \in Nat /\ samples \in Seq(1 .. Len(log))
  BY LenProperties DEF Types, TypeOK
<1>2. Len(samples) \in Nat /\ DOMAIN samples = 1 .. Len(samples)
      /\ \A j \in DOMAIN samples : samples[j] \in 1 .. Len(log)
  BY <1>1, LenProperties, ElementOfSeq
<1>3. samples = [j \in 1 .. Len(samples) |-> samples[j]]
  BY <1>1, LenProperties
<1>4. samples \in Seq(Nat)
  BY <1>2, <1>3, IsASeq
<1> QED BY <1>2, <1>4

LEMMA CutMade ==
  ASSUME Types, open, NEW by \in {"key", "motion", "close"}, Cut(by)
  PROVE  LET new == [start |-> startNTP, frames |-> samples, by |-> by] IN
         /\ cuts' = Append(cuts, new) /\ cuts' \in Seq(Segments) /\ samples # <<>>
         /\ Len(cuts) \in Nat /\ Len(cuts') = Len(cuts) + 1
         /\ DOMAIN cuts = 1 .. Len(cuts) /\ DOMAIN cuts' = 1 .. Len(cuts) + 1
         /\ \A i \in 1 .. Len(cuts) : cuts'[i] = cuts[i]
         /\ cuts'[Len(cuts) + 1] = new
         /\ flushing' = flushing \cup {Len(cuts) + 1}
<1> DEFINE new == [start |-> startNTP, frames |-> samples, by |-> by]
<1>1. samples # <<>> /\ cuts \in Seq(Segments)
  BY DEF Types, TypeOK
<1>2. new \in Segments
  BY SamplesAreNaturals DEF Segments, Types, TypeOK
<1>3. cuts' = Append(cuts, new) /\ flushing' = flushing \cup {Len(cuts) + 1}
  BY <1>1 DEF Cut
<1>4. cuts' \in Seq(Segments)
  BY <1>1, <1>2, <1>3, AppendProperties
<1>5. Len(cuts) \in Nat /\ Len(cuts') = Len(cuts) + 1
      /\ DOMAIN cuts = 1 .. Len(cuts) /\ DOMAIN cuts' = 1 .. Len(cuts')
  BY <1>1, <1>2, <1>3, <1>4, AppendProperties, LenProperties
<1> HIDE DEF new
<1>6. \A i \in 1 .. Len(cuts) : cuts'[i] = cuts[i]
  BY <1>1, <1>2, <1>3, AppendProperties
<1>7. cuts'[Len(cuts) + 1] = new
  BY <1>1, <1>2, <1>3, AppendProperties
<1> QED BY <1>1, <1>3, <1>4, <1>5, <1>6, <1>7 DEF new

LEMMA FlushingAfterCut ==
  ASSUME Types, open, NEW by \in {"key", "motion", "close"}, Cut(by)
  PROVE  flushing' \subseteq 1 .. Len(cuts') /\ flushing \subseteq flushing'
<1>1. /\ flushing' = flushing \cup {Len(cuts) + 1}
      /\ Len(cuts) \in Nat /\ Len(cuts') = Len(cuts) + 1
  BY CutMade
<1>2. flushing \subseteq 1 .. Len(cuts)
  BY DEF Types, TypeOK
<1>3. 1 .. Len(cuts) \subseteq 1 .. Len(cuts') /\ Len(cuts) + 1 \in 1 .. Len(cuts')
  BY <1>1
<1> QED BY <1>1, <1>2, <1>3

(* An access unit joins the samples.                                       *)
LEMMA SampleAdded ==
  ASSUME Types, NEW isKey \in BOOLEAN, WriteVideo(isKey),
         samples' = Append(samples, Len(log) + 1)
  PROVE  /\ samples' \in Seq(1 .. Len(log')) /\ samples' # <<>>
         /\ Len(samples') = Len(samples) + 1
         /\ \A j \in 1 .. Len(samples) : samples'[j] = samples[j]
         /\ samples'[Len(samples) + 1] = Len(log')
<1>1. Len(log) \in Nat /\ Len(log') = Len(log) + 1
  BY Delivered
<1>2. samples \in Seq(1 .. Len(log'))
  BY <1>1, SeqWider DEF Types, TypeOK
<1> QED BY <1>1, <1>2, AppendProperties

(* The new access unit is the first sample.                                *)
LEMMA SampleAlone ==
  ASSUME Types, NEW isKey \in BOOLEAN, WriteVideo(isKey),
         samples' = <<Len(log) + 1>>
  PROVE  samples' \in Seq(1 .. Len(log')) /\ Len(samples') = 1 /\ samples'[1] = Len(log')
BY Delivered

(* Trimming: the ring becomes a suffix of itself and the new access unit.  *)
LEMMA RingTrimmed ==
  ASSUME Types, NEW isKey \in BOOLEAN, WriteVideo(isKey), ~open,
         NEW ntp \in Int, WriteRing(Len(log) + 1, isKey, ntp)
  PROVE  LET ntps == Append(times, ntp)
             keys == Append([i \in DOMAIN samples |-> Key(samples[i])], isKey)
             head == RingHead(ntps, keys)
         IN  /\ head \in 1 .. Len(samples) + 1
             /\ Len(samples) \in Nat
             /\ samples' \in Seq(1 .. Len(log')) /\ times' \in Seq(Int)
             /\ Len(samples') = Len(samples) + 2 - head /\ Len(times') = Len(samples')
             /\ \A j \in 1 .. Len(samples') :
                   /\ samples'[j] = Append(samples, Len(log) + 1)[head + j - 1]
                   /\ times'[j] = ntps[head + j - 1]
<1> DEFINE frames == Append(samples, Len(log) + 1)
           ntps == Append(times, ntp)
           keys == Append([i \in DOMAIN samples |-> Key(samples[i])], isKey)
           head == RingHead(ntps, keys)
<1>1. Len(log) \in Nat /\ Len(log') = Len(log) + 1
  BY Delivered
<1>2. /\ frames \in Seq(1 .. Len(log')) /\ Len(frames) = Len(samples) + 1
      /\ Len(samples) \in Nat
  BY <1>1, SeqWider, AppendProperties, LenProperties DEF Types, TypeOK
<1>3. /\ ntps \in Seq(Int) /\ ntps # <<>> /\ Len(ntps) = Len(samples) + 1
  <2>1. times \in Seq(Int) /\ Len(times) = Len(samples)
    BY DEF Types, TypeOK
  <2> QED BY <2>1, AppendProperties
<1>4. samples' = SubSeq(frames, head, Len(frames)) /\ times' = SubSeq(ntps, head, Len(ntps))
  BY DEF WriteRing
<1> HIDE DEF frames, ntps, keys
<1>5. head \in 1 .. Len(samples) + 1
  BY <1>3, RingHeadIsPosition
<1> HIDE DEF head
<1>6. /\ \A i \in head .. Len(frames) : frames[i] \in 1 .. Len(log')
      /\ \A i \in head .. Len(ntps) : ntps[i] \in Int
  <2>1. \A i \in 1 .. Len(frames) : frames[i] \in 1 .. Len(log')
    BY <1>2, ElementOfSeq
  <2>2. \A i \in 1 .. Len(ntps) : ntps[i] \in Int
    BY <1>3, ElementOfSeq
  <2>3. \A i \in head .. Len(frames) : i \in 1 .. Len(frames)
    BY <1>2, <1>5
  <2>4. \A i \in head .. Len(ntps) : i \in 1 .. Len(ntps)
    BY <1>2, <1>3, <1>5
  <2> QED BY <2>1, <2>2, <2>3, <2>4
<1>7. /\ samples' \in Seq(1 .. Len(log')) /\ Len(samples') = Len(frames) - head + 1
      /\ \A j \in 1 .. Len(frames) - head + 1 : samples'[j] = frames[head + j - 1]
  BY <1>2, <1>4, <1>5, <1>6, SubSeqProperties
<1>8. /\ times' \in Seq(Int) /\ Len(times') = Len(ntps) - head + 1
      /\ \A j \in 1 .. Len(ntps) - head + 1 : times'[j] = ntps[head + j - 1]
  <2>1. Len(ntps) \in Int /\ head \in Int /\ head <= Len(ntps)
    BY <1>2, <1>3, <1>5
  <2> QED BY <1>4, <1>6, <2>1, SubSeqProperties
<1>9. /\ Len(samples') = Len(samples) + 2 - head /\ Len(times') = Len(samples')
      /\ \A j \in 1 .. Len(samples') : /\ samples'[j] = frames[head + j - 1]
                                       /\ times'[j] = ntps[head + j - 1]
  <2>1. Len(samples') = Len(samples) + 2 - head
    BY <1>2, <1>5, <1>7
  <2>2. Len(times') = Len(samples')
    BY <1>2, <1>3, <1>7, <1>8
  <2> QED BY <1>7, <1>8, <2>1, <2>2
<1> QED BY <1>2, <1>5, <1>7, <1>8, <1>9 DEF frames, ntps, keys, head

(* The ways through WriteVideo.                                            *)
NtpNow == now + 1 + IF synced THEN skew ELSE 0
LEMMA Ways ==
  ASSUME NEW isKey \in BOOLEAN, WriteVideo(isKey)
  PROVE  \/ WriteOff
         \/ WriteRing(Len(log) + 1, isKey, NtpNow)
         \/ WriteWaitForKey(isKey)
         \/ WriteFirst(Len(log) + 1, isKey, NtpNow)
         \/ WriteNext(Len(log) + 1, isKey, NtpNow)
         \/ WriteCut(Len(log) + 1, isKey, NtpNow)
BY DEF WriteVideo, NtpNow

LEMMA NtpIsInt == Types => NtpNow \in Int
BY RecorderAssumption DEF Types, TypeOK, NtpNow

----------------------------------------------------------------------------
(* Types.                                                                  *)

LEMMA InitInv == Init => IInv
<1> SUFFICES ASSUME Init PROVE IInv
  OBVIOUS
<1> USE DEF Init
<1>1. Types
  <2>1. log \in Seq(Entries) /\ cuts \in Seq(Segments) /\ times \in Seq(Int)
    BY EmptySeq
  <2>2. samples \in Seq(1 .. Len(log)) /\ Len(samples) = 0 /\ Len(times) = 0
    BY EmptySeq
  <2>3. now \in 0 .. Horizon /\ session \in Nat /\ startNTP \in Int
    BY RecorderAssumption
  <2> QED BY <2>1, <2>2, <2>3 DEF Types, TypeOK
<1>2. Owned
  BY DEF Owned, Recording
<1>3. Ordered
  BY DEF Ordered, CutsOrdered
<1> QED BY <1>1, <1>2, <1>3 DEF IInv

(* The samples known so far are samples of the longer log.                 *)
LEMMA SamplesStay ==
  ASSUME Types, NEW isKey \in BOOLEAN, WriteVideo(isKey), samples' = samples
  PROVE  samples' \in Seq(1 .. Len(log'))
<1>1. Len(log) \in Nat /\ Len(log') = Len(log) + 1
  BY Delivered
<1> QED BY <1>1, SeqWider DEF Types, TypeOK

LEMMA WriteKeepsTypes ==
  ASSUME IInv, NEW isKey \in BOOLEAN, WriteVideo(isKey)
  PROVE  Types'
<1> USE DEF IInv
<1>1. log' \in Seq(Entries) /\ mode' \in Modes /\ now' \in 0 .. Horizon
      /\ skew' \in Skews /\ synced' \in BOOLEAN /\ session' \in Nat
  BY Delivered DEF Types, TypeOK
<1>2. NtpNow \in Int
  BY NtpIsInt
<1>3. CASE WriteOff
  BY <1>1, <1>3, SamplesStay DEF WriteOff, recVars, flushVars, Types, TypeOK
<1>4. CASE WriteWaitForKey(isKey)
  BY <1>1, <1>4, SamplesStay DEF WriteWaitForKey, recVars, flushVars, Types, TypeOK
<1>5. CASE WriteRing(Len(log) + 1, isKey, NtpNow)
  <2>1. ~open
    BY <1>5 DEF WriteRing, Owned, Recording, Types
  <2>2. samples' \in Seq(1 .. Len(log')) /\ times' \in Seq(Int) /\ Len(times') = Len(samples')
    BY <1>2, <1>5, <2>1, RingTrimmed
  <2> QED BY <1>1, <1>5, <2>1, <2>2 DEF WriteRing, flushVars, Types, TypeOK
<1>6. CASE WriteFirst(Len(log) + 1, isKey, NtpNow)
  <2>1. samples' \in Seq(1 .. Len(log')) /\ samples' # <<>>
    BY <1>6, SampleAdded DEF WriteFirst
  <2> QED BY <1>1, <1>2, <1>6, <2>1 DEF WriteFirst, flushVars, Types, TypeOK
<1>7. CASE WriteNext(Len(log) + 1, isKey, NtpNow)
  <2>1. samples' \in Seq(1 .. Len(log')) /\ samples' # <<>>
    BY <1>7, SampleAdded DEF WriteNext
  <2> QED BY <1>1, <1>7, <2>1 DEF WriteNext, flushVars, Types, TypeOK
<1>8. CASE WriteCut(Len(log) + 1, isKey, NtpNow)
  <2>1. samples' \in Seq(1 .. Len(log')) /\ samples' # <<>> /\ times' \in Seq(Int)
    BY <1>8, SampleAlone, EmptySeq DEF WriteCut
  <2>2. open /\ Cut("key")
    BY <1>8 DEF WriteCut
  <2>3. cuts' \in Seq(Segments) /\ flushing' = flushing \cup {Len(cuts) + 1}
        /\ Len(cuts) \in Nat /\ Len(cuts') = Len(cuts) + 1
    BY <2>2, CutMade
  <2>4. UNCHANGED <<open, motionActive, closeWait, motionWait>> /\ startNTP' \in Int
    BY <1>2, <1>8 DEF WriteCut
  <2>5. flushing' \subseteq 1 .. Len(cuts') /\ flushing \subseteq flushing'
    BY <2>2, FlushingAfterCut
  <2>6. /\ closeWait' \in {0} \cup flushing' /\ motionWait' \in {0} \cup flushing'
        /\ open' /\ open' \in BOOLEAN /\ motionActive' \in BOOLEAN
    BY <2>2, <2>4, <2>5 DEF Types, TypeOK
  <2> QED BY <1>1, <2>1, <2>3, <2>4, <2>5, <2>6 DEF Types, TypeOK
<1> QED BY <1>3, <1>4, <1>5, <1>6, <1>7, <1>8, Ways

(* Close and the end of a motion window, if a segment is open.             *)
LEMMA CutKeepsTypes ==
  ASSUME IInv, open, NEW by \in {"motion", "close"}, Cut(by), samples' = <<>>
  PROVE  /\ cuts' \in Seq(Segments) /\ samples' \in Seq(1 .. Len(log))
         /\ flushing' \subseteq 1 .. Len(cuts') /\ flushing \subseteq flushing'
         /\ samples # <<>> /\ Len(cuts) + 1 \in flushing'
<1>1. /\ cuts' \in Seq(Segments) /\ flushing' = flushing \cup {Len(cuts) + 1}
      /\ Len(cuts) \in Nat /\ Len(cuts') = Len(cuts) + 1 /\ samples # <<>>
  BY CutMade DEF IInv
<1>2. samples' \in Seq(1 .. Len(log))
  BY EmptySeq
<1>3. flushing' \subseteq 1 .. Len(cuts') /\ flushing \subseteq flushing'
  BY FlushingAfterCut DEF IInv
<1>4. Len(cuts) + 1 \in flushing'
  BY <1>1
<1> QED BY <1>1, <1>2, <1>3, <1>4

LEMMA TypesKept == IInv /\ [Next]_vars => Types'
<1> SUFFICES ASSUME IInv, [Next]_vars PROVE Types'
  OBVIOUS
<1> USE DEF IInv
<1>1. CASE UNCHANGED vars
  BY <1>1 DEF vars, streamVars, recVars, flushVars, Types, TypeOK
<1>2. ASSUME NEW isKey \in BOOLEAN, WriteVideo(isKey) PROVE Types'
  BY <1>2, WriteKeepsTypes
<1>3. CASE MotionOn
  <2>1. ~open /\ samples # <<>> => times[1] \in Int
    <3>1. ASSUME ~open, samples # <<>> PROVE times \in Seq(Int) /\ 1 \in 1 .. Len(times)
      BY <3>1, EmptySeq, LenProperties DEF Types, TypeOK
    <3> QED BY <3>1, ElementOfSeq
  <2> QED BY <1>3, <2>1 DEF MotionOn, streamVars, flushVars, Types, TypeOK
<1>4. CASE MotionOff
  <2>1. CASE open
    <3>1. Cut("motion") /\ samples' = <<>> /\ times' = <<>> /\ open' = FALSE
      BY <1>4, <2>1 DEF MotionOff
    <3>2. motionWait' = Len(cuts) + 1
      BY <1>4, <2>1, <3>1, CutKeepsTypes DEF MotionOff
    <3> QED BY <1>4, <2>1, <3>1, <3>2, CutKeepsTypes, EmptySeq DEF MotionOff, streamVars, Types, TypeOK
  <2>2. CASE ~open
    BY <1>4, <2>2 DEF MotionOff, streamVars, Types, TypeOK
  <2> QED BY <2>1, <2>2
<1>5. CASE Close
  <2>0. session' \in Nat /\ synced' \in BOOLEAN
    <3>1. session' \in Nat
      BY <1>5 DEF Close, Types
    <3>2. synced' \in BOOLEAN
      BY <1>5 DEF Close
    <3> QED BY <3>1, <3>2
  <2>3. UNCHANGED <<mode, now, skew, log, startNTP, motionActive, motionWait>>
    BY <1>5 DEF Close
  <2>1. CASE open
    <3>1. Cut("close") /\ samples' = <<>> /\ times' = <<>> /\ open' = FALSE
      BY <1>5, <2>1 DEF Close
    <3>2. closeWait' = Len(cuts) + 1
      BY <1>5, <2>1, <3>1, CutKeepsTypes DEF Close
    <3>3. /\ cuts' \in Seq(Segments) /\ samples' \in Seq(1 .. Len(log))
          /\ flushing' \subseteq 1 .. Len(cuts') /\ flushing \subseteq flushing'
          /\ Len(cuts) + 1 \in flushing'
      BY <2>1, <3>1, CutKeepsTypes
    <3>4. times' \in Seq(Int) /\ Len(times') = Len(samples')
      BY <3>1, EmptySeq
    <3>5. closeWait' \in {0} \cup flushing' /\ motionWait' \in {0} \cup flushing'
      BY <2>0, <2>3, <3>2, <3>3 DEF Types, TypeOK
    <3> QED BY <2>0, <2>3, <3>1, <3>3, <3>4, <3>5 DEF Types, TypeOK
  <2>2. CASE ~open
    <3>1. UNCHANGED <<open, samples, times, cuts, flushing, closeWait>>
      BY <1>5, <2>2 DEF Close
    <3> QED BY <2>0, <2>3, <3>1 DEF Types, TypeOK
  <2> QED BY <2>1, <2>2
<1>6. ASSUME NEW i \in flushing, FlushDone(i) PROVE Types'
  BY <1>6 DEF FlushDone, streamVars, recVars, Types, TypeOK
<1>7. CASE Idle
  BY <1>7, RecorderAssumption DEF Idle, recVars, flushVars, Types, TypeOK
<1>8. CASE SenderReport
  BY <1>8 DEF SenderReport, recVars, flushVars, Types, TypeOK
<1> QED BY <1>1, <1>2, <1>3, <1>4, <1>5, <1>6, <1>7, <1>8 DEF Next

----------------------------------------------------------------------------
(* Who owns the samples.                                                   *)

LEMMA OwnedKept == IInv /\ [Next]_vars => Owned'
<1> SUFFICES ASSUME IInv, [Next]_vars PROVE Owned'
  OBVIOUS
<1> USE DEF IInv
<1> USE DEF Owned, Recording
<1>1. CASE UNCHANGED vars
  BY <1>1 DEF vars, streamVars, recVars
<1>2. ASSUME NEW isKey \in BOOLEAN, WriteVideo(isKey) PROVE Owned'
  <2>1. UNCHANGED mode
    BY <1>2, Delivered
  <2>2. CASE WriteOff
    BY <2>1, <2>2 DEF WriteOff, recVars
  <2>3. CASE WriteWaitForKey(isKey)
    BY <2>1, <2>3 DEF WriteWaitForKey, recVars
  <2>4. CASE WriteRing(Len(log) + 1, isKey, NtpNow)
    BY <2>1, <2>4 DEF WriteRing
  <2>5. CASE WriteFirst(Len(log) + 1, isKey, NtpNow)
    BY <2>1, <2>5 DEF WriteFirst
  <2>6. CASE WriteNext(Len(log) + 1, isKey, NtpNow)
    BY <2>1, <2>6 DEF WriteNext
  <2>7. CASE WriteCut(Len(log) + 1, isKey, NtpNow)
    BY <2>1, <2>7 DEF WriteCut
  <2> QED BY <1>2, <2>2, <2>3, <2>4, <2>5, <2>6, <2>7, Ways
<1>3. CASE MotionOn
  BY <1>3 DEF MotionOn, streamVars
<1>4. CASE MotionOff
  BY <1>4 DEF MotionOff, streamVars
<1>5. CASE Close
  BY <1>5 DEF Close
<1>6. ASSUME NEW i \in flushing, FlushDone(i) PROVE Owned'
  BY <1>6 DEF FlushDone, streamVars, recVars
<1>7. CASE Idle
  BY <1>7 DEF Idle, recVars
<1>8. CASE SenderReport
  BY <1>8 DEF SenderReport, recVars
<1> QED BY <1>1, <1>2, <1>3, <1>4, <1>5, <1>6, <1>7, <1>8 DEF Next

----------------------------------------------------------------------------
(* The order of the samples and of the segments.                           *)

(* Access units that grew older leave the segments in order.               *)
LEMMA CutsStay ==
  ASSUME NEW segments, NEW older \in Int, NEW n \in Int, older <= n,
         CutsOrdered(segments, older)
  PROVE  CutsOrdered(segments, n)
<1>1. 1 .. older \subseteq 1 .. n
  OBVIOUS
<1> QED BY <1>1 DEF CutsOrdered

(* A run of younger access units becomes the last segment.                 *)
LEMMA CutsGrow ==
  ASSUME NEW segments \in Seq(Segments), NEW new \in Segments,
         NEW older \in Int, NEW n \in Int, older <= n,
         CutsOrdered(segments, older),
         new.frames # <<>>, Run(new.frames),
         \A j \in DOMAIN new.frames : new.frames[j] \in 1 .. n /\ new.frames[j] > older
  PROVE  CutsOrdered(Append(segments, new), n)
<1> DEFINE longer == Append(segments, new)
<1>1. /\ Len(segments) \in Nat /\ DOMAIN segments = 1 .. Len(segments)
      /\ DOMAIN longer = 1 .. Len(segments) + 1
      /\ \A i \in 1 .. Len(segments) : longer[i] = segments[i]
      /\ longer[Len(segments) + 1] = new
  BY AppendProperties, LenProperties
<1> HIDE DEF longer
<1> SUFFICES ASSUME NEW i \in DOMAIN longer
             PROVE  /\ longer[i].frames # <<>> /\ Run(longer[i].frames)
                    /\ \A j \in DOMAIN longer[i].frames : longer[i].frames[j] \in 1 .. n
                    /\ \A k \in DOMAIN longer : i < k => Before(longer[i].frames, longer[k].frames)
  BY DEF CutsOrdered, longer
<1>2. CASE i = Len(segments) + 1
  BY <1>1, <1>2
<1>3. CASE i \in 1 .. Len(segments)
  <2>1. /\ longer[i] = segments[i] /\ segments[i].frames # <<>> /\ Run(segments[i].frames)
        /\ \A j \in DOMAIN segments[i].frames : segments[i].frames[j] \in 1 .. older
    BY <1>1, <1>3 DEF CutsOrdered
  <2>2. \A j \in DOMAIN longer[i].frames : longer[i].frames[j] \in 1 .. n
    BY <2>1
  <2>3. ASSUME NEW k \in DOMAIN longer, i < k PROVE Before(longer[i].frames, longer[k].frames)
    <3>1. CASE k = Len(segments) + 1
      BY <1>1, <2>1, <3>1 DEF Before
    <3>2. CASE k \in 1 .. Len(segments)
      BY <1>1, <1>3, <2>1, <2>3, <3>2 DEF CutsOrdered
    <3> QED BY <1>1, <3>1, <3>2
  <2> QED BY <2>1, <2>2, <2>3
<1> QED BY <1>1, <1>2, <1>3

(* A cut of all samples.                                                   *)
LEMMA CutOrdered ==
  ASSUME IInv, open, NEW by \in {"key", "motion", "close"}, Cut(by)
  PROVE  CutsOrdered(cuts', Len(log))
<1> DEFINE new == [start |-> startNTP, frames |-> samples, by |-> by]
<1>1. cuts' = Append(cuts, new) /\ samples # <<>>
  BY CutMade DEF IInv
<1>2. cuts \in Seq(Segments) /\ new \in Segments
  BY SamplesAreNaturals DEF IInv, Types, TypeOK, Segments
<1>3. /\ Len(log) \in Nat /\ Len(samples) \in Nat /\ Older \in Int /\ Older <= Len(log)
      /\ DOMAIN samples = 1 .. Len(samples)
      /\ \A j \in DOMAIN samples : samples[j] \in 1 .. Len(log)
  BY SamplesAreNaturals, LenProperties DEF IInv, Types, Older
<1>4. \A j \in DOMAIN samples : samples[j] = Older + j
  BY DEF IInv, Ordered
<1>5. Run(samples)
  BY <1>1, <1>3, <1>4 DEF Run
<1>6. \A j \in DOMAIN samples : samples[j] > Older
  BY <1>3, <1>4
<1>7. CutsOrdered(cuts, Older)
  BY DEF IInv, Ordered
<1>8. /\ new.frames # <<>> /\ Run(new.frames)
      /\ \A j \in DOMAIN new.frames : new.frames[j] \in 1 .. Len(log) /\ new.frames[j] > Older
  BY <1>1, <1>3, <1>5, <1>6
<1> HIDE DEF new
<1>9. CutsOrdered(Append(cuts, new), Len(log))
  BY <1>2, <1>3, <1>7, <1>8, CutsGrow
<1> QED BY <1>1, <1>9

LEMMA WriteKeepsOrder ==
  ASSUME IInv, NEW isKey \in BOOLEAN, WriteVideo(isKey)
  PROVE  Ordered'
<1>1. /\ Len(log) \in Nat /\ Len(log') = Len(log) + 1 /\ Len(samples) \in Nat
      /\ DOMAIN samples = 1 .. Len(samples) /\ Older \in Int
      /\ DOMAIN samples' = 1 .. Len(samples') /\ Len(samples') \in Nat
  <2>1. samples' \in Seq(1 .. Len(log'))
    BY WriteKeepsTypes DEF Types, TypeOK
  <2> QED BY <2>1, Delivered, SamplesAreNaturals, LenProperties DEF IInv, Older
<1>2. (\A j \in DOMAIN samples : samples[j] = Older + j) /\ CutsOrdered(cuts, Older)
  BY DEF IInv, Ordered
<1>3. CASE UNCHANGED <<samples, cuts>> /\ samples = <<>>
  <2>1. Len(samples') = 0 /\ Older <= Older' /\ Older' \in Int
    BY <1>1, <1>3 DEF Older
  <2> QED BY <1>1, <1>2, <1>3, <2>1, CutsStay DEF Ordered
<1>4. CASE samples' = Append(samples, Len(log) + 1) /\ cuts' = cuts
  <2>1. /\ Len(samples') = Len(samples) + 1
        /\ \A j \in 1 .. Len(samples) : samples'[j] = samples[j]
        /\ samples'[Len(samples) + 1] = Len(log')
    BY <1>4, SampleAdded DEF IInv
  <2>2. Older' = Older
    BY <1>1, <2>1 DEF Older
  <2>3. \A j \in DOMAIN samples' : samples'[j] = Older' + j
    BY <1>1, <1>2, <2>1, <2>2 DEF Older
  <2> QED BY <1>2, <1>4, <2>2, <2>3 DEF Ordered
<1>5. CASE WriteRing(Len(log) + 1, isKey, NtpNow)
  <2> DEFINE ntps == Append(times, NtpNow)
             keys == Append([i \in DOMAIN samples |-> Key(samples[i])], isKey)
             head == RingHead(ntps, keys)
             frames == Append(samples, Len(log) + 1)
  <2>1. ~open /\ cuts' = cuts
    BY <1>5 DEF WriteRing, IInv, Owned, Recording, flushVars
  <2>2. /\ head \in 1 .. Len(samples) + 1 /\ Len(samples') = Len(samples) + 2 - head
        /\ \A j \in 1 .. Len(samples') : samples'[j] = frames[head + j - 1]
    BY <1>5, <2>1, RingTrimmed, NtpIsInt DEF IInv
  <2>3. \A j \in 1 .. Len(samples) + 1 : frames[j] = Older + j
    <3>1. samples \in Seq(Nat)
      BY SamplesAreNaturals DEF IInv
    <3>2. /\ \A j \in 1 .. Len(samples) : frames[j] = samples[j]
          /\ frames[Len(samples) + 1] = Len(log) + 1
      BY <1>1, <3>1, AppendProperties
    <3>3. Older + (Len(samples) + 1) = Len(log) + 1
      BY <1>1 DEF Older
    <3> HIDE DEF frames
    <3> TAKE j \in 1 .. Len(samples) + 1
    <3>4. CASE j = Len(samples) + 1
      BY <3>2, <3>3, <3>4
    <3>5. CASE j \in 1 .. Len(samples)
      BY <1>1, <1>2, <3>2, <3>5
    <3> QED BY <1>1, <3>4, <3>5
  <2> HIDE DEF head, frames
  <2>4. Older' = Older + head - 1 /\ Older <= Older' /\ Older' \in Int
    BY <1>1, <2>2 DEF Older
  <2>5. \A j \in DOMAIN samples' : samples'[j] = Older' + j
    <3> TAKE j \in DOMAIN samples'
    <3>1. samples'[j] = frames[head + j - 1] /\ head + j - 1 \in 1 .. Len(samples) + 1
      BY <1>1, <2>2
    <3>2. frames[head + j - 1] = Older + (head + j - 1)
      BY <2>3, <3>1
    <3> QED BY <1>1, <2>2, <2>4, <3>1, <3>2
  <2> QED BY <1>1, <1>2, <2>1, <2>4, <2>5, CutsStay DEF Ordered
<1>6. CASE WriteCut(Len(log) + 1, isKey, NtpNow)
  <2>1. open /\ Cut("key") /\ samples' = <<Len(log) + 1>>
    BY <1>6 DEF WriteCut
  <2>2. Len(samples') = 1 /\ samples'[1] = Len(log') /\ Older' = Len(log)
    BY <1>1, <2>1 DEF Older
  <2>3. CutsOrdered(cuts', Len(log))
    BY <2>1, CutOrdered
  <2> QED BY <1>1, <2>2, <2>3 DEF Ordered
<1>7. CASE WriteOff
  BY <1>3, <1>7 DEF WriteOff, recVars, flushVars, IInv, Owned
<1>8. CASE WriteWaitForKey(isKey)
  BY <1>3, <1>8 DEF WriteWaitForKey, recVars, flushVars, IInv, Owned
<1>9. CASE WriteFirst(Len(log) + 1, isKey, NtpNow)
  BY <1>4, <1>9 DEF WriteFirst, flushVars
<1>10. CASE WriteNext(Len(log) + 1, isKey, NtpNow)
  BY <1>4, <1>10 DEF WriteNext, flushVars
<1> QED BY <1>5, <1>6, <1>7, <1>8, <1>9, <1>10, Ways

(* The recorder gives up its samples as a segment, or keeps what it has.   *)
LEMMA EndKeepsOrder ==
  ASSUME IInv, UNCHANGED log,
         \/ UNCHANGED <<samples, cuts>>
         \/ open /\ samples' = <<>> /\ \E by \in {"motion", "close"} : Cut(by)
  PROVE  Ordered'
<1>1. CASE UNCHANGED <<samples, cuts>>
  BY <1>1 DEF IInv, Ordered, Older
<1>2. CASE open /\ samples' = <<>> /\ \E by \in {"motion", "close"} : Cut(by)
  <2>1. CutsOrdered(cuts', Len(log))
    BY <1>2, CutOrdered
  <2>2. Len(log) \in Nat
    BY LenProperties DEF IInv, Types
  <2>3. Older' = Len(log)
    BY <1>2, <2>2 DEF Older
  <2> QED BY <1>2, <2>1, <2>3 DEF Ordered
<1> QED BY <1>1, <1>2

LEMMA OrderedKept == IInv /\ [Next]_vars => Ordered'
<1> SUFFICES ASSUME IInv, [Next]_vars PROVE Ordered'
  OBVIOUS
<1>1. CASE UNCHANGED vars
  BY <1>1, EndKeepsOrder DEF vars, streamVars, recVars, flushVars
<1>2. ASSUME NEW isKey \in BOOLEAN, WriteVideo(isKey) PROVE Ordered'
  BY <1>2, WriteKeepsOrder
<1>3. CASE MotionOn
  BY <1>3, EndKeepsOrder DEF MotionOn, streamVars, flushVars
<1>4. CASE MotionOff
  BY <1>4, EndKeepsOrder DEF MotionOff, streamVars
<1>5. CASE Close
  BY <1>5, EndKeepsOrder DEF Close
<1>6. ASSUME NEW i \in flushing, FlushDone(i) PROVE Ordered'
  BY <1>6, EndKeepsOrder DEF FlushDone, streamVars, recVars
<1>7. CASE Idle
  BY <1>7, EndKeepsOrder DEF Idle, recVars, flushVars
<1>8. CASE SenderReport
  BY <1>8, EndKeepsOrder DEF SenderReport, recVars, flushVars
<1> QED BY <1>1, <1>2, <1>3, <1>4, <1>5, <1>6, <1>7, <1>8 DEF Next

(* Run and the order of the samples are order.                             *)
LEMMA KeptInOrder == IInv => InOrder
<1> SUFFICES ASSUME IInv PROVE InOrder
  OBVIOUS
<1>1. /\ DOMAIN samples = 1 .. Len(samples) /\ Older \in Int
      /\ \A j \in DOMAIN samples : samples[j] = Older + j
  BY SamplesAreNaturals, LenProperties DEF IInv, Types, Ordered, Older
<1>2. Increasing(samples)
  BY <1>1 DEF Increasing
<1>3. ASSUME NEW i \in DOMAIN cuts
      PROVE  /\ Increasing(cuts[i].frames) /\ Before(cuts[i].frames, samples)
             /\ \A k \in DOMAIN cuts : i < k => Before(cuts[i].frames, cuts[k].frames)
  <2>1. /\ cuts[i].frames # <<>> /\ Run(cuts[i].frames)
        /\ \A j \in DOMAIN cuts[i].frames : cuts[i].frames[j] \in 1 .. Older
        /\ \A k \in DOMAIN cuts : i < k => Before(cuts[i].frames, cuts[k].frames)
    BY DEF IInv, Ordered, CutsOrdered
  <2>2. cuts[i].frames \in Seq(Nat)
    <3>1. cuts \in Seq(Segments) /\ i \in 1 .. Len(cuts)
      BY LenProperties DEF IInv, Types
    <3>2. cuts[i] \in Segments
      BY <3>1, ElementOfSeq
    <3> QED BY <3>2 DEF Segments
  <2>3. DOMAIN cuts[i].frames = 1 .. Len(cuts[i].frames) /\ 1 \in DOMAIN cuts[i].frames
    BY <2>1, <2>2, EmptySeq, LenProperties
  <2>4. Increasing(cuts[i].frames)
    <3> DEFINE frames == cuts[i].frames
    <3>1. \A j \in DOMAIN frames : frames[j] = frames[1] + j - 1
      BY <2>1 DEF Run
    <3>2. frames[1] \in Nat
      BY <2>2, <2>3, ElementOfSeq
    <3>3. \A j \in DOMAIN frames : j \in Int
      BY <2>3
    <3> HIDE DEF frames
    <3>4. \A j, k \in DOMAIN frames : j < k => frames[j] < frames[k]
      BY <3>1, <3>2, <3>3
    <3> QED BY <3>4 DEF Increasing, frames
  <2>5. Before(cuts[i].frames, samples)
    BY <1>1, <2>1 DEF Before
  <2> QED BY <2>1, <2>4, <2>5
<1> QED BY <1>2, <1>3 DEF InOrder

(* Type correctness and order, for every state.                            *)
THEOREM Invariance == Spec => []IInv
<1>1. IInv /\ [Next]_vars => IInv'
  BY TypesKept, OwnedKept, OrderedKept DEF IInv
<1> QED BY <1>1, InitInv, PTL DEF Spec

----------------------------------------------------------------------------
(* Nothing is lost.                                                        *)

(* No access unit is of a session yet to come, and the last one, if it is  *)
(* in a segment and none is open, is where a motion window or its session  *)
(* ended.                                                                  *)
Ended ==
    /\ \A n \in DOMAIN log : log[n].session <= session
    /\ ~open /\ log # <<>> /\ InCuts(Len(log)) =>
          ClosedByMotion(Len(log)) \/ log[Len(log)].session < session
Lossless == NoFrameLost /\ Ended

(* A step that keeps what was kept, and, of what it adds, the successors.  *)
LEMMA StillNotLost ==
  ASSUME NoFrameLost, log \in Seq(Entries), log' \in Seq(Entries),
         \A n \in 1 .. Len(log) : log'[n] = log[n],
         \A n \in 1 .. Len(log) : Kept(n) => Kept(n)',
         \A n \in 1 .. Len(log) : ClosedByMotion(n) => ClosedByMotion(n)',
         \A n \in 1 .. Len(log) : Kept(n)' => Kept(n) \/ n = Len(log) \/ Kept(n + 1)'
  PROVE  \A n \in 1 .. Len(log) :
            /\ log'[n].recording /\ log'[n].key => Kept(n)'
            /\ n + 1 \in 1 .. Len(log) /\ log'[n + 1].recording /\ Kept(n)'
                 /\ log'[n].session = log'[n + 1].session /\ ~ClosedByMotion(n)'
                 => Kept(n + 1)'
<1>1. DOMAIN log = 1 .. Len(log) /\ Len(log) \in Nat
  BY LenProperties
<1> TAKE n \in 1 .. Len(log)
<1>2. ASSUME log'[n].recording /\ log'[n].key PROVE Kept(n)'
  BY <1>1, <1>2 DEF NoFrameLost, Key
<1>3. ASSUME n + 1 \in 1 .. Len(log), log'[n + 1].recording, Kept(n)',
             log'[n].session = log'[n + 1].session, ~ClosedByMotion(n)'
      PROVE  Kept(n + 1)'
  <2>1. CASE Kept(n + 1)'
    BY <2>1
  <2>2. CASE Kept(n)
    <3>1. ~ClosedByMotion(n)
      BY <1>3
    <3>2. log[n + 1].recording /\ log[n].session = log[n + 1].session
      BY <1>3
    <3>4. n \in DOMAIN log /\ n + 1 \in DOMAIN log
      BY <1>1, <1>3
    <3>3. Kept(n + 1)
      BY <2>2, <3>1, <3>2, <3>4, Zenon DEF NoFrameLost
    <3> QED BY <1>3, <3>3
  <2>3. Kept(n) \/ n = Len(log) \/ Kept(n + 1)'
    BY <1>3, Zenon
  <2>4. n # Len(log)
    <3>1. ASSUME NEW size \in Nat, NEW m \in 1 .. size, m + 1 \in 1 .. size PROVE m # size
      BY <3>1
    <3> QED BY <1>1, <1>3, <3>1
  <2> QED BY <2>1, <2>2, <2>3, <2>4
<1> QED BY <1>2, <1>3

(* What was in a segment stays in it; what was in the open one is in one.  *)
LEMMA CutRemembered ==
  ASSUME Types, open, NEW by \in {"key", "motion", "close"}, Cut(by)
  PROVE  /\ \A n : InCuts(n) => InCuts(n)'
         /\ \A n : ClosedByMotion(n) => ClosedByMotion(n)'
         /\ \A n : (\E j \in DOMAIN samples : samples[j] = n) => InCuts(n)'
         /\ \A n : InCuts(n)' => InCuts(n) \/ \E j \in DOMAIN samples : samples[j] = n
         /\ by = "motion" => \A n : n = samples[Len(samples)] => ClosedByMotion(n)'
<1> DEFINE new == [start |-> startNTP, frames |-> samples, by |-> by]
<1>1. /\ Len(cuts) \in Nat /\ samples # <<>>
      /\ DOMAIN cuts = 1 .. Len(cuts) /\ DOMAIN cuts' = 1 .. Len(cuts) + 1
      /\ \A i \in 1 .. Len(cuts) : cuts'[i] = cuts[i]
      /\ cuts'[Len(cuts) + 1] = new
  BY CutMade
<1>2. new.frames = samples /\ new.by = by
  OBVIOUS
<1> HIDE DEF new
<1>3. DOMAIN cuts \subseteq DOMAIN cuts' /\ Len(cuts) + 1 \in DOMAIN cuts'
  BY <1>1
<1>4. ASSUME NEW n, InCuts(n) PROVE InCuts(n)'
  BY <1>1, <1>3, <1>4 DEF InCuts
<1>5. ASSUME NEW n, ClosedByMotion(n) PROVE ClosedByMotion(n)'
  BY <1>1, <1>3, <1>5 DEF ClosedByMotion
<1>6. ASSUME NEW n, NEW j \in DOMAIN samples, samples[j] = n PROVE InCuts(n)'
  BY <1>1, <1>2, <1>3, <1>6 DEF InCuts
<1>7. ASSUME NEW n, InCuts(n)' PROVE InCuts(n) \/ \E j \in DOMAIN samples : samples[j] = n
  <2>1. PICK i \in DOMAIN cuts' : \E j \in DOMAIN cuts'[i].frames : cuts'[i].frames[j] = n
    BY <1>7 DEF InCuts
  <2>2. CASE i = Len(cuts) + 1
    BY <1>1, <1>2, <2>1, <2>2
  <2>3. CASE i \in 1 .. Len(cuts)
    BY <1>1, <2>1, <2>3 DEF InCuts
  <2> QED BY <1>1, <2>2, <2>3
<1>8. ASSUME by = "motion", NEW n, n = samples[Len(samples)] PROVE ClosedByMotion(n)'
  BY <1>1, <1>2, <1>3, <1>8 DEF ClosedByMotion, Last
<1> QED BY <1>4, <1>5, <1>6, <1>7, <1>8

(* What an access unit may change: it is kept, or no segment is open and   *)
(* it is no key frame of a recording.                                      *)
LEMMA WriteLosesNothing ==
  ASSUME Types, Lossless, NEW isKey \in BOOLEAN, WriteVideo(isKey),
         \A n \in 1 .. Len(log) : Kept(n) <=> Kept(n)',
         \A n \in 1 .. Len(log) : ClosedByMotion(n) => ClosedByMotion(n)',
         Kept(Len(log))' \/ (~open /\ ~(Recording /\ isKey))
  PROVE  NoFrameLost' /\ (\A n \in DOMAIN log : log[n].session <= session)'
<1>1. /\ log \in Seq(Entries) /\ log' \in Seq(Entries)
      /\ Len(log) \in Nat /\ Len(log') = Len(log) + 1
      /\ DOMAIN log = 1 .. Len(log) /\ DOMAIN log' = 1 .. Len(log) + 1
      /\ \A n \in 1 .. Len(log) : log'[n] = log[n]
      /\ log'[Len(log) + 1] = NewEntry(isKey)
      /\ session' = session /\ session \in Nat
  BY Delivered, LenProperties DEF Types
<1>2. /\ NewEntry(isKey).key = isKey /\ NewEntry(isKey).recording = Recording
      /\ NewEntry(isKey).session = session
  BY DEF NewEntry
<1>3. \A n \in 1 .. Len(log) :
         /\ log'[n].recording /\ log'[n].key => Kept(n)'
         /\ n + 1 \in 1 .. Len(log) /\ log'[n + 1].recording /\ Kept(n)'
              /\ log'[n].session = log'[n + 1].session /\ ~ClosedByMotion(n)'
              => Kept(n + 1)'
  <2>1. \A n \in 1 .. Len(log) : Kept(n)' => Kept(n) \/ n = Len(log) \/ Kept(n + 1)'
    OBVIOUS
  <2> QED BY <1>1, <2>1, StillNotLost DEF Lossless
<1>4. ASSUME NEW n \in DOMAIN log', log'[n].recording, log'[n].key PROVE Kept(n)'
  <2>1. CASE n \in 1 .. Len(log)
    BY <1>3, <1>4, <2>1
  <2>2. CASE n = Len(log) + 1
    <3>1. Kept(Len(log))'
      BY <1>1, <1>2, <1>4, <2>2
    <3> QED BY <1>1, <2>2, <3>1
  <2> QED BY <1>1, <2>1, <2>2
<1>5. ASSUME NEW n \in DOMAIN log', n + 1 \in DOMAIN log', log'[n + 1].recording, Kept(n)',
             log'[n].session = log'[n + 1].session, ~ClosedByMotion(n)'
      PROVE  Kept(n + 1)'
  <2>1. CASE n + 1 \in 1 .. Len(log)
    BY <1>1, <1>3, <1>5, <2>1
  <2>2. CASE n = Len(log)
    <3>1. CASE Kept(Len(log))'
      BY <1>1, <2>2, <3>1
    <3>2. CASE ~open /\ ~(Recording /\ isKey)
      <4>1. n \in 1 .. Len(log) /\ Kept(n) /\ ~ClosedByMotion(n)
        BY <1>1, <1>5, <2>2
      <4>2. InCuts(Len(log)) /\ log # <<>>
        BY <1>1, <2>2, <3>2, <4>1, EmptySeq DEF Kept
      <4>3. log[Len(log)].session < session
        BY <2>2, <3>2, <4>1, <4>2 DEF Lossless, Ended
      <4>4. log[Len(log)].session = session
        BY <1>1, <1>2, <1>5, <2>2, <4>1
      <4> QED BY <1>1, <4>3, <4>4
    <3> QED BY <3>1, <3>2
  <2>3. n = Len(log) \/ n + 1 \in 1 .. Len(log)
    <3>1. ASSUME NEW size \in Nat, NEW m \in 1 .. size + 1, m + 1 \in 1 .. size + 1
          PROVE  m = size \/ m + 1 \in 1 .. size
      BY <3>1
    <3> QED BY <1>1, <1>5, <3>1
  <2> QED BY <2>1, <2>2, <2>3
<1>6. \A n \in DOMAIN log' : log'[n].session <= session'
  BY <1>1, <1>2 DEF Lossless, Ended
<1>7. NoFrameLost'
  BY <1>4, <1>5 DEF NoFrameLost, Key
<1> QED BY <1>6, <1>7

(* Who is in the samples, and who is in the segments.                      *)
Sampled(n) == \E j \in DOMAIN samples : samples[j] = n
Placed ==
    /\ Len(log) \in Nat /\ Older \in Int /\ Older <= Len(log)
    /\ \A n : Sampled(n) <=> n \in Older + 1 .. Len(log)
    /\ \A n : InCuts(n) => n \in 1 .. Older
    /\ samples # <<>> => Sampled(Len(log)) /\ samples[Len(samples)] = Len(log)
LEMMA WhoIsWhere == IInv => Placed
<1> SUFFICES ASSUME IInv PROVE Placed
  OBVIOUS
<1>1. /\ DOMAIN samples = 1 .. Len(samples) /\ Older \in Int /\ Len(samples) \in Nat
      /\ Len(log) \in Nat /\ Older + Len(samples) = Len(log)
      /\ \A j \in DOMAIN samples : samples[j] = Older + j
  BY SamplesAreNaturals, LenProperties DEF IInv, Types, Ordered, Older
<1>2. ASSUME NEW n, InCuts(n) PROVE n \in 1 .. Older
  BY <1>2 DEF InCuts, IInv, Ordered, CutsOrdered
<1>3. ASSUME NEW n, Sampled(n) PROVE n \in Older + 1 .. Len(log)
  BY <1>1, <1>3 DEF Sampled
<1>4. ASSUME NEW n \in Older + 1 .. Len(log) PROVE Sampled(n)
  <2>1. n - Older \in DOMAIN samples /\ samples[n - Older] = n
    BY <1>1
  <2> QED BY <2>1 DEF Sampled
<1>5. ASSUME samples # <<>> PROVE Sampled(Len(log)) /\ samples[Len(samples)] = Len(log)
  <2>1. Len(samples) # 0
    BY <1>1, <1>5, EmptySeq, SamplesAreNaturals DEF IInv
  <2> QED BY <1>1, <1>4, <2>1
<1> QED BY <1>1, <1>2, <1>3, <1>4, <1>5 DEF Placed

LEMMA WriteLossless ==
  ASSUME IInv, IInv', Lossless, NEW isKey \in BOOLEAN, WriteVideo(isKey)
  PROVE  Lossless'
<1>1. /\ Len(log) \in Nat /\ Len(log') = Len(log) + 1
  BY Delivered DEF IInv
<1>2. Placed
  BY WhoIsWhere
<1>3. Placed'
  BY WhoIsWhere, PTL
<1>4. CASE ~open /\ ~(Recording /\ isKey) /\ UNCHANGED <<open, cuts>>
  <2>1. \A n : (Kept(n) <=> Kept(n)') /\ (ClosedByMotion(n) => ClosedByMotion(n)')
    BY <1>4 DEF Kept, InCuts, ClosedByMotion
  <2>2. NoFrameLost' /\ (\A n \in DOMAIN log : log[n].session <= session)'
    BY <1>4, <2>1, WriteLosesNothing DEF IInv
  <2>3. ~InCuts(Len(log))'
    <3>1. ~InCuts(Len(log) + 1)
      BY <1>1, <1>2 DEF Placed
    <3> QED BY <1>1, <1>4, <3>1 DEF InCuts
  <2> QED BY <2>2, <2>3 DEF Lossless, Ended
<1>5. CASE /\ open' /\ samples' # <<>>
           /\ \A n \in 1 .. Len(log) : Kept(n) <=> Kept(n)'
           /\ \A n : ClosedByMotion(n) => ClosedByMotion(n)'
  <2>1. Kept(Len(log))'
    BY <1>3, <1>5 DEF Placed, Kept, Sampled
  <2>2. NoFrameLost' /\ (\A n \in DOMAIN log : log[n].session <= session)'
    BY <1>5, <2>1, WriteLosesNothing DEF IInv
  <2> QED BY <1>5, <2>2 DEF Lossless, Ended
<1>6. CASE /\ open' /\ UNCHANGED cuts /\ (~open => samples = <<>>)
           /\ samples' = Append(samples, Len(log) + 1)
  <2>1. Older' = Older /\ samples' # <<>>
    <3>1. Len(samples') = Len(samples) + 1 /\ samples' # <<>> /\ Len(samples) \in Nat
      BY <1>6, SampleAdded, SamplesAreNaturals DEF IInv
    <3> QED BY <1>1, <3>1 DEF Older
  <2>2. ASSUME NEW n \in 1 .. Len(log) PROVE Sampled(n) <=> Sampled(n)'
    BY <1>1, <1>2, <1>3, <2>1 DEF Placed
  <2>3. ASSUME NEW n \in 1 .. Len(log) PROVE Kept(n) <=> Kept(n)'
    <3>1. ~open => ~Sampled(n)
      BY <1>6 DEF Sampled
    <3>2. InCuts(n) <=> InCuts(n)'
      BY <1>6 DEF InCuts
    <3>3. Kept(n) <=> InCuts(n) \/ Sampled(n)
      BY <3>1 DEF Kept, Sampled
    <3>4. Kept(n)' <=> InCuts(n)' \/ Sampled(n)'
      BY <1>6 DEF Kept, Sampled
    <3> QED BY <2>2, <3>2, <3>3, <3>4
  <2>4. \A n : ClosedByMotion(n) => ClosedByMotion(n)'
    BY <1>6 DEF ClosedByMotion
  <2> QED BY <1>5, <1>6, <2>1, <2>3, <2>4
<1>7. CASE open /\ open' /\ Cut("key") /\ samples' = <<Len(log) + 1>>
  <2>1. /\ \A n : InCuts(n) => InCuts(n)'
        /\ \A n : ClosedByMotion(n) => ClosedByMotion(n)'
        /\ \A n : Sampled(n) => InCuts(n)'
        /\ \A n : InCuts(n)' => InCuts(n) \/ Sampled(n)
    BY <1>7, CutRemembered DEF IInv, Sampled
  <2>2. ASSUME NEW n \in 1 .. Len(log) PROVE Kept(n) <=> Kept(n)'
    <3>1. ~Sampled(n)'
      BY <1>1, <1>7 DEF Sampled
    <3>2. Kept(n) <=> InCuts(n) \/ Sampled(n)
      BY <1>7 DEF Kept, Sampled
    <3>3. Kept(n)' <=> InCuts(n)' \/ Sampled(n)'
      BY <1>7 DEF Kept, Sampled
    <3> QED BY <2>1, <3>1, <3>2, <3>3
  <2> QED BY <1>5, <1>7, <2>1, <2>2
<1>8. CASE WriteOff
  BY <1>4, <1>8 DEF WriteOff, recVars, flushVars, IInv, Owned, Recording
<1>9. CASE WriteWaitForKey(isKey)
  BY <1>4, <1>9 DEF WriteWaitForKey, recVars, flushVars
<1>10. CASE WriteRing(Len(log) + 1, isKey, NtpNow)
  BY <1>4, <1>10 DEF WriteRing, flushVars, IInv, Owned, Recording
<1>11. CASE WriteFirst(Len(log) + 1, isKey, NtpNow)
  BY <1>6, <1>11 DEF WriteFirst, flushVars, IInv, Owned
<1>12. CASE WriteNext(Len(log) + 1, isKey, NtpNow)
  BY <1>6, <1>12 DEF WriteNext, flushVars
<1>13. CASE WriteCut(Len(log) + 1, isKey, NtpNow)
  BY <1>7, <1>13 DEF WriteCut
<1> QED BY <1>8, <1>9, <1>10, <1>11, <1>12, <1>13, Ways

(* No access unit arrives, and what was kept stays kept.                   *)
LEMMA EndLosesNothing ==
  ASSUME IInv, NoFrameLost, UNCHANGED log,
         \A n \in 1 .. Len(log) : Kept(n) => Kept(n)',
         \A n \in 1 .. Len(log) : ClosedByMotion(n) => ClosedByMotion(n)',
         \A n \in 1 .. Len(log) : Kept(n)' => Kept(n) \/ n = Len(log) \/ Kept(n + 1)'
  PROVE  NoFrameLost'
<1>1. log \in Seq(Entries) /\ DOMAIN log = 1 .. Len(log) /\ log' = log
  BY LenProperties DEF IInv, Types
<1>2. \A n \in 1 .. Len(log) :
            /\ log'[n].recording /\ log'[n].key => Kept(n)'
            /\ n + 1 \in 1 .. Len(log) /\ log'[n + 1].recording /\ Kept(n)'
                 /\ log'[n].session = log'[n + 1].session /\ ~ClosedByMotion(n)'
                 => Kept(n + 1)'
  BY <1>1, StillNotLost
<1> QED BY <1>1, <1>2 DEF NoFrameLost, Key

(* Nothing changes for the segments.                                       *)
LEMMA StayLossless ==
  ASSUME IInv, Lossless, UNCHANGED <<log, open, samples, cuts, session>>
  PROVE  Lossless'
BY DEF Lossless, Ended, NoFrameLost, Kept, InCuts, ClosedByMotion, Key

(* Close and the end of a motion window, if a segment is open.             *)
LEMMA CutLossless ==
  ASSUME IInv, Lossless, UNCHANGED log, open, NEW by \in {"motion", "close"}, Cut(by),
         ~open', session' = IF by = "motion" THEN session ELSE session + 1
  PROVE  Lossless'
<1>1. /\ \A n : InCuts(n) => InCuts(n)'
      /\ \A n : ClosedByMotion(n) => ClosedByMotion(n)'
      /\ \A n : Sampled(n) => InCuts(n)'
      /\ \A n : InCuts(n)' => InCuts(n) \/ Sampled(n)
      /\ by = "motion" => \A n : n = samples[Len(samples)] => ClosedByMotion(n)'
  BY CutRemembered DEF IInv, Sampled
<1>2. \A n : (Kept(n) <=> InCuts(n) \/ Sampled(n)) /\ (Kept(n)' <=> InCuts(n)')
  BY DEF Kept, Sampled
<1>3. NoFrameLost'
  BY <1>1, <1>2, EndLosesNothing DEF Lossless
<1>4. \A n \in DOMAIN log : log[n].session <= session /\ log[n].session \in Nat
  <2>1. log \in Seq(Entries)
    BY DEF IInv, Types
  <2>2. \A n \in DOMAIN log : log[n] \in Entries
    BY <2>1, ElementOfSeq, LenProperties
  <2> QED BY <2>2 DEF Lossless, Ended, Entries
<1>5. session \in Nat
  BY DEF IInv, Types
<1>6. \A n \in DOMAIN log : log[n].session <= session'
  BY <1>4, <1>5
<1>7. CASE by = "close"
  <2>1. \A n \in DOMAIN log : log[n].session < session'
    BY <1>4, <1>5, <1>7
  <2>2. log # <<>> => Len(log) \in DOMAIN log
    BY EmptySeq, LenProperties DEF IInv, Types
  <2> QED BY <1>3, <1>6, <2>1, <2>2 DEF Lossless, Ended
<1>8. CASE by = "motion"
  <2>1. ClosedByMotion(Len(log))'
    <3>1. samples[Len(samples)] = Len(log)
      BY WhoIsWhere DEF Placed, IInv, Types, TypeOK
    <3> QED BY <1>1, <1>8, <3>1
  <2> QED BY <1>3, <1>6, <2>1 DEF Lossless, Ended
<1> QED BY <1>7, <1>8

(* The ring becomes the head of a motion segment.                          *)
LEMMA MotionOnLossless ==
  ASSUME IInv, Lossless, MotionOn
  PROVE  Lossless'
<1>1. UNCHANGED <<log, cuts, samples, session>>
  BY DEF MotionOn, streamVars, flushVars
<1>2. CASE open' = open
  BY <1>1, <1>2, StayLossless
<1>3. CASE ~open /\ open'
  <2>1. \A n : (Kept(n) <=> InCuts(n)) /\ (Kept(n)' <=> InCuts(n) \/ Sampled(n))
    BY <1>1, <1>3 DEF Kept, InCuts, Sampled
  <2>2. \A n \in 1 .. Len(log) : Kept(n)' => Kept(n) \/ n = Len(log) \/ Kept(n + 1)'
    <3> TAKE n \in 1 .. Len(log)
    <3>1. Sampled(n) => n = Len(log) \/ Sampled(n + 1)
      BY WhoIsWhere DEF Placed
    <3> QED BY <2>1, <3>1
  <2>3. \A n : ClosedByMotion(n) => ClosedByMotion(n)'
    BY <1>1 DEF ClosedByMotion
  <2>4. NoFrameLost'
    BY <1>1, <2>1, <2>2, <2>3, EndLosesNothing DEF Lossless
  <2> QED BY <1>1, <1>3, <2>4 DEF Lossless, Ended
<1>4. open' \in BOOLEAN /\ open \in BOOLEAN /\ (open' = open \/ (~open /\ open'))
  BY DEF MotionOn, IInv, Types, TypeOK
<1> QED BY <1>2, <1>3, <1>4

LEMMA LosslessKept == IInv /\ IInv' /\ Lossless /\ [Next]_vars => Lossless'
<1> SUFFICES ASSUME IInv, IInv', Lossless, [Next]_vars PROVE Lossless'
  OBVIOUS
<1>1. CASE UNCHANGED vars
  BY <1>1, StayLossless DEF vars, streamVars, recVars, flushVars
<1>2. ASSUME NEW isKey \in BOOLEAN, WriteVideo(isKey) PROVE Lossless'
  BY <1>2, WriteLossless
<1>3. CASE MotionOn
  BY <1>3, MotionOnLossless
<1>4. CASE MotionOff
  <2>1. CASE open
    <3>1. Cut("motion") /\ ~open' /\ session' = session /\ log' = log
      BY <1>4, <2>1 DEF MotionOff, streamVars
    <3> QED BY <2>1, <3>1, CutLossless
  <2>2. CASE ~open
    BY <1>4, <2>2, StayLossless DEF MotionOff, streamVars
  <2> QED BY <2>1, <2>2
<1>5. CASE Close
  <2>1. CASE open
    <3>1. Cut("close") /\ ~open' /\ session' = session + 1 /\ log' = log
      BY <1>5, <2>1 DEF Close
    <3> QED BY <2>1, <3>1, CutLossless
  <2>2. CASE ~open
    <3>1. UNCHANGED <<log, open, samples, cuts>> /\ session' = session + 1
      BY <1>5, <2>2 DEF Close
    <3>2. \A n \in DOMAIN log : log[n].session \in Nat /\ session \in Nat
      <4>1. log \in Seq(Entries) /\ session \in Nat
        BY DEF IInv, Types
      <4>2. \A n \in DOMAIN log : log[n] \in Entries
        BY <4>1, ElementOfSeq, LenProperties
      <4> QED BY <4>1, <4>2 DEF Entries
    <3>3. \A n \in DOMAIN log : log[n].session <= session => log[n].session < session'
      BY <3>1, <3>2
    <3>4. (\A n \in DOMAIN log : log[n].session <= session)'
      BY <3>1, <3>2 DEF Lossless, Ended
    <3>5. log # <<>> => Len(log) \in DOMAIN log
      BY EmptySeq, LenProperties DEF IInv, Types
    <3>6. NoFrameLost'
      BY <3>1 DEF Lossless, NoFrameLost, Kept, InCuts, ClosedByMotion, Key
    <3>7. ~open /\ log # <<>> => log[Len(log)].session < session'
      BY <3>3, <3>5 DEF Lossless, Ended
    <3> QED BY <2>2, <3>1, <3>4, <3>6, <3>7 DEF Lossless, Ended
  <2> QED BY <2>1, <2>2
<1>6. ASSUME NEW i \in flushing, FlushDone(i) PROVE Lossless'
  BY <1>6, StayLossless DEF FlushDone, streamVars, recVars
<1>7. CASE Idle
  BY <1>7, StayLossless DEF Idle, recVars, flushVars
<1>8. CASE SenderReport
  BY <1>8, StayLossless DEF SenderReport, recVars, flushVars
<1> QED BY <1>1, <1>2, <1>3, <1>4, <1>5, <1>6, <1>7, <1>8 DEF Next

(* Every access unit of a recording reaches one segment, and in its place  *)
(* there: WriteVideo, Close and the two ends of a motion window neither    *)
(* drop, repeat nor reorder one, however they are interleaved.             *)
THEOREM FramesAreKept == Spec => []FramesKept
<1>1. Init => Lossless
  BY DEF Init, Lossless, NoFrameLost, Ended
<1>2. IInv /\ IInv' /\ Lossless /\ [Next]_vars => Lossless'
  BY LosslessKept
<1>3. IInv /\ Lossless => FramesKept
  BY KeptInOrder DEF IInv, Types, Lossless, FramesKept
<1> QED BY <1>1, <1>2, <1>3, Invariance, PTL DEF Spec

----------------------------------------------------------------------------
(* Segments can be played.                                                 *)

(* In continuous mode the samples are the segment to be: they start with a *)
(* key frame and are of the current session.                               *)
Playable ==
    mode = "continuous" =>
      /\ StartsWithKey /\ OneSession
      /\ samples # <<>> => Key(samples[1])
      /\ \A j \in DOMAIN samples : log[samples[j]].session = session

(* The frames of a segment are access units known so far.                  *)
LEMMA CutFramesKnown ==
  ASSUME IInv, NEW i \in DOMAIN cuts
  PROVE  /\ \A j \in DOMAIN cuts[i].frames : cuts[i].frames[j] \in 1 .. Len(log)
         /\ 1 \in DOMAIN cuts[i].frames
<1>1. /\ cuts[i].frames # <<>>
      /\ \A j \in DOMAIN cuts[i].frames : cuts[i].frames[j] \in 1 .. Older
  BY DEF IInv, Ordered, CutsOrdered
<1>2. cuts[i].frames \in Seq(Nat)
  <2>1. cuts \in Seq(Segments) /\ i \in 1 .. Len(cuts)
    BY LenProperties DEF IInv, Types
  <2>2. cuts[i] \in Segments
    BY <2>1, ElementOfSeq
  <2> QED BY <2>2 DEF Segments
<1>3. Len(log) \in Nat /\ Older \in Int /\ Older <= Len(log)
  BY WhoIsWhere DEF Placed
<1>4. 1 \in DOMAIN cuts[i].frames
  BY <1>1, <1>2, EmptySeq, LenProperties
<1> QED BY <1>1, <1>3, <1>4

(* The segments stay playable when the log grows.                          *)
LEMMA CutsPlayable ==
  ASSUME IInv, StartsWithKey, OneSession, UNCHANGED cuts,
         \A n \in 1 .. Len(log) : log'[n] = log[n]
  PROVE  StartsWithKey' /\ OneSession'
<1>1. ASSUME NEW i \in DOMAIN cuts PROVE Key(cuts[i].frames[1])'
  BY <1>1, CutFramesKnown DEF StartsWithKey, Key
<1>2. ASSUME NEW i \in DOMAIN cuts, NEW j \in DOMAIN cuts[i].frames,
             NEW k \in DOMAIN cuts[i].frames
      PROVE  log'[cuts[i].frames[j]].session = log'[cuts[i].frames[k]].session
  BY <1>2, CutFramesKnown DEF OneSession
<1> QED BY <1>1, <1>2 DEF StartsWithKey, OneSession

(* All samples become a segment.                                           *)
LEMMA CutPlayable ==
  ASSUME IInv, Playable, mode = "continuous", open,
         NEW by \in {"key", "motion", "close"}, Cut(by),
         \A n \in 1 .. Len(log) : log'[n] = log[n]
  PROVE  StartsWithKey' /\ OneSession'
<1> DEFINE new == [start |-> startNTP, frames |-> samples, by |-> by]
<1>1. /\ Len(cuts) \in Nat /\ samples # <<>>
      /\ DOMAIN cuts = 1 .. Len(cuts) /\ DOMAIN cuts' = 1 .. Len(cuts) + 1
      /\ \A i \in 1 .. Len(cuts) : cuts'[i] = cuts[i]
      /\ cuts'[Len(cuts) + 1] = new
  BY CutMade DEF IInv
<1>2. new.frames = samples
  OBVIOUS
<1> HIDE DEF new
<1>3. /\ 1 \in DOMAIN samples /\ \A j \in DOMAIN samples : samples[j] \in 1 .. Len(log)
  BY <1>1, SamplesAreNaturals, EmptySeq DEF IInv
<1>4. ASSUME NEW i \in DOMAIN cuts'
      PROVE  /\ log'[cuts'[i].frames[1]].key
             /\ \A j, k \in DOMAIN cuts'[i].frames :
                   log'[cuts'[i].frames[j]].session = log'[cuts'[i].frames[k]].session
  <2>1. CASE i = Len(cuts) + 1
    BY <1>1, <1>2, <1>3, <2>1 DEF Playable, Key
  <2>2. CASE i \in 1 .. Len(cuts)
    BY <1>1, <2>2, CutFramesKnown DEF Playable, StartsWithKey, OneSession, Key
  <2> QED BY <1>1, <2>1, <2>2
<1> QED BY <1>4 DEF StartsWithKey, OneSession, Key

LEMMA WritePlayable ==
  ASSUME IInv, Playable, NEW isKey \in BOOLEAN, WriteVideo(isKey)
  PROVE  Playable'
<1> SUFFICES ASSUME mode = "continuous"
             PROVE  /\ StartsWithKey' /\ OneSession'
                    /\ samples' # <<>> => log'[samples'[1]].key
                    /\ \A j \in DOMAIN samples' : log'[samples'[j]].session = session'
  BY Delivered DEF Playable, Key, IInv
<1>0. /\ Len(log) \in Nat /\ Len(log') = Len(log) + 1
      /\ \A n \in 1 .. Len(log) : log'[n] = log[n]
      /\ log'[Len(log) + 1] = NewEntry(isKey)
      /\ session' = session
  BY Delivered DEF IInv
<1>1. /\ Len(log) \in Nat /\ Len(log') = Len(log) + 1
      /\ \A n \in 1 .. Len(log) : log'[n] = log[n]
      /\ log'[Len(log) + 1].key = isKey /\ log'[Len(log) + 1].session = session
      /\ session' = session
  BY <1>0 DEF NewEntry
<1>2. /\ Len(samples) \in Nat /\ DOMAIN samples = 1 .. Len(samples)
      /\ \A j \in DOMAIN samples : samples[j] \in 1 .. Len(log)
      /\ samples # <<>> => 1 \in DOMAIN samples
  BY SamplesAreNaturals, EmptySeq DEF IInv
<1>3. /\ StartsWithKey /\ OneSession
      /\ samples # <<>> => log[samples[1]].key
      /\ \A j \in DOMAIN samples : log[samples[j]].session = session
  BY DEF Playable, Key
<1>4. CASE UNCHANGED <<samples, cuts>>
  <2>1. StartsWithKey' /\ OneSession'
    BY <1>1, <1>3, <1>4, CutsPlayable
  <2> QED BY <1>1, <1>2, <1>3, <1>4, <2>1
<1>5. CASE /\ samples' = Append(samples, Len(log) + 1) /\ UNCHANGED cuts
           /\ samples = <<>> => isKey
  <2>1. StartsWithKey' /\ OneSession'
    BY <1>1, <1>3, <1>5, CutsPlayable
  <2>2. /\ Len(samples') = Len(samples) + 1 /\ DOMAIN samples' = 1 .. Len(samples')
        /\ \A j \in 1 .. Len(samples) : samples'[j] = samples[j]
        /\ samples'[Len(samples) + 1] = Len(log) + 1
    BY <1>1, <1>5, SampleAdded, LenProperties DEF IInv
  <2>3. \A j \in DOMAIN samples' : log'[samples'[j]].session = session'
    BY <1>1, <1>2, <1>3, <2>2
  <2>4. CASE samples = <<>>
    <3>1. Len(samples) = 0
      BY <2>4, EmptySeq
    <3>2. samples'[1] = Len(log) + 1
      BY <2>2, <3>1
    <3> QED BY <1>1, <1>5, <2>1, <2>3, <2>4, <3>2
  <2>5. CASE samples # <<>>
    <3>1. samples'[1] = samples[1] /\ samples[1] \in 1 .. Len(log)
      BY <1>2, <2>2, <2>5
    <3>2. log'[samples'[1]].key
      BY <1>1, <1>3, <2>5, <3>1
    <3> QED BY <2>1, <2>3, <3>2
  <2> QED BY <2>4, <2>5
<1>6. CASE WriteCut(Len(log) + 1, isKey, NtpNow)
  <2>1. open /\ isKey /\ Cut("key") /\ samples' = <<Len(log) + 1>>
    BY <1>6 DEF WriteCut, CutDue
  <2>2. StartsWithKey' /\ OneSession'
    BY <1>1, <2>1, CutPlayable
  <2>3. \A j \in DOMAIN samples' : j = 1 /\ samples'[j] = Len(log) + 1
    BY <2>1
  <2>4. log'[samples'[1]].key
    BY <1>1, <2>1
  <2> QED BY <1>1, <2>2, <2>3, <2>4
<1>7. CASE WriteOff
  BY <1>7 DEF WriteOff
<1>8. CASE WriteWaitForKey(isKey)
  BY <1>4, <1>8 DEF WriteWaitForKey, recVars, flushVars
<1>9. CASE WriteRing(Len(log) + 1, isKey, NtpNow)
  BY <1>9 DEF WriteRing
<1>10. CASE WriteFirst(Len(log) + 1, isKey, NtpNow)
  BY <1>5, <1>10 DEF WriteFirst, flushVars
<1>11. CASE WriteNext(Len(log) + 1, isKey, NtpNow)
  BY <1>5, <1>11 DEF WriteNext, flushVars, IInv, Types, TypeOK
<1> QED BY <1>6, <1>7, <1>8, <1>9, <1>10, <1>11, Ways

LEMMA PlayableKept == IInv /\ Playable /\ [Next]_vars => Playable'
<1> SUFFICES ASSUME IInv, Playable, [Next]_vars PROVE Playable'
  OBVIOUS
<1>0. ASSUME UNCHANGED <<mode, log, samples, cuts, session>> PROVE Playable'
  BY <1>0 DEF Playable, StartsWithKey, OneSession, Key
<1>1. CASE UNCHANGED vars
  BY <1>0, <1>1 DEF vars, streamVars, recVars, flushVars
<1>2. ASSUME NEW isKey \in BOOLEAN, WriteVideo(isKey) PROVE Playable'
  BY <1>2, WritePlayable
<1>3. CASE MotionOn
  BY <1>0, <1>3 DEF MotionOn, streamVars, flushVars
<1>4. CASE MotionOff
  BY <1>4 DEF MotionOff, streamVars, Playable
<1>5. CASE Close
  <2>1. CASE open
    <3>1. Cut("close") /\ samples' = <<>> /\ UNCHANGED <<mode, log>>
      BY <1>5, <2>1 DEF Close
    <3>2. mode = "continuous" => StartsWithKey' /\ OneSession'
      BY <2>1, <3>1, CutPlayable
    <3> QED BY <3>1, <3>2 DEF Playable
  <2>2. CASE ~open
    <3>1. UNCHANGED <<mode, log, samples, cuts>>
      BY <1>5, <2>2 DEF Close
    <3>2. mode = "continuous" => samples = <<>>
      BY <2>2 DEF IInv, Owned, Recording
    <3> QED BY <3>1, <3>2 DEF Playable, StartsWithKey, OneSession, Key
  <2> QED BY <2>1, <2>2
<1>6. ASSUME NEW i \in flushing, FlushDone(i) PROVE Playable'
  BY <1>0, <1>6 DEF FlushDone, streamVars, recVars
<1>7. CASE Idle
  BY <1>0, <1>7 DEF Idle, recVars, flushVars
<1>8. CASE SenderReport
  BY <1>0, <1>8 DEF SenderReport, recVars, flushVars
<1> QED BY <1>1, <1>2, <1>3, <1>4, <1>5, <1>6, <1>7, <1>8 DEF Next

(* Every segment of a continuous recording starts with a key frame and is  *)
(* of one RTSP session: WriteVideo opens and cuts at key frames only, and  *)
(* Close ends the segment with its session.                                *)
THEOREM SegmentsArePlayable == Spec => []SegmentsPlayable
<1>1. Init => Playable
  BY DEF Init, Playable, StartsWithKey, OneSession
<1>2. IInv /\ Playable /\ [Next]_vars => Playable'
  BY PlayableKept
<1>3. Playable => SegmentsPlayable
  BY DEF Playable, SegmentsPlayable
<1> QED BY <1>1, <1>2, <1>3, Invariance, PTL DEF Spec

----------------------------------------------------------------------------
(* The clocks.                                                             *)

(* An access unit's wall-clock time is the time it arrived at, on the      *)
(* server's clock or on the camera's, and the recorder's copies of it are  *)
(* those of its samples.                                                   *)
Stamps ==
    /\ \A n \in DOMAIN log : /\ log[n].ntp = log[n].at \/ log[n].ntp = log[n].at + skew
                             /\ log[n].at <= now
    /\ \A m, n \in DOMAIN log : m < n => log[m].at < log[n].at
    /\ open => startNTP = log[samples[1]].ntp
    /\ ~open => \A j \in DOMAIN samples : times[j] = log[samples[j]].ntp

LEMMA EntriesTyped ==
  ASSUME Types
  PROVE  /\ DOMAIN log = 1 .. Len(log) /\ Len(log) \in Nat
         /\ \A n \in DOMAIN log : log[n].at \in Nat /\ log[n].ntp \in Int /\ log[n].session \in Nat
<1>1. log \in Seq(Entries)
  BY DEF Types
<1>2. DOMAIN log = 1 .. Len(log) /\ Len(log) \in Nat
  BY <1>1, LenProperties
<1>3. \A n \in DOMAIN log : log[n] \in Entries
  BY <1>1, <1>2, ElementOfSeq
<1> QED BY <1>2, <1>3 DEF Entries

LEMMA WriteStamps ==
  ASSUME IInv, Stamps, NEW isKey \in BOOLEAN, WriteVideo(isKey)
  PROVE  Stamps'
<1>1. /\ Len(log) \in Nat /\ Len(log') = Len(log) + 1
      /\ \A n \in 1 .. Len(log) : log'[n] = log[n]
      /\ log'[Len(log) + 1] = NewEntry(isKey)
      /\ skew' = skew /\ now' = now + 1 /\ now \in Int
      /\ DOMAIN log = 1 .. Len(log) /\ DOMAIN log' = 1 .. Len(log')
  <2>1. now \in Int
    BY RecorderAssumption DEF IInv, Types, TypeOK
  <2>2. log' \in Seq(Entries) /\ log \in Seq(Entries)
    BY Delivered DEF IInv, Types
  <2> QED BY <2>1, <2>2, Delivered, LenProperties DEF IInv
<1>2. /\ NewEntry(isKey).at = now + 1 /\ NewEntry(isKey).ntp = NtpNow
      /\ NtpNow = now + 1 \/ NtpNow = now + 1 + skew
  BY <1>1 DEF NewEntry, NtpNow
<1>3. \A n \in DOMAIN log : log[n].at \in Nat /\ log[n].ntp \in Int
  BY EntriesTyped DEF IInv
<1>4. \A n \in DOMAIN log' :
          /\ log'[n].ntp = log'[n].at \/ log'[n].ntp = log'[n].at + skew'
          /\ log'[n].at <= now'
  <2> TAKE n \in DOMAIN log'
  <2>1. CASE n = Len(log) + 1
    BY <1>1, <1>2, <2>1
  <2>2. CASE n \in 1 .. Len(log)
    BY <1>1, <1>3, <2>2 DEF Stamps
  <2> QED BY <1>1, <2>1, <2>2
<1>5. ASSUME NEW m \in DOMAIN log', NEW n \in DOMAIN log', m < n PROVE log'[m].at < log'[n].at
  <2>1. m \in 1 .. Len(log) /\ log'[m] = log[m]
    BY <1>1, <1>5
  <2>2. CASE n = Len(log) + 1
    BY <1>1, <1>2, <1>3, <2>1, <2>2 DEF Stamps
  <2>3. CASE n \in 1 .. Len(log)
    BY <1>1, <1>5, <2>1, <2>3 DEF Stamps
  <2> QED BY <1>1, <2>2, <2>3
<1>6. /\ Len(samples) \in Nat /\ DOMAIN samples = 1 .. Len(samples)
      /\ \A j \in DOMAIN samples : samples[j] \in 1 .. Len(log)
      /\ samples # <<>> => 1 \in DOMAIN samples
  BY SamplesAreNaturals, EmptySeq DEF IInv
<1>7. /\ open' => startNTP' = log'[samples'[1]].ntp
      /\ ~open' => \A j \in DOMAIN samples' : times'[j] = log'[samples'[j]].ntp
  <2>1. CASE UNCHANGED <<open, samples, times, startNTP>>
    <3>1. ASSUME open PROVE startNTP = log'[samples[1]].ntp
      <4>1. 1 \in DOMAIN samples
        BY <1>6, <3>1 DEF IInv, Types, TypeOK
      <4> QED BY <1>1, <1>6, <3>1, <4>1 DEF Stamps
    <3>2. ASSUME ~open, NEW j \in DOMAIN samples PROVE times[j] = log'[samples[j]].ntp
      BY <1>1, <1>6, <3>2 DEF Stamps
    <3> QED BY <2>1, <3>1, <3>2
  <2>2. CASE WriteRing(Len(log) + 1, isKey, NtpNow)
    <3> DEFINE ntps == Append(times, NtpNow)
               keys == Append([i \in DOMAIN samples |-> Key(samples[i])], isKey)
               head == RingHead(ntps, keys)
               frames == Append(samples, Len(log) + 1)
    <3>1. ~open /\ ~open'
      BY <2>2 DEF WriteRing, IInv, Owned, Recording
    <3>2. /\ head \in 1 .. Len(samples) + 1 /\ Len(samples') = Len(samples) + 2 - head
          /\ samples' \in Seq(1 .. Len(log'))
          /\ \A j \in 1 .. Len(samples') : /\ samples'[j] = frames[head + j - 1]
                                           /\ times'[j] = ntps[head + j - 1]
      BY <2>2, <3>1, RingTrimmed, NtpIsInt DEF IInv
    <3>3. \A j \in 1 .. Len(samples) + 1 : ntps[j] = log'[frames[j]].ntp
      <4>1. times \in Seq(Int) /\ Len(times) = Len(samples) /\ NtpNow \in Int /\ samples \in Seq(Nat)
        BY <3>1, NtpIsInt, SamplesAreNaturals DEF IInv, Types, TypeOK
      <4>2. /\ \A j \in 1 .. Len(samples) : ntps[j] = times[j] /\ frames[j] = samples[j]
            /\ ntps[Len(samples) + 1] = NtpNow /\ frames[Len(samples) + 1] = Len(log) + 1
        BY <1>1, <4>1, AppendProperties
      <4> HIDE DEF ntps, frames
      <4> TAKE j \in 1 .. Len(samples) + 1
      <4>3. CASE j = Len(samples) + 1
        BY <1>1, <1>2, <4>2, <4>3
      <4>4. CASE j \in 1 .. Len(samples)
        BY <1>1, <1>6, <3>1, <4>2, <4>4 DEF Stamps
      <4> QED BY <1>6, <4>3, <4>4
    <3> HIDE DEF ntps, frames, head
    <3>4. DOMAIN samples' = 1 .. Len(samples') /\ Len(samples') \in Nat
      BY <3>2, LenProperties
    <3>5. ASSUME NEW j \in DOMAIN samples' PROVE times'[j] = log'[samples'[j]].ntp
      <4>1. head + j - 1 \in 1 .. Len(samples) + 1
        BY <1>6, <3>2, <3>4
      <4> QED BY <3>2, <3>3, <3>4, <4>1
    <3> QED BY <3>1, <3>5
  <2>3. CASE WriteFirst(Len(log) + 1, isKey, NtpNow)
    <3>1. open' /\ startNTP' = NtpNow /\ samples = <<>> /\ samples' = Append(samples, Len(log) + 1)
      BY <2>3 DEF WriteFirst, IInv, Owned
    <3>2. samples' = <<Len(log) + 1>>
      BY <3>1
    <3> QED BY <1>1, <1>2, <3>1, <3>2
  <2>4. CASE WriteNext(Len(log) + 1, isKey, NtpNow)
    <3>1. /\ open /\ open' /\ startNTP' = startNTP /\ samples' = Append(samples, Len(log) + 1)
          /\ 1 \in DOMAIN samples
      BY <1>6, <2>4 DEF WriteNext, IInv, Types, TypeOK
    <3>2. samples'[1] = samples[1]
      BY <1>6, <3>1, SampleAdded DEF IInv
    <3> QED BY <1>1, <1>6, <3>1, <3>2 DEF Stamps
  <2>5. CASE WriteCut(Len(log) + 1, isKey, NtpNow)
    <3>1. open' /\ startNTP' = NtpNow /\ samples' = <<Len(log) + 1>>
      BY <2>5 DEF WriteCut
    <3> QED BY <1>1, <1>2, <3>1
  <2>6. CASE WriteOff
    BY <2>1, <2>6 DEF WriteOff, recVars
  <2>7. CASE WriteWaitForKey(isKey)
    BY <2>1, <2>7 DEF WriteWaitForKey, recVars
  <2> QED BY <2>2, <2>3, <2>4, <2>5, <2>6, <2>7, Ways
<1> QED BY <1>1, <1>4, <1>5, <1>7 DEF Stamps

LEMMA StampsKept == IInv /\ Stamps /\ [Next]_vars => Stamps'
<1> SUFFICES ASSUME IInv, Stamps, [Next]_vars PROVE Stamps'
  OBVIOUS
<1>0. ASSUME UNCHANGED <<skew, now, log, open, samples, times, startNTP>> PROVE Stamps'
  BY <1>0 DEF Stamps
<1>1. CASE UNCHANGED vars
  BY <1>0, <1>1 DEF vars, streamVars, recVars
<1>2. ASSUME NEW isKey \in BOOLEAN, WriteVideo(isKey) PROVE Stamps'
  BY <1>2, WriteStamps
<1>3. CASE MotionOn
  <2>1. CASE ~open /\ samples # <<>>
    <3>1. 1 \in DOMAIN samples
      BY <2>1, SamplesAreNaturals, EmptySeq DEF IInv
    <3> QED BY <1>3, <2>1, <3>1 DEF MotionOn, streamVars, Stamps
  <2>2. CASE ~(~open /\ samples # <<>>)
    BY <1>0, <1>3, <2>2 DEF MotionOn, streamVars
  <2> QED BY <2>1, <2>2
<1>4. CASE MotionOff
  <2>1. CASE open
    BY <1>4, <2>1 DEF MotionOff, streamVars, Stamps
  <2>2. CASE ~open
    BY <1>0, <1>4, <2>2 DEF MotionOff, streamVars
  <2> QED BY <2>1, <2>2
<1>5. CASE Close
  <2>1. CASE open
    BY <1>5, <2>1 DEF Close, Stamps
  <2>2. CASE ~open
    BY <1>0, <1>5, <2>2 DEF Close
  <2> QED BY <2>1, <2>2
<1>6. ASSUME NEW i \in flushing, FlushDone(i) PROVE Stamps'
  BY <1>0, <1>6 DEF FlushDone, streamVars, recVars
<1>7. CASE Idle
  <2>1. \A n \in DOMAIN log : log[n].at \in Nat
    BY EntriesTyped DEF IInv
  <2>2. now \in Int
    BY RecorderAssumption DEF IInv, Types, TypeOK
  <2> QED BY <1>7, <2>1, <2>2 DEF Idle, recVars, Stamps
<1>8. CASE SenderReport
  BY <1>0, <1>8 DEF SenderReport, recVars
<1> QED BY <1>1, <1>2, <1>3, <1>4, <1>5, <1>6, <1>7, <1>8 DEF Next

(* Every access unit is stamped by one of the two clocks.                  *)
THEOREM StampsTold == Spec => []Stamps
<1>1. Init => Stamps
  BY DEF Init, Stamps
<1>2. IInv /\ Stamps /\ [Next]_vars => Stamps'
  BY StampsKept
<1> QED BY <1>1, <1>2, Invariance, PTL DEF Spec

(* However far a camera's clock is from the server's: a key frame that     *)
(* arrives SegDur and that much after the first frame of the open segment  *)
(* starts the next one, and only a key frame does, at most that much too   *)
(* early. The recorder compares two time stamps in WriteVideo, each of     *)
(* which is of one of the clocks.                                          *)
THEOREM CutsOnTime == Spec => CutOnAge
<1> DEFINE Due == \A n \in DOMAIN log' \ DOMAIN log :
                     LET age == log'[n].at - log[samples[1]].at
                     IN  open => /\ log'[n].key /\ age >= SegDur + Apart => samples' = <<n>>
                                 /\ samples' = <<n>> => log'[n].key /\ age >= SegDur - Apart
<1>1. ASSUME IInv, Stamps, [Next]_vars PROVE [Due]_vars
  <2>1. ASSUME UNCHANGED log PROVE Due
    BY <2>1
  <2>2. ASSUME NEW isKey \in BOOLEAN, WriteVideo(isKey) PROVE Due
    <3> DEFINE first == log[samples[1]]
    <3> SUFFICES ASSUME NEW n \in DOMAIN log' \ DOMAIN log, open
                 PROVE  /\ log'[n].key /\ log'[n].at - first.at >= SegDur + Apart
                              => samples' = <<n>>
                        /\ samples' = <<n>>
                              => log'[n].key /\ log'[n].at - first.at >= SegDur - Apart
      OBVIOUS
    <3>1. n = Len(log) + 1 /\ log'[n] = NewEntry(isKey) /\ now \in Int
      <4>1. now \in Int
        BY <1>1, RecorderAssumption DEF IInv, Types, TypeOK
      <4>2. log' \in Seq(Entries) /\ log \in Seq(Entries)
        BY <1>1, <2>2, Delivered DEF IInv, Types
      <4> QED BY <1>1, <2>2, <4>1, <4>2, Delivered, LenProperties DEF IInv
    <3>2. /\ log'[n].key = isKey /\ log'[n].at = now + 1
          /\ NtpNow = now + 1 \/ NtpNow = now + 1 + skew
      BY <3>1 DEF NewEntry, NtpNow
    <3>3. /\ 1 \in DOMAIN samples /\ samples[1] \in DOMAIN log
          /\ samples[1] \in 1 .. Len(log) /\ Len(samples) \in Nat /\ Len(log) \in Nat
      <4>1. samples # <<>>
        BY <1>1 DEF IInv, Types, TypeOK
      <4> QED BY <1>1, <4>1, SamplesAreNaturals, EntriesTyped, EmptySeq DEF IInv
    <3>4. /\ first.at \in Int /\ startNTP \in Int /\ skew \in Int /\ SegDur \in Int
          /\ startNTP = first.at \/ startNTP = first.at + skew
      <4>1. first.at \in Int /\ first.ntp \in Int
        BY <1>1, <3>3, EntriesTyped DEF IInv
      <4>2. first.ntp = first.at \/ first.ntp = first.at + skew
        BY <1>1, <3>3 DEF Stamps
      <4>3. startNTP = first.ntp
        BY <1>1 DEF Stamps
      <4>4. skew \in Int /\ SegDur \in Int
        BY <1>1, RecorderAssumption DEF IInv, Types, TypeOK, RecorderAssumption
      <4> QED BY <4>1, <4>2, <4>3, <4>4
    <3> HIDE DEF first
    <3>5. /\ log'[n].at - first.at >= SegDur + Apart => NtpNow - startNTP >= SegDur
          /\ NtpNow - startNTP >= SegDur => log'[n].at - first.at >= SegDur - Apart
      BY <3>1, <3>2, <3>4 DEF Apart
    <3>6. Recording
      BY <1>1 DEF IInv, Owned
    <3>7. CutDue(isKey, NtpNow) => samples' = <<n>>
      BY <2>2, <3>1, <3>6, Ways
          DEF WriteOff, WriteRing, WriteWaitForKey, WriteFirst, WriteNext, WriteCut, Recording
    <3>8. samples' = <<n>> => CutDue(isKey, NtpNow)
      <4> SUFFICES ASSUME ~CutDue(isKey, NtpNow) PROVE samples' # <<n>>
        OBVIOUS
      <4>1. samples' = Append(samples, n)
        BY <2>2, <3>1, <3>6, Ways
            DEF WriteOff, WriteRing, WriteWaitForKey, WriteFirst, WriteNext, WriteCut, Recording
      <4>2. samples'[1] = samples[1]
        BY <1>1, <3>1, <3>3, <4>1, SampleAdded DEF IInv
      <4>3. samples[1] # n
        BY <3>1, <3>3
      <4> QED BY <4>2, <4>3
    <3> QED BY <3>2, <3>5, <3>7, <3>8 DEF CutDue
  <2> QED BY <1>1, <2>1, <2>2
        DEF Next, MotionOn, MotionOff, Close, FlushDone, Idle, SenderReport, streamVars
<1>2. Spec => [][Due]_vars
  BY <1>1, Invariance, StampsTold, PTL DEF Spec
<1> QED BY <1>2 DEF CutOnAge

----------------------------------------------------------------------------
(* The pre-roll ring.                                                      *)

(* Arrivals only grow, and a time stamp is the time of arrival or off by   *)
(* what the clocks are apart. No key frame after the ring's new head       *)
(* arrived so much before the cutoff.                                      *)
Stamped(ntp, at) == ntp = at \/ ntp = at + skew

(* What comparing two time stamps says of the arrivals, and the reverse.   *)
LEMMA StampsCompared ==
  ASSUME NEW a \in Int, NEW p \in Int, Stamped(p, a), NEW b \in Int, NEW q \in Int, Stamped(q, b),
         NEW d \in Int, skew \in Int
  PROVE  /\ a <= b - d - Apart => p <= q - d
         /\ a < b - d - Apart => p < q - d
         /\ p <= q - d => a <= b - d + Apart
<1>1. CASE skew < 0
  <2>1. Apart = -skew
    BY <1>1 DEF Apart
  <2> QED BY <1>1, <2>1 DEF Stamped
<1>2. CASE ~(skew < 0)
  <2>1. Apart = skew
    BY <1>2 DEF Apart
  <2> QED BY <1>2, <2>1 DEF Stamped
<1> QED BY <1>1, <1>2

LEMMA RingHeadIsNewest ==
  ASSUME NEW ntps \in Seq(Int), ntps # <<>>, NEW keys, NEW ats, skew \in Int,
         \A j \in DOMAIN ntps : ats[j] \in Int /\ Stamped(ntps[j], ats[j]),
         \A i, j \in DOMAIN ntps : i < j => ats[i] < ats[j]
  PROVE  \A j \in DOMAIN ntps :
            j > RingHead(ntps, keys) /\ keys[j] => ats[j] > ats[Len(ntps)] - PreRoll - Apart
<1> DEFINE cutoff == ntps[Len(ntps)] - PreRoll
           old == {i \in DOMAIN ntps : \A j \in 1 .. i : ntps[j] <= cutoff}
           heads == {i \in old : keys[i]}
           early(j) == ~(ats[j] > ats[Len(ntps)] - PreRoll - Apart)
<1>1. /\ DOMAIN ntps = 1 .. Len(ntps) /\ Len(ntps) \in Nat \ {0}
      /\ 1 \in 1 .. Len(ntps) /\ Len(ntps) \in 1 .. Len(ntps)
      /\ \A j \in DOMAIN ntps : ntps[j] \in Int
  BY EmptySeq, LenProperties, ElementOfSeq
<1>2. PreRoll \in Int /\ cutoff \in Int
  BY <1>1, RecorderAssumption
<1>a. ASSUME NEW i \in DOMAIN ntps
      PROVE  /\ ats[i] <= ats[Len(ntps)] - PreRoll - Apart => ntps[i] <= cutoff
             /\ ats[i] < ats[Len(ntps)] - PreRoll - Apart => ntps[i] < cutoff
  <2> DEFINE n == Len(ntps)
  <2>1. /\ ats[i] \in Int /\ ntps[i] \in Int /\ ats[n] \in Int /\ ntps[n] \in Int
        /\ Stamped(ntps[i], ats[i]) /\ Stamped(ntps[n], ats[n])
    BY <1>1
  <2> QED BY <1>2, <2>1, StampsCompared
<1>b. Apart \in Int
  BY DEF Apart
<1>3. ASSUME NEW j \in DOMAIN ntps, keys[j], early(j) PROVE j \in heads
  <2>1. \A i \in 1 .. j : ntps[i] <= cutoff
    <3> TAKE i \in 1 .. j
    <3>1. i \in DOMAIN ntps /\ (i = j \/ i < j)
      BY <1>1
    <3>2. /\ ats[i] <= ats[j]
          /\ ats[i] \in Int /\ ats[j] \in Int /\ ats[Len(ntps)] \in Int
      BY <1>1, <3>1
    <3>3. ats[i] <= ats[Len(ntps)] - PreRoll - Apart
      BY <1>2, <1>b, <1>3, <3>2
    <3> QED BY <1>a, <3>1, <3>3
  <2> QED BY <1>3, <2>1
<1>4. CASE ntps[Len(ntps)] - ntps[1] <= PreRoll
  <2>1. RingHead(ntps, keys) = 1
    BY <1>4 DEF RingHead, Last
  <2>2. ASSUME NEW j \in DOMAIN ntps, j > 1, early(j) PROVE FALSE
    <3>1. ats[1] < ats[j] /\ ats[j] \in Int /\ ats[Len(ntps)] \in Int /\ ats[1] \in Int
      BY <1>1, <2>2
    <3>2. ats[1] < ats[Len(ntps)] - PreRoll - Apart
      BY <1>2, <1>b, <2>2, <3>1
    <3>3. ntps[1] < cutoff
      BY <1>1, <1>a, <3>2
    <3>4. ntps[1] \in Int /\ ntps[Len(ntps)] \in Int
      BY <1>1
    <3> QED BY <1>2, <1>4, <3>3, <3>4
  <2> QED BY <2>1, <2>2
<1>5. CASE heads = {}
  BY <1>3, <1>5
<1>6. CASE heads # {} /\ ~(ntps[Len(ntps)] - ntps[1] <= PreRoll)
  <2>1. RingHead(ntps, keys) = CHOOSE i \in heads : \A j \in heads : j <= i
    BY <1>6 DEF RingHead, NewestKey, Last
  <2>2. heads \in SUBSET (1 .. Len(ntps))
    BY <1>1
  <2>3. \E i \in heads : \A j \in heads : j <= i
    BY <1>1, <1>6, <2>2, Greatest
  <2>4. RingHead(ntps, keys) \in heads /\ \A j \in heads : j <= RingHead(ntps, keys)
    BY <2>1, <2>3
  <2>5. RingHead(ntps, keys) \in Int
    BY <1>1, <2>2, <2>4
  <2> HIDE DEF heads
  <2> TAKE j \in DOMAIN ntps
  <2>6. ASSUME j > RingHead(ntps, keys), keys[j], early(j) PROVE FALSE
    BY <1>1, <1>3, <2>4, <2>5, <2>6
  <2> QED BY <2>6
<1> QED BY <1>4, <1>5, <1>6

(* When the ring is empty the last access unit was recorded, or skipped by *)
(* a recording that had no key frame to start with.                        *)
RingStarts ==
    mode = "motion" /\ samples = <<>> /\ log # <<>> =>
        InCuts(Len(log)) \/ log[Len(log)].recording

RingInv == RingStarts /\ RingCovers

(* The times of a ring that an access unit has joined.                     *)
LEMMA RingTimes ==
  ASSUME IInv, ~open, NEW isKey \in BOOLEAN, WriteVideo(isKey)
  PROVE  LET ntps == Append(times, NtpNow) IN
         /\ ntps \in Seq(Int) /\ ntps # <<>> /\ Len(ntps) = Len(samples) + 1
         /\ ntps[Len(ntps)] = NtpNow
         /\ \A j \in 1 .. Len(samples) : ntps[j] = times[j]
<1>1. /\ times \in Seq(Int) /\ Len(times) = Len(samples) /\ Len(samples) \in Nat
      /\ NtpNow \in Int
  BY NtpIsInt, SamplesAreNaturals DEF IInv, Types, TypeOK
<1> QED BY <1>1, AppendProperties, LenProperties

(* The clauses of RingCovers, for a ring that is not empty.                *)
RingIsLatest ==
    samples # <<>> =>
        \A n \in samples[1] .. Len(log) : \E j \in DOMAIN samples : samples[j] = n
RingReachesBack ==
    samples[1] > 1 /\ ~InCuts(samples[1] - 1) /\ ~log[samples[1] - 1].recording
      => log[samples[1] - 1].at <= log[Len(log)].at - PreRoll + Apart
RingIsTrimmed ==
    \A j \in 2 .. Len(samples) :
        Key(samples[j]) => log[samples[j]].at > log[Len(log)].at - PreRoll - Apart

LEMMA LatestFromPlaced == IInv => RingIsLatest
<1> SUFFICES ASSUME IInv, samples # <<>>
             PROVE  \A n \in samples[1] .. Len(log) : \E j \in DOMAIN samples : samples[j] = n
  BY DEF RingIsLatest
<1>1. samples[1] = Older + 1
  BY SamplesAreNaturals, EmptySeq DEF IInv, Ordered
<1> QED BY <1>1, WhoIsWhere DEF Placed, Sampled

(* The ring, before and after an access unit joins it.                     *)
LEMMA RingMoved ==
  ASSUME IInv, IInv', Stamps, Stamps', RingInv, NEW isKey \in BOOLEAN, WriteVideo(isKey),
         WriteRing(Len(log) + 1, isKey, NtpNow)
  PROVE  samples' # <<>> /\ RingReachesBack' /\ RingIsTrimmed'
<1> DEFINE ntps == Append(times, NtpNow)
           keys == Append([i \in DOMAIN samples |-> Key(samples[i])], isKey)
           head == RingHead(ntps, keys)
           frames == Append(samples, Len(log) + 1)
           ats == [j \in 1 .. Len(samples) + 1 |-> log'[frames[j]].at]
<1>1. /\ ~open /\ mode = "motion" /\ UNCHANGED <<cuts, skew>> /\ ~Recording
      /\ skew \in Int /\ PreRoll \in Int
  BY RecorderAssumption
     DEF WriteVideo, WriteRing, IInv, Owned, Types, TypeOK, Recording, flushVars
<1>2. /\ head \in 1 .. Len(samples) + 1 /\ Len(samples') = Len(samples) + 2 - head
      /\ times' \in Seq(Int) /\ Len(times') = Len(samples') /\ Len(samples) \in Nat
      /\ \A j \in 1 .. Len(samples') : /\ samples'[j] = frames[head + j - 1]
                                       /\ times'[j] = ntps[head + j - 1]
  BY <1>1, RingTrimmed, NtpIsInt DEF IInv
<1>3. /\ ntps \in Seq(Int) /\ ntps # <<>> /\ Len(ntps) = Len(samples) + 1
      /\ DOMAIN ntps = 1 .. Len(samples) + 1
      /\ ntps[Len(samples) + 1] = NtpNow
      /\ \A j \in 1 .. Len(samples) : ntps[j] = times[j]
  BY <1>1, RingTimes, LenProperties
<1>4. /\ frames \in Seq(Nat) /\ Len(log) \in Nat
      /\ \A j \in 1 .. Len(samples) : frames[j] = samples[j] /\ samples[j] \in 1 .. Len(log)
      /\ frames[Len(samples) + 1] = Len(log) + 1
      /\ DOMAIN samples = 1 .. Len(samples)
  BY SamplesAreNaturals, EntriesTyped, AppendProperties DEF IInv
<1>5. /\ \A j \in 1 .. Len(samples) : keys[j] = log[samples[j]].key
      /\ keys[Len(samples) + 1] = isKey
  <2> DEFINE olds == [i \in DOMAIN samples |-> Key(samples[i])]
  <2>1. olds = [i \in 1 .. Len(samples) |-> Key(samples[i])]
    BY <1>4
  <2>2. \A i \in 1 .. Len(samples) : Key(samples[i]) \in BOOLEAN
    <3>1. \A n \in DOMAIN log : log[n].key \in BOOLEAN
      <4>1. log \in Seq(Entries)
        BY DEF IInv, Types
      <4>2. \A n \in DOMAIN log : log[n] \in Entries
        BY <4>1, ElementOfSeq, LenProperties
      <4> QED BY <4>2 DEF Entries
    <3>2. DOMAIN log = 1 .. Len(log)
      BY EntriesTyped DEF IInv
    <3> QED BY <1>4, <3>1, <3>2 DEF Key
  <2>3. olds \in Seq(BOOLEAN) /\ Len(olds) = Len(samples)
    <3>1. olds \in Seq(BOOLEAN)
      BY <1>2, <2>1, <2>2, IsASeq
    <3> QED BY <1>2, <2>1, <3>1, LenProperties
  <2>4. \A i \in 1 .. Len(samples) : olds[i] = log[samples[i]].key
    BY <1>4 DEF Key
  <2> HIDE DEF olds
  <2>5. keys = Append(olds, isKey)
    BY DEF olds
  <2> QED BY <2>3, <2>4, <2>5, AppendProperties
<1>6. /\ \A n \in 1 .. Len(log) : log'[n] = log[n]
      /\ Len(log') = Len(log) + 1 /\ log'[Len(log) + 1] = NewEntry(isKey)
  BY Delivered DEF IInv
<1>7. /\ \A j \in 1 .. Len(samples) + 1 :
            /\ keys[j] = log'[frames[j]].key /\ ntps[j] = log'[frames[j]].ntp
            /\ frames[j] = Older + j /\ frames[j] \in 1 .. Len(log')
      /\ Older \in Int
  <2>1. NewEntry(isKey).ntp = NtpNow /\ NewEntry(isKey).key = isKey
    BY DEF NewEntry, NtpNow
  <2>2. \A j \in 1 .. Len(samples) : times[j] = log[samples[j]].ntp
    BY <1>1, <1>4 DEF Stamps
  <2>3. \A j \in 1 .. Len(samples) : samples[j] = Older + j
    BY <1>4 DEF IInv, Ordered
  <2>4. Older \in Int /\ Len(log) + 1 = Older + (Len(samples) + 1)
    BY <1>2, <1>4 DEF Older
  <2> HIDE DEF keys, ntps, frames
  <2> SUFFICES ASSUME NEW j \in 1 .. Len(samples) + 1
               PROVE  /\ keys[j] = log'[frames[j]].key /\ ntps[j] = log'[frames[j]].ntp
                      /\ frames[j] = Older + j /\ frames[j] \in 1 .. Len(log')
    BY <2>4
  <2>5. CASE j = Len(samples) + 1
    <3>1. frames[j] = Len(log) + 1 /\ keys[j] = isKey /\ ntps[j] = NtpNow
      BY <1>3, <1>4, <1>5, <2>5
    <3>2. frames[j] = Older + j /\ frames[j] \in 1 .. Len(log')
      BY <1>4, <1>6, <2>4, <2>5, <3>1
    <3> QED BY <1>6, <2>1, <3>1, <3>2
  <2>6. CASE j \in 1 .. Len(samples)
    <3>1. /\ frames[j] = samples[j] /\ samples[j] \in 1 .. Len(log)
          /\ keys[j] = log[samples[j]].key /\ ntps[j] = log[samples[j]].ntp
      BY <1>3, <1>4, <1>5, <2>2, <2>6
    <3>2. frames[j] = Older + j
      BY <2>3, <2>6, <3>1
    <3>3. samples[j] \in 1 .. Len(log')
      BY <1>4, <1>6, <3>1
    <3> QED BY <1>6, <3>1, <3>2, <3>3
  <2> QED BY <1>2, <2>5, <2>6
<1>8. /\ \A j \in DOMAIN ntps : ats[j] \in Int /\ Stamped(ntps[j], ats[j])
      /\ \A i, j \in DOMAIN ntps : i < j => ats[i] < ats[j]
      /\ \A j \in 1 .. Len(samples) + 1 : ats[j] = log'[frames[j]].at
      /\ ats[Len(samples) + 1] = log'[Len(log')].at
  <2>1. /\ DOMAIN log' = 1 .. Len(log')
        /\ \A n \in DOMAIN log' : log'[n].at \in Int
    <3>1. log' \in Seq(Entries)
      BY DEF IInv, Types
    <3>2. DOMAIN log' = 1 .. Len(log') /\ \A n \in DOMAIN log' : log'[n] \in Entries
      BY <3>1, LenProperties, ElementOfSeq
    <3> QED BY <3>2 DEF Entries
  <2>2. \A n \in DOMAIN log' : log'[n].ntp = log'[n].at \/ log'[n].ntp = log'[n].at + skew
    BY <1>1 DEF Stamps
  <2>3. \A m, n \in DOMAIN log' : m < n => log'[m].at < log'[n].at
    BY DEF Stamps
  <2> HIDE DEF ntps, frames, keys
  <2>4. \A j \in 1 .. Len(samples) + 1 : ats[j] = log'[frames[j]].at
    OBVIOUS
  <2> HIDE DEF ats
  <2>5. ASSUME NEW i \in DOMAIN ntps, NEW j \in DOMAIN ntps, i < j PROVE ats[i] < ats[j]
    <3>1. i \in 1 .. Len(samples) + 1 /\ j \in 1 .. Len(samples) + 1
      BY <1>3
    <3>2. frames[i] = Older + i /\ frames[j] = Older + j /\ i \in Int /\ j \in Int
      BY <1>2, <1>7, <3>1
    <3>3. frames[i] < frames[j]
      BY <1>7, <2>5, <3>2
    <3>4. frames[i] \in DOMAIN log' /\ frames[j] \in DOMAIN log'
      BY <1>7, <2>1, <3>1
    <3> QED BY <2>3, <2>4, <3>1, <3>3, <3>4
  <2>6. Len(samples) + 1 \in 1 .. Len(samples) + 1 /\ frames[Len(samples) + 1] = Len(log')
    BY <1>2, <1>4, <1>6
  <2>7. ASSUME NEW j \in DOMAIN ntps PROVE ats[j] \in Int /\ Stamped(ntps[j], ats[j])
    <3>1. j \in 1 .. Len(samples) + 1
      BY <1>3
    <3>2. frames[j] \in DOMAIN log' /\ ntps[j] = log'[frames[j]].ntp
      BY <1>7, <2>1, <3>1
    <3>3. ats[j] = log'[frames[j]].at
      BY <2>4, <3>1
    <3> QED BY <2>1, <2>2, <3>2, <3>3 DEF Stamped
  <2>8. ats[Len(samples) + 1] = log'[Len(log')].at
    BY <2>4, <2>6
  <2> QED BY <2>4, <2>5, <2>7, <2>8
<1>9. /\ head > 1 => \A j \in 1 .. head : ntps[j] <= ntps[Len(ntps)] - PreRoll
      /\ \A j \in DOMAIN ntps :
            j > head /\ keys[j] => ats[j] > log'[Len(log')].at - PreRoll - Apart
  <2>1. ats[Len(ntps)] = log'[Len(log')].at
    BY <1>3, <1>8
  <2> HIDE DEF ntps, keys, ats
  <2>2. head > 1 => \A j \in 1 .. head : ntps[j] <= ntps[Len(ntps)] - PreRoll
    BY <1>3, RingHeadIsPosition
  <2>3. \A j \in DOMAIN ntps : j > head /\ keys[j] => ats[j] > ats[Len(ntps)] - PreRoll - Apart
    BY <1>1, <1>3, <1>8, RingHeadIsNewest
  <2> QED BY <2>1, <2>2, <2>3
<1> HIDE DEF keys, ntps, frames, head, ats
<1>10. samples' # <<>> /\ samples'[1] = frames[head]
  <2>1. Len(samples') # 0 /\ 1 \in 1 .. Len(samples') /\ head + 1 - 1 = head
    BY <1>2
  <2>2. samples'[1] = frames[head]
    BY <1>2, <2>1
  <2>3. samples' # <<>>
    BY <2>1, EmptySeq
  <2> QED BY <2>2, <2>3
<1>11. RingIsTrimmed'
  <2> SUFFICES ASSUME NEW j \in 2 .. Len(samples'), log'[samples'[j]].key
               PROVE  log'[samples'[j]].at > log'[Len(log')].at - PreRoll - Apart
    BY <1>1 DEF RingIsTrimmed, Key, Apart
  <2>1. /\ head + j - 1 \in 1 .. Len(samples) + 1 /\ head + j - 1 > head
        /\ j \in 1 .. Len(samples')
    BY <1>2
  <2>2. samples'[j] = frames[head + j - 1]
    BY <1>2, <2>1
  <2>3. keys[head + j - 1] /\ ats[head + j - 1] = log'[samples'[j]].at
    BY <1>7, <1>8, <2>1, <2>2
  <2> QED BY <1>3, <1>9, <2>1, <2>3
<1>12. RingReachesBack'
  <2> SUFFICES ASSUME samples'[1] > 1, ~InCuts(samples[1] - 1)', ~log'[samples'[1] - 1].recording
               PROVE  log'[samples'[1] - 1].at <= log'[Len(log')].at - PreRoll + Apart
    BY <1>1 DEF RingReachesBack, Apart
  <2>1. \A j \in 1 .. Len(samples) : samples[j] = Older + j /\ Older \in Int
    BY <1>4, WhoIsWhere DEF IInv, Ordered, Placed
  <2>2. CASE head > 1
    <3>1. head - 1 \in 1 .. Len(samples)
      BY <1>2, <2>2
    <3>2. frames[head] = frames[head - 1] + 1
      <4>0. head \in 1 .. Len(samples) \/ head = Len(samples) + 1
        <5>1. head \in 1 .. Len(samples) + 1 /\ Len(samples) \in Nat
          BY <1>2
        <5> QED BY <5>1
      <4>1. CASE head \in 1 .. Len(samples)
        <5>1. frames[head] = Older + head /\ frames[head - 1] = Older + (head - 1) /\ Older \in Int
          BY <1>4, <2>1, <3>1, <4>1
        <5> QED BY <4>1, <5>1
      <4>2. CASE head = Len(samples) + 1
        <5>1. samples[Len(samples)] = Len(log) /\ Len(samples) \in 1 .. Len(samples)
          BY <1>2, <3>1, <4>2, WhoIsWhere, EmptySeq DEF Placed
        <5>2. head - 1 = Len(samples) /\ Len(log) \in Nat
          BY <1>2, <1>4, <4>2
        <5>3. frames[head] = Len(log) + 1 /\ frames[head - 1] = Len(log)
          BY <1>4, <4>2, <5>1, <5>2
        <5> QED BY <5>2, <5>3
      <4> QED BY <4>0, <4>1, <4>2
    <3>3. samples'[1] - 1 = frames[head - 1]
      BY <1>4, <1>10, <3>1, <3>2
    <3>4. /\ log'[samples'[1] - 1].at = ats[head - 1] /\ head - 1 \in DOMAIN ntps
          /\ Len(ntps) \in DOMAIN ntps /\ ats[Len(ntps)] = log'[Len(log')].at
      <4>1. head - 1 \in 1 .. Len(samples) + 1 /\ Len(samples) + 1 \in 1 .. Len(samples) + 1
        BY <1>2, <3>1
      <4>2. ats[head - 1] = log'[frames[head - 1]].at
        BY <1>8, <4>1
      <4> QED BY <1>3, <1>8, <3>3, <4>1, <4>2
    <3>5. ntps[head - 1] <= ntps[Len(ntps)] - PreRoll
      <4>1. head - 1 \in 1 .. head
        BY <1>2, <2>2
      <4> QED BY <1>9, <2>2, <4>1
    <3>6. /\ Stamped(ntps[head - 1], ats[head - 1]) /\ Stamped(ntps[Len(ntps)], ats[Len(ntps)])
          /\ ats[head - 1] \in Int /\ ats[Len(ntps)] \in Int
          /\ ntps[head - 1] \in Int /\ ntps[Len(ntps)] \in Int
      BY <1>3, <1>8, <3>4, ElementOfSeq
    <3>7. ats[head - 1] <= ats[Len(ntps)] - PreRoll + Apart
      BY <1>1, <3>5, <3>6, StampsCompared
    <3> QED BY <3>4, <3>7
  <2>3. CASE head = 1 /\ samples # <<>>
    <3>1. 1 \in 1 .. Len(samples) /\ samples'[1] = samples[1] /\ samples[1] - 1 = Older
      <4>1. Len(samples) \in Nat /\ Len(samples) # 0
        BY <2>3, EmptySeq, SamplesAreNaturals DEF IInv
      <4>2. 1 \in 1 .. Len(samples)
        BY <4>1
      <4>3. samples[1] = Older + 1 /\ Older \in Int
        BY <2>1, <4>2
      <4>4. samples'[1] = samples[1]
        BY <1>4, <1>10, <2>3, <4>2
      <4> QED BY <4>2, <4>3, <4>4
    <3>2. ~InCuts(samples[1] - 1)
      BY <1>1, <3>1 DEF InCuts
    <3>3. samples[1] - 1 \in 1 .. Len(log) /\ samples[1] > 1
      BY <1>4, <3>1
    <3>4. log[samples[1] - 1].at <= log[Len(log)].at - PreRoll + Apart
      <4>1. times # <<>>
        BY <1>1, <2>3, EmptySeq, SamplesAreNaturals DEF IInv, Types, TypeOK
      <4> QED BY <1>1, <1>6, <3>1, <3>2, <3>3, <4>1 DEF RingInv, RingCovers
    <3>5. log'[Len(log)].at < log'[Len(log')].at /\ Len(log) \in 1 .. Len(log)
      <4>1. log' \in Seq(Entries)
        BY DEF IInv, Types
      <4>2. DOMAIN log' = 1 .. Len(log')
        BY <4>1, LenProperties
      <4>3. /\ Len(log) \in DOMAIN log' /\ Len(log') \in DOMAIN log' /\ Len(log) < Len(log')
            /\ Len(log) \in 1 .. Len(log)
        BY <1>4, <1>6, <3>3, <4>2
      <4> QED BY <4>3 DEF Stamps
    <3>6. /\ log[samples[1] - 1].at \in Int /\ log[Len(log)].at \in Int
          /\ log'[Len(log')].at \in Int
      <4>1. DOMAIN log = 1 .. Len(log) /\ \A n \in DOMAIN log : log[n].at \in Nat
        BY EntriesTyped DEF IInv
      <4>2. NewEntry(isKey).at \in Int
        BY RecorderAssumption DEF NewEntry, IInv, Types, TypeOK
      <4> QED BY <1>6, <3>3, <3>5, <4>1, <4>2
    <3>7. /\ log'[samples'[1] - 1].at = log[samples[1] - 1].at
          /\ log'[Len(log)].at = log[Len(log)].at
      BY <1>6, <3>1, <3>3, <3>5
    <3>8. Apart \in Int
      BY <1>1 DEF Apart
    <3> QED BY <1>1, <3>4, <3>5, <3>6, <3>7, <3>8
  <2>4. CASE samples = <<>>
    <3>1. samples'[1] = Len(log) + 1 /\ Len(log) > 0
      <4>1. Len(samples) = 0 /\ head = 1
        BY <1>2, <2>4, EmptySeq
      <4>2. samples'[1] = Len(log) + 1
        BY <1>4, <1>10, <4>1
      <4> QED BY <1>4, <4>2
    <3>2. ~InCuts(Len(log)) /\ ~log[Len(log)].recording
      <4>1. samples'[1] - 1 = Len(log) /\ Len(log) \in 1 .. Len(log)
        BY <1>4, <3>1
      <4> QED BY <1>1, <1>6, <4>1 DEF InCuts
    <3>3. log # <<>>
      BY <3>1, EmptySeq
    <3> QED BY <1>1, <2>4, <3>2, <3>3 DEF RingInv, RingStarts
  <2> QED BY <1>2, <2>2, <2>3, <2>4
<1> QED BY <1>10, <1>11, <1>12

LEMMA RingKept == IInv /\ IInv' /\ Stamps /\ RingInv /\ [Next]_vars => RingInv'
<1> SUFFICES ASSUME IInv, IInv', Stamps, RingInv, [Next]_vars PROVE RingInv'
  OBVIOUS
<1>a. RingIsLatest'
  BY LatestFromPlaced, PTL
<1>c. ~open' => (times' = <<>> <=> samples' = <<>>)
  <2>1. ~open' => Len(times') = Len(samples') /\ times' \in Seq(Int) /\ samples' \in Seq(1 .. Len(log'))
    BY DEF IInv, Types, TypeOK
  <2> QED BY <2>1, EmptySeq
<1>b. Stamps'
  BY StampsKept
<1>0. ASSUME UNCHANGED <<mode, skew, log, open, samples, times, cuts>> PROVE RingInv'
  BY <1>0 DEF RingInv, RingStarts, RingCovers, InCuts, Key, Apart
<1>1. CASE UNCHANGED vars
  BY <1>0, <1>1 DEF vars, streamVars, recVars, flushVars
<1>2. ASSUME NEW isKey \in BOOLEAN, WriteVideo(isKey) PROVE RingInv'
  <2>0. /\ Len(log) \in Nat /\ Len(log') = Len(log) + 1 /\ UNCHANGED mode
        /\ log'[Len(log) + 1].recording = Recording
    <3>1. /\ Len(log) \in Nat /\ Len(log') = Len(log) + 1 /\ UNCHANGED mode
          /\ log'[Len(log) + 1] = NewEntry(isKey)
      BY <1>2, Delivered DEF IInv
    <3> QED BY <3>1 DEF NewEntry
  <2>1. CASE WriteRing(Len(log) + 1, isKey, NtpNow)
    <3>1. samples' # <<>> /\ RingReachesBack' /\ RingIsTrimmed'
      BY <1>2, <1>b, <2>1, RingMoved
    <3> QED BY <1>a, <3>1
        DEF RingInv, RingStarts, RingCovers, RingIsLatest, RingReachesBack, RingIsTrimmed
  <2>2. CASE open' \/ mode # "motion"
    <3>1. RingStarts'
      <4>1. open' => samples' # <<>>
        BY DEF IInv, Types, TypeOK
      <4> QED BY <2>0, <2>2, <4>1 DEF RingStarts
    <3> QED BY <2>0, <2>2, <3>1 DEF RingInv, RingCovers
  <2>3. CASE WriteWaitForKey(isKey)
    <3>1. Recording /\ samples' = <<>> /\ ~open'
      BY <2>3 DEF WriteWaitForKey, recVars, IInv, Owned
    <3>2. RingStarts'
      BY <2>0, <3>1 DEF RingStarts
    <3>3. times' = <<>>
      BY <1>c, <3>1
    <3> QED BY <3>2, <3>3 DEF RingInv, RingCovers
  <2>4. CASE WriteOff
    BY <2>2, <2>4 DEF WriteOff
  <2>5. CASE WriteFirst(Len(log) + 1, isKey, NtpNow)
    BY <2>2, <2>5 DEF WriteFirst
  <2>6. CASE WriteNext(Len(log) + 1, isKey, NtpNow)
    BY <2>2, <2>6 DEF WriteNext
  <2>7. CASE WriteCut(Len(log) + 1, isKey, NtpNow)
    BY <2>2, <2>7 DEF WriteCut
  <2> QED BY <1>2, <2>1, <2>3, <2>4, <2>5, <2>6, <2>7, Ways
<1>3. CASE MotionOn
  <2>1. CASE open'
    <3>1. samples' # <<>>
      BY <2>1 DEF IInv, Types, TypeOK
    <3> QED BY <2>1, <3>1 DEF RingInv, RingStarts, RingCovers
  <2>2. CASE ~open'
    <3>1. open' = open
      BY <1>3, <2>2 DEF MotionOn, IInv, Types, TypeOK
    <3> QED BY <1>0, <1>3, <3>1 DEF MotionOn, streamVars, flushVars
  <2> QED BY <2>1, <2>2
(* An open segment is given up: the ring starts anew.                      *)
<1>4. ASSUME NEW by \in {"motion", "close"}, open, Cut(by), samples' = <<>>, times' = <<>>,
             UNCHANGED <<mode, log>>
      PROVE  RingInv'
  <2>1. Sampled(Len(log))
    BY <1>4, WhoIsWhere DEF Placed, IInv, Types, TypeOK
  <2>2. \A n : Sampled(n) => InCuts(n)'
    BY <1>4, CutRemembered DEF IInv, Sampled
  <2>3. InCuts(Len(log))'
    BY <1>4, <2>1, <2>2
  <2> QED BY <1>4, <2>3 DEF RingInv, RingStarts, RingCovers
<1>5. CASE MotionOff
  <2>1. CASE open
    <3>1. Cut("motion") /\ samples' = <<>> /\ times' = <<>> /\ UNCHANGED <<mode, log>>
      BY <1>5, <2>1 DEF MotionOff, streamVars
    <3> QED BY <1>4, <2>1, <3>1
  <2>2. CASE ~open
    BY <1>0, <1>5, <2>2 DEF MotionOff, streamVars
  <2> QED BY <2>1, <2>2
<1>6. CASE Close
  <2>1. CASE open
    <3>1. Cut("close") /\ samples' = <<>> /\ times' = <<>> /\ UNCHANGED <<mode, log>>
      BY <1>6, <2>1 DEF Close
    <3> QED BY <1>4, <2>1, <3>1
  <2>2. CASE ~open
    BY <1>0, <1>6, <2>2 DEF Close
  <2> QED BY <2>1, <2>2
<1>7. ASSUME NEW i \in flushing, FlushDone(i) PROVE RingInv'
  BY <1>0, <1>7 DEF FlushDone, streamVars, recVars
<1>8. CASE Idle
  BY <1>0, <1>8 DEF Idle, recVars, flushVars
<1>9. CASE SenderReport
  BY <1>0, <1>9 DEF SenderReport, recVars, flushVars
<1> QED BY <1>1, <1>2, <1>3, <1>5, <1>6, <1>7, <1>8, <1>9 DEF Next

(* The pre-roll ring is the latest run of access units, reaches back to    *)
(* PreRoll before the last one, unless they were recorded, and is no       *)
(* longer than it needs to be: trimRingLocked drops neither too much nor   *)
(* too little, give or take what the camera's clock is off.                *)
THEOREM RingIsKept == Spec => []RingCovers
<1>1. Init => RingInv
  BY DEF Init, RingInv, RingStarts, RingCovers
<1>2. IInv /\ IInv' /\ Stamps /\ RingInv /\ [Next]_vars => RingInv'
  BY RingKept
<1>3. RingInv => RingCovers
  BY DEF RingInv
<1> QED BY <1>1, <1>2, <1>3, Invariance, StampsTold, PTL DEF Spec

===============================================================================
