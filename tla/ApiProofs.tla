------------------------------- MODULE ApiProofs -------------------------------
(***************************************************************************)
(* Proofs about the rows that API handlers read and write: pictures,       *)
(* settings, cameras, events and schedules, and about what playback shows  *)
(* of the segment index. The components have no state in common; each      *)
(* section proves the invariant of one of them, for any number of          *)
(* concurrent requests.                                                    *)
(***************************************************************************)
EXTENDS CameraRow, Settings, EventFeed, Schedule, Snapshot, Playback,
        FiniteSetTheorems, SequenceTheorems, NaturalsInduction,
        WellFoundedInduction, TLAPS

----------------------------------------------------------------------------
(* How many elements of S come before one in a strict total order R on S:  *)
(* in a finite set each place is taken by exactly one element.             *)
Before(S, R, x) == {y \in S : <<y, x>> \in R}
StrictOrder(S, R) ==
    /\ \A x \in S : <<x, x>> \notin R
    /\ \A x, y \in S : x # y => <<x, y>> \in R \/ <<y, x>> \in R
    /\ \A x, y, z \in S : <<x, y>> \in R /\ <<y, z>> \in R => <<x, z>> \in R

LEMMA EachPlace ==
  ASSUME NEW S, IsFiniteSet(S), NEW R, StrictOrder(S, R)
  PROVE  /\ \A x \in S : Cardinality(Before(S, R, x)) \in 0..Cardinality(S) - 1
         /\ \A x, y \in S : <<x, y>> \in R
                <=> Cardinality(Before(S, R, x)) < Cardinality(Before(S, R, y))
         /\ \A i \in 0..Cardinality(S) - 1 :
                \E x \in S : Cardinality(Before(S, R, x)) = i
<1> DEFINE n == Cardinality(S)
           place(x) == Cardinality(Before(S, R, x))
<1>1. n \in Nat
  BY FS_CardinalityType
<1>2. ASSUME NEW x \in S
      PROVE  IsFiniteSet(Before(S, R, x)) /\ place(x) \in 0..n - 1
  <2>1. Before(S, R, x) \subseteq S /\ x \notin Before(S, R, x)
    BY DEF Before, StrictOrder
  <2>2. /\ IsFiniteSet(Before(S, R, x)) /\ place(x) <= n
        /\ place(x) = n => Before(S, R, x) = S
    BY <2>1, FS_Subset
  <2>3. place(x) \in Nat
    BY <2>2, FS_CardinalityType
  <2> QED BY <1>1, <2>1, <2>2, <2>3
<1>3. ASSUME NEW x \in S, NEW y \in S, <<x, y>> \in R PROVE place(x) < place(y)
  <2>1. /\ Before(S, R, x) \subseteq Before(S, R, y)
        /\ x \in Before(S, R, y) /\ x \notin Before(S, R, x)
    BY <1>3 DEF Before, StrictOrder
  <2>2. /\ place(x) <= place(y)
        /\ place(x) = place(y) => Before(S, R, x) = Before(S, R, y)
    BY <1>2, <2>1, FS_Subset
  <2>3. place(x) \in Nat /\ place(y) \in Nat
    BY <1>1, <1>2
  <2> QED BY <2>1, <2>2, <2>3
<1>4. ASSUME NEW x \in S, NEW y \in S, place(x) < place(y) PROVE <<x, y>> \in R
  <2>1. place(x) \in Nat /\ place(y) \in Nat
    BY <1>1, <1>2
  <2>2. x # y
    BY <1>4, <2>1
  <2>3. <<y, x>> \notin R
    BY <1>3, <1>4, <2>1
  <2> QED BY <2>2, <2>3 DEF StrictOrder
<1>5. ASSUME NEW i \in 0..n - 1, \A x \in S : place(x) # i PROVE FALSE
  <2> DEFINE T == (0..n - 1) \ {i}
             f == [x \in S |-> place(x)]
  <2>1. IsFiniteSet(0..n - 1) /\ Cardinality(0..n - 1) = n
    BY <1>1, FS_Interval
  <2>2. IsFiniteSet(T) /\ Cardinality(T) = n - 1
    BY <2>1, FS_RemoveElement
  <2>3. f \in [S -> T]
    BY <1>2, <1>5
  <2> HIDE DEF T, f
  <2>4. PICK x \in S, y \in S : x # y /\ f[x] = f[y]
    BY <1>1, <2>2, <2>3, FS_PigeonHole
  <2>5. place(x) = place(y) /\ place(x) \in Nat /\ place(y) \in Nat
    BY <1>1, <1>2, <2>4 DEF f
  <2>6. <<x, y>> \notin R /\ <<y, x>> \notin R
    BY <1>3, <2>5
  <2> QED BY <2>4, <2>6 DEF StrictOrder
<1> QED BY <1>2, <1>3, <1>4, <1>5

----------------------------------------------------------------------------
(* Snapshot. The leader of a stream is the one watcher that has a slot or  *)
(* waits for it, and whoever waits for a decode waits while there is a     *)
(* leader; the frame it decodes is no older than the picture shown.        *)

Busy(k) == watcher[k].step \in {"slot", "decode"}

Places == {"idle", "look", "slot", "decode", "wait", "woken"}
WatcherStates == [step : Places, kind : Kinds, try : {1, 2}, key : 0 .. MaxKeys]
Pictures == [key : 0 .. MaxKeys, size : {"none", "full", "scaled"}]

SnapTypes ==
    /\ annexb \in [Streams -> 0 .. MaxKeys] /\ shown \in [Streams -> Pictures]
    /\ fresh \subseteq Streams /\ leader \in [Streams -> Watchers \cup {NoOne}]
    /\ watcher \in [Watchers -> WatcherStates]

StreamInOrder(s) ==
    /\ shown[s].key <= annexb[s]
    /\ s \in fresh => shown[s] # NoPicture
    /\ leader[s] # NoOne => Busy(leader[s]) /\ Stream(leader[s]) = s

WatcherInOrder(k) ==
    /\ Busy(k) => /\ leader[Stream(k)] = k
                  /\ shown[Stream(k)].key <= watcher[k].key /\ watcher[k].key <= annexb[Stream(k)]
    /\ watcher[k].step = "wait" => leader[Stream(k)] # NoOne

SnapInv ==
    /\ SnapTypes
    /\ Cardinality(Decoding) <= DecodeSlots
    /\ \A s \in Streams : StreamInOrder(s)
    /\ \A k \in Watchers : WatcherInOrder(k)

LEMMA StreamOf ==
  ASSUME SnapTypes, NEW k \in Watchers
  PROVE  Stream(k) \in Streams
<1>1. watcher[k].kind \in {"still", "tile"} /\ watcher[k].try \in {1, 2}
  BY DEF SnapTypes, WatcherStates, Kinds
<1>2. Order["still"] = <<"main", "sub">> /\ Order["tile"] = <<"sub", "main">>
  BY DEF Order
<1>3. \A i \in {1, 2} : <<"main", "sub">>[i] \in Streams /\ <<"sub", "main">>[i] \in Streams
  BY DEF Streams
<1> QED BY <1>1, <1>2, <1>3 DEF Stream

LEMMA SizeOf ==
  ASSUME SnapTypes, NEW k \in Watchers
  PROVE  Size[watcher[k].kind] \in {"full", "scaled"}
<1>1. watcher[k].kind \in {"still", "tile"}
  BY DEF SnapTypes, WatcherStates, Kinds
<1>2. Size["still"] = "full" /\ Size["tile"] = "scaled"
  BY DEF Size
<1> QED BY <1>1, <1>2

LEMMA SnapInitially == SnapInit => SnapInv
<1> SUFFICES ASSUME SnapInit PROVE SnapInv
  OBVIOUS
<1>1. Idle \in WatcherStates /\ Idle.step = "idle"
  BY SnapshotAssumption DEF Idle, WatcherStates, Places, Kinds
<1>2. SnapTypes
  BY <1>1, SnapshotAssumption DEF SnapInit, SnapTypes, Pictures, NoPicture
<1>3. \A k \in Watchers : watcher[k].step = "idle"
  BY <1>1 DEF SnapInit
<1>4. Decoding = {}
  BY <1>3 DEF Decoding
<1>5. Cardinality(Decoding) <= DecodeSlots
  BY <1>4, FS_EmptySet, SnapshotAssumption
<1>6. \A s \in Streams : StreamInOrder(s)
  BY DEF SnapInit, StreamInOrder, NoPicture
<1>7. \A k \in Watchers : WatcherInOrder(k)
  BY <1>3 DEF WatcherInOrder, Busy
<1> QED BY <1>2, <1>5, <1>6, <1>7 DEF SnapInv

LEMMA DecodingFinite ==
  /\ IsFiniteSet(Decoding) /\ Cardinality(Decoding) \in Nat
  /\ DecodeSlots \in Nat /\ MaxKeys \in Nat
<1>1. Decoding \subseteq Watchers
  BY DEF Decoding
<1> QED BY <1>1, SnapshotAssumption, FS_Subset, FS_CardinalityType

(* A watcher that leads no decode goes somewhere else than to lead one.    *)
LEMMA WatcherMoves ==
  ASSUME SnapInv, NEW k \in Watchers, ~Busy(k),
         NEW x \in WatcherStates, x.step \notin {"slot", "decode"},
         watcher' = [watcher EXCEPT ![k] = x],
         x.step = "wait" => /\ x.kind = watcher[k].kind /\ x.try = watcher[k].try
                            /\ leader[Stream(k)] # NoOne,
         UNCHANGED <<annexb, shown, fresh, leader>>
  PROVE  SnapInv'
<1>1. SnapTypes /\ SnapTypes'
  BY DEF SnapInv, SnapTypes
<1>2. /\ watcher'[k] = x
      /\ \A w \in Watchers \ {k} : watcher'[w] = watcher[w]
  BY <1>1 DEF SnapTypes
<1>3. Decoding' = Decoding
  BY <1>2 DEF Decoding, Busy
<1>4. \A w \in Watchers \ {k} : Stream(w)' = Stream(w) /\ (Busy(w)' <=> Busy(w))
  BY <1>2 DEF Stream, Busy
<1>5. ASSUME NEW w \in Watchers PROVE WatcherInOrder(w)'
  <2>1. CASE w = k
    <3>1. ~Busy(k)'
      BY <1>2 DEF Busy
    <3>2. x.step = "wait" => Stream(k)' = Stream(k)
      BY <1>2 DEF Stream
    <3> QED BY <1>2, <2>1, <3>1, <3>2 DEF WatcherInOrder
  <2>2. CASE w # k
    BY <1>2, <1>4, <2>2 DEF SnapInv, WatcherInOrder
  <2> QED BY <2>1, <2>2
<1>6. ASSUME NEW s \in Streams PROVE StreamInOrder(s)'
  <2>1. leader[s] # NoOne => leader[s] \in Watchers \ {k}
    BY <1>1 DEF SnapInv, StreamInOrder, SnapTypes
  <2> QED BY <1>4, <2>1 DEF SnapInv, StreamInOrder
<1> QED BY <1>1, <1>3, <1>5, <1>6 DEF SnapInv

(* Where a watcher goes that has its answer, or tries the second stream.   *)
LEMMA AnswerKeeps ==
  ASSUME SnapInv, NEW k \in Watchers, ~Busy(k),
         \/ watcher' = [watcher EXCEPT ![k] = Idle]
         \/ watcher' = [watcher EXCEPT ![k].step = "look", ![k].try = 2],
         UNCHANGED <<annexb, shown, fresh, leader>>
  PROVE  SnapInv'
<1>1. watcher[k] \in WatcherStates
  BY DEF SnapInv, SnapTypes
<1>2. Idle \in WatcherStates /\ Idle.step = "idle"
  BY SnapshotAssumption DEF Idle, WatcherStates, Places, Kinds
<1>3. CASE watcher' = [watcher EXCEPT ![k] = Idle]
  BY <1>2, <1>3, WatcherMoves
<1>4. CASE watcher' = [watcher EXCEPT ![k].step = "look", ![k].try = 2]
  <2> DEFINE x == [watcher[k] EXCEPT !.step = "look", !.try = 2]
  <2>1. x \in WatcherStates /\ x.step = "look"
    BY <1>1 DEF WatcherStates, Places
  <2>2. watcher' = [watcher EXCEPT ![k] = x]
    BY <1>4 DEF SnapInv, SnapTypes
  <2> HIDE DEF x
  <2> QED BY <2>1, <2>2, WatcherMoves
<1> QED BY <1>3, <1>4


LEMMA LookKeeps ==
  ASSUME SnapInv, NEW k \in Watchers, Look(k)
  PROVE  SnapInv'
<1> DEFINE s == Stream(k)
<1>1. /\ watcher[k].step = "look" /\ ~Busy(k) /\ s \in Streams
      /\ UNCHANGED <<annexb, shown, fresh, calls>>
      /\ watcher[k] \in WatcherStates
  BY StreamOf DEF Look, Busy, SnapInv, SnapTypes
<1>2. \/ (watcher' = [watcher EXCEPT ![k] = Idle]) /\ UNCHANGED leader
      \/ (watcher' = [watcher EXCEPT ![k].step = "look", ![k].try = 2]) /\ UNCHANGED leader
      \/ leader[s] # NoOne /\ (watcher' = [watcher EXCEPT ![k].step = "wait"]) /\ UNCHANGED leader
      \/ /\ leader[s] = NoOne /\ annexb[s] # 0
         /\ leader' = [leader EXCEPT ![s] = k]
         /\ watcher' = [watcher EXCEPT ![k].step = "slot", ![k].key = annexb[s]]
  BY DEF Look, Return, NoSnapshot, Fails
<1> HIDE DEF s
<1>3. CASE (watcher' = [watcher EXCEPT ![k] = Idle]) /\ UNCHANGED leader
  BY <1>1, <1>3, AnswerKeeps
<1>4. CASE (watcher' = [watcher EXCEPT ![k].step = "look", ![k].try = 2]) /\ UNCHANGED leader
  BY <1>1, <1>4, AnswerKeeps
<1>5. CASE leader[s] # NoOne /\ (watcher' = [watcher EXCEPT ![k].step = "wait"]) /\ UNCHANGED leader
  <2> DEFINE x == [watcher[k] EXCEPT !.step = "wait"]
  <2>1. x \in WatcherStates /\ x.step = "wait" /\ x.kind = watcher[k].kind /\ x.try = watcher[k].try
    BY <1>1 DEF WatcherStates, Places
  <2>2. watcher' = [watcher EXCEPT ![k] = x]
    BY <1>5
  <2> HIDE DEF x
  <2> QED BY <1>1, <1>5, <2>1, <2>2, WatcherMoves DEF s
<1>6. CASE /\ leader[s] = NoOne /\ annexb[s] # 0
           /\ leader' = [leader EXCEPT ![s] = k]
           /\ watcher' = [watcher EXCEPT ![k].step = "slot", ![k].key = annexb[s]]
  <2> DEFINE x == [watcher[k] EXCEPT !.step = "slot", !.key = annexb[s]]
  <2>0. annexb[s] \in 0 .. MaxKeys /\ shown[s].key <= annexb[s] /\ annexb[s] <= annexb[s]
    BY <1>1, DecodingFinite DEF SnapInv, SnapTypes, StreamInOrder
  <2>1. /\ x \in WatcherStates /\ x.step = "slot" /\ x.key = annexb[s]
        /\ x.kind = watcher[k].kind /\ x.try = watcher[k].try
    BY <1>1, <2>0 DEF WatcherStates, Places
  <2>2. watcher' = [watcher EXCEPT ![k] = x]
    BY <1>6
  <2> HIDE DEF x
  <2>3. watcher'[k] = x /\ \A w \in Watchers \ {k} : watcher'[w] = watcher[w]
    BY <2>2 DEF SnapInv, SnapTypes
  <2>4. leader'[s] = k /\ \A t \in Streams \ {s} : leader'[t] = leader[t]
    BY <1>1, <1>6 DEF SnapInv, SnapTypes
  <2>5. SnapTypes'
    BY <1>1, <1>6, <2>1, <2>2 DEF SnapInv, SnapTypes
  <2>6. Stream(k)' = s
    BY <2>1, <2>3 DEF Stream, s
  <2>7. \A w \in Watchers \ {k} : Stream(w)' = Stream(w) /\ (Busy(w)' <=> Busy(w))
    BY <2>3 DEF Stream, Busy
  <2>8. Decoding' = Decoding
    BY <1>1, <2>1, <2>3 DEF Decoding
  <2>9. ASSUME NEW w \in Watchers PROVE WatcherInOrder(w)'
    <3>1. CASE w = k
      BY <1>1, <2>0, <2>1, <2>3, <2>4, <2>6, <3>1 DEF WatcherInOrder
    <3>2. CASE w # k
      <4>1. leader[Stream(w)] # NoOne => Stream(w) # s
        BY <1>6
      <4>2. Stream(w) \in Streams
        BY StreamOf DEF SnapInv
      <4>3. Busy(w) \/ watcher[w].step = "wait" => leader'[Stream(w)] = leader[Stream(w)]
        <5>1. Busy(w) \/ watcher[w].step = "wait" => leader[Stream(w)] # NoOne
          BY SnapshotAssumption DEF SnapInv, WatcherInOrder
        <5> QED BY <2>4, <4>1, <4>2, <5>1
      <4> QED BY <1>1, <2>3, <2>7, <3>2, <4>3 DEF SnapInv, WatcherInOrder
    <3> QED BY <3>1, <3>2
  <2>10. ASSUME NEW t \in Streams PROVE StreamInOrder(t)'
    <3>1. CASE t = s
      <4>1. Busy(k)'
        BY <2>1, <2>3 DEF Busy
      <4> QED BY <1>1, <2>4, <2>6, <3>1, <4>1 DEF SnapInv, StreamInOrder
    <3>2. CASE t # s
      <4>1. leader[t] # NoOne => leader[t] \in Watchers \ {k}
        BY <1>1 DEF SnapInv, StreamInOrder, SnapTypes
      <4> QED BY <1>1, <2>4, <2>7, <3>2, <4>1 DEF SnapInv, StreamInOrder
    <3> QED BY <3>1, <3>2
  <2> QED BY <2>5, <2>8, <2>9, <2>10 DEF SnapInv
<1> QED BY <1>2, <1>3, <1>4, <1>5, <1>6

LEMMA TakeSlotKeeps ==
  ASSUME SnapInv, NEW k \in Watchers, TakeSlot(k)
  PROVE  SnapInv'
<1>1. /\ watcher[k].step = "slot" /\ Cardinality(Decoding) < DecodeSlots
      /\ watcher' = [watcher EXCEPT ![k].step = "decode"]
      /\ UNCHANGED <<annexb, shown, fresh, leader>>
  BY DEF TakeSlot
<1>2. /\ watcher'[k] = [watcher[k] EXCEPT !.step = "decode"]
      /\ \A w \in Watchers \ {k} : watcher'[w] = watcher[w]
  BY <1>1 DEF SnapInv, SnapTypes
<1>3. /\ watcher'[k].step = "decode" /\ watcher'[k].key = watcher[k].key
      /\ watcher'[k].kind = watcher[k].kind /\ watcher'[k].try = watcher[k].try
  BY <1>2 DEF SnapInv, SnapTypes, WatcherStates
<1>4. SnapTypes'
  BY <1>1 DEF SnapInv, SnapTypes, WatcherStates, Places
<1>5. \A w \in Watchers : Stream(w)' = Stream(w) /\ (Busy(w)' <=> Busy(w))
  BY <1>1, <1>2, <1>3 DEF Stream, Busy
<1>6. Decoding' = Decoding \cup {k} /\ k \notin Decoding
  BY <1>1, <1>2, <1>3 DEF Decoding
<1>7. Cardinality(Decoding') = Cardinality(Decoding) + 1
  BY <1>6, DecodingFinite, FS_AddElement
<1>8. Cardinality(Decoding') <= DecodeSlots
  BY <1>1, <1>7, DecodingFinite
<1>9. \A w \in Watchers : WatcherInOrder(w)'
  <2>1. \A w \in Watchers : watcher'[w].key = watcher[w].key
                            /\ (watcher'[w].step = "wait" => watcher[w].step = "wait")
    BY <1>2, <1>3
  <2> QED BY <1>1, <1>5, <2>1 DEF SnapInv, WatcherInOrder
<1>10. \A s \in Streams : StreamInOrder(s)'
  <2>1. \A s \in Streams : leader[s] # NoOne => leader[s] \in Watchers
    BY DEF SnapInv, SnapTypes
  <2> QED BY <1>1, <1>5, <2>1 DEF SnapInv, StreamInOrder
<1> QED BY <1>4, <1>8, <1>9, <1>10 DEF SnapInv

(* A decode ends, however it does: its stream has no leader, nobody waits  *)
(* for it, and the picture shown is the old one or the one decoded.        *)
LEMMA DecodeEnds ==
  ASSUME SnapInv, NEW k \in Watchers, NEW ok \in BOOLEAN, Busy(k),
         leader' = [leader EXCEPT ![Stream(k)] = NoOne],
         watcher' = Close(k, ok), annexb' = annexb,
         shown' \in [Streams -> Pictures], fresh' \subseteq Streams,
         \A t \in Streams : /\ shown'[t] = shown[t] \/ (t = Stream(k) /\ shown'[t].key = watcher[k].key)
                            /\ t \in fresh' => shown'[t] # NoPicture
  PROVE  SnapInv'
<1> DEFINE s == Stream(k)
<1>1. s \in Streams /\ leader[s] = k
  BY StreamOf DEF SnapInv, WatcherInOrder
<1>2. /\ watcher'[k] = Idle
      /\ \A w \in Watchers \ {k} :
            IF watcher[w].step = "wait" /\ Stream(w) = s
            THEN watcher'[w] = [watcher[w] EXCEPT !.step = "woken"] ELSE watcher'[w] = watcher[w]
  BY DEF Close, Woken
<1>3. leader'[s] = NoOne /\ \A t \in Streams \ {s} : leader'[t] = leader[t]
  BY <1>1 DEF SnapInv, SnapTypes
<1>4. Idle \in WatcherStates /\ Idle.step = "idle"
  BY SnapshotAssumption DEF Idle, WatcherStates, Places, Kinds
<1>5. ASSUME NEW w \in Watchers \ {k}
      PROVE  /\ watcher'[w] \in WatcherStates /\ watcher'[w].key = watcher[w].key
             /\ watcher'[w].kind = watcher[w].kind /\ watcher'[w].try = watcher[w].try
             /\ watcher'[w].step = watcher[w].step \/ watcher'[w].step = "woken"
             /\ watcher'[w].step = "wait" => watcher[w].step = "wait" /\ Stream(w) # s
             /\ watcher[w].step # "wait" => watcher'[w].step = watcher[w].step
  <2>1. watcher[w] \in WatcherStates
    BY DEF SnapInv, SnapTypes
  <2> QED BY <1>2, <2>1 DEF WatcherStates, Places
<1>6. \A w \in Watchers \ {k} : Stream(w)' = Stream(w) /\ (Busy(w)' <=> Busy(w))
  BY <1>5 DEF Stream, Busy
<1>7. watcher' \in [Watchers -> WatcherStates]
  <2>1. watcher' = [w \in Watchers |-> watcher'[w]]
    BY DEF Close
  <2>2. \A w \in Watchers : watcher'[w] \in WatcherStates
    BY <1>2, <1>4, <1>5
  <2> QED BY <2>1, <2>2
<1>8. SnapTypes'
  BY <1>1, <1>7 DEF SnapInv, SnapTypes
<1>9. Cardinality(Decoding') <= DecodeSlots
  <2>1. Decoding' \subseteq Decoding
    BY <1>2, <1>4, <1>5 DEF Decoding
  <2>2. Cardinality(Decoding') <= Cardinality(Decoding) /\ Cardinality(Decoding') \in Nat
    BY <2>1, DecodingFinite, FS_Subset, FS_CardinalityType
  <2> QED BY <2>2, DecodingFinite DEF SnapInv
<1>10. \A w \in Watchers : WatcherInOrder(w)'
  <2> SUFFICES ASSUME NEW w \in Watchers PROVE WatcherInOrder(w)'
    OBVIOUS
  <2>1. CASE w = k
    BY <1>2, <1>4, <2>1 DEF WatcherInOrder, Busy
  <2>2. CASE w # k
    <3>1. Stream(w) \in Streams /\ WatcherInOrder(w)
      BY StreamOf DEF SnapInv
    <3>2. Busy(w) => Stream(w) # s
      BY <1>1, <2>2, <3>1 DEF WatcherInOrder
    <3>3. Stream(w) # s => leader'[Stream(w)] = leader[Stream(w)] /\ shown'[Stream(w)] = shown[Stream(w)]
      BY <1>3, <3>1
    <3> HIDE DEF s
    <3> QED BY <1>5, <1>6, <2>2, <3>1, <3>2, <3>3 DEF WatcherInOrder
  <2> QED BY <2>1, <2>2
<1>11. \A t \in Streams : StreamInOrder(t)'
  <2> SUFFICES ASSUME NEW t \in Streams PROVE StreamInOrder(t)'
    OBVIOUS
  <2>1. shown'[t].key <= annexb'[t]
    BY DEF SnapInv, StreamInOrder, WatcherInOrder
  <2>2. ASSUME NEW l, l = leader'[t], l # NoOne
        PROVE  Busy(l)' /\ Stream(l)' = t
    <3>1. t # s
      BY <1>3, <2>2
    <3>2. l = leader[t]
      BY <1>3, <2>2, <3>1
    <3>3. l \in Watchers \ {k} /\ Busy(l) /\ Stream(l) = t
      BY <1>1, <2>2, <3>1, <3>2 DEF SnapInv, StreamInOrder, SnapTypes
    <3> QED BY <1>6, <3>3
  <2> QED BY <2>1, <2>2 DEF StreamInOrder
<1> QED BY <1>8, <1>9, <1>10, <1>11 DEF SnapInv


LEMMA DecodedKeeps ==
  ASSUME SnapInv, NEW k \in Watchers, Decoded(k) \/ DecodeFails(k)
  PROVE  SnapInv'
<1>1. Busy(k) /\ Stream(k) \in Streams /\ Size[watcher[k].kind] \in {"full", "scaled"}
      /\ watcher[k].key \in 0 .. MaxKeys
  BY StreamOf, SizeOf DEF Decoded, DecodeFails, Busy, SnapInv, SnapTypes, WatcherStates
<1>2. SnapTypes /\ \A t \in Streams : t \in fresh => shown[t] # NoPicture
  BY DEF SnapInv, StreamInOrder
<1>3. CASE Decoded(k)
  <2> DEFINE picture == [key |-> watcher[k].key, size |-> Size[watcher[k].kind]]
  <2>1. picture \in Pictures /\ picture.key = watcher[k].key /\ picture # NoPicture
    BY <1>1 DEF Pictures, NoPicture
  <2>2. /\ shown' = [shown EXCEPT ![Stream(k)] = picture] /\ fresh' = fresh \cup {Stream(k)}
        /\ leader' = [leader EXCEPT ![Stream(k)] = NoOne] /\ watcher' = Close(k, TRUE)
        /\ annexb' = annexb
    BY <1>3 DEF Decoded
  <2> HIDE DEF picture
  <2>3. shown' \in [Streams -> Pictures] /\ fresh' \subseteq Streams
    BY <1>1, <1>2, <2>1, <2>2 DEF SnapTypes
  <2>4. shown'[Stream(k)] = picture /\ \A t \in Streams \ {Stream(k)} : shown'[t] = shown[t]
    BY <1>1, <1>2, <2>2 DEF SnapTypes
  <2>5. \A t \in Streams : /\ shown'[t] = shown[t] \/ (t = Stream(k) /\ shown'[t].key = watcher[k].key)
                           /\ t \in fresh' => shown'[t] # NoPicture
    BY <1>2, <2>1, <2>2, <2>4
  <2> QED BY <1>1, <2>2, <2>3, <2>5, DecodeEnds
<1>4. CASE DecodeFails(k)
  <2>1. /\ leader' = [leader EXCEPT ![Stream(k)] = NoOne] /\ watcher' = Close(k, FALSE)
        /\ UNCHANGED <<annexb, shown, fresh>>
    BY <1>4 DEF DecodeFails
  <2>2. shown' \in [Streams -> Pictures] /\ fresh' \subseteq Streams
    BY <1>2, <2>1 DEF SnapTypes
  <2> QED BY <1>1, <1>2, <2>1, <2>2, DecodeEnds
<1> QED BY <1>3, <1>4

LEMMA SnapSteps == SnapInv /\ [SnapNext]_snapVars => SnapInv'
<1> SUFFICES ASSUME SnapInv, [SnapNext]_snapVars PROVE SnapInv'
  OBVIOUS
<1>1. ASSUME NEW s \in Streams, OfferKey(s) PROVE SnapInv'
  <2>1. /\ annexb' = [annexb EXCEPT ![s] = annexb[s] + 1] /\ annexb[s] < MaxKeys
        /\ UNCHANGED <<shown, fresh, leader, watcher>>
    BY <1>1 DEF OfferKey
  <2>2. \A t \in Streams : annexb[t] \in 0 .. MaxKeys
    BY DEF SnapInv, SnapTypes
  <2>3. annexb[s] + 1 \in 0 .. MaxKeys
    BY <2>1, <2>2, DecodingFinite
  <2>4. SnapTypes'
    BY <2>1, <2>3 DEF SnapInv, SnapTypes
  <2>5. \A t \in Streams : annexb'[t] = annexb[t] \/ annexb'[t] = annexb[t] + 1
    BY <2>1 DEF SnapInv, SnapTypes
  <2>6. \A t \in Streams : \A n \in 0 .. MaxKeys : n <= annexb[t] => n <= annexb'[t]
    BY <2>2, <2>5, DecodingFinite
  <2>7. \A t \in Streams : shown[t].key \in 0 .. MaxKeys
    BY DEF SnapInv, SnapTypes, Pictures
  <2>8. \A k \in Watchers : watcher[k].key \in 0 .. MaxKeys
    BY DEF SnapInv, SnapTypes, WatcherStates
  <2>9. \A t \in Streams : StreamInOrder(t)'
    BY <2>1, <2>6, <2>7 DEF SnapInv, StreamInOrder, Busy, Stream
  <2>10. \A k \in Watchers : Stream(k) \in Streams
    BY StreamOf DEF SnapInv
  <2>11. \A k \in Watchers : WatcherInOrder(k)'
    BY <2>1, <2>6, <2>8, <2>10 DEF SnapInv, WatcherInOrder, Busy, Stream
  <2> QED BY <2>1, <2>4, <2>9, <2>11 DEF SnapInv, Decoding
<1>2. ASSUME NEW s \in Streams, CacheAges(s) PROVE SnapInv'
  <2>1. fresh' \subseteq fresh /\ UNCHANGED <<annexb, shown, leader, watcher>>
    BY <1>2 DEF CacheAges
  <2> QED BY <2>1 DEF SnapInv, SnapTypes, StreamInOrder, WatcherInOrder, Busy, Stream, Decoding
<1>3. ASSUME NEW k \in Watchers, NEW kind \in Kinds, Call(k, kind) PROVE SnapInv'
  <2> DEFINE x == [Idle EXCEPT !.step = "look", !.kind = kind]
  <2>1. x \in WatcherStates /\ x.step = "look"
    <3>1. Idle \in WatcherStates
      BY SnapshotAssumption DEF Idle, WatcherStates, Places, Kinds
    <3> QED BY <3>1 DEF WatcherStates, Places
  <2>2. /\ ~Busy(k) /\ (watcher' = [watcher EXCEPT ![k] = x])
        /\ UNCHANGED <<annexb, shown, fresh, leader>>
    BY <1>3 DEF Call, Busy
  <2> HIDE DEF x
  <2> QED BY <2>1, <2>2, WatcherMoves
<1>4. ASSUME NEW k \in Watchers, Wake(k) \/ StopWaiting(k) PROVE SnapInv'
  <2>1. /\ ~Busy(k) /\ UNCHANGED <<annexb, shown, fresh, leader>>
        /\ \/ watcher' = [watcher EXCEPT ![k] = Idle]
           \/ watcher' = [watcher EXCEPT ![k].step = "look", ![k].try = 2]
    BY <1>4 DEF Wake, StopWaiting, Return, NoSnapshot, Fails, Busy
  <2> QED BY <2>1, AnswerKeeps
<1>5. CASE UNCHANGED snapVars
  BY <1>5 DEF snapVars, SnapInv, SnapTypes, StreamInOrder, WatcherInOrder, Busy, Stream, Decoding
<1> QED BY <1>1, <1>2, <1>3, <1>4, <1>5, LookKeeps, TakeSlotKeeps, DecodedKeeps DEF SnapNext

LEMMA SnapAlways == SnapSpec => []SnapInv
BY SnapInitially, SnapSteps, PTL DEF SnapSpec

(* However many watch, of whatever cameras: never two decodes of a stream  *)
(* nor more than there are slots, and nobody waits for a decode that       *)
(* ended, failed or was given up.                                          *)
THEOREM SnapIsSafe == SnapSpec => []SnapSafe
<1>1. SnapInv => SnapSafe
  <2> SUFFICES ASSUME SnapInv PROVE SnapSafe
    OBVIOUS
  <2>1. SnapTypeOK
    BY DEF SnapInv, SnapTypes, StreamInOrder, SnapTypeOK, WatcherStates, Places
  <2>2. SnapOneDecode
    BY DEF SnapInv, WatcherInOrder, Busy, SnapOneDecode
  <2>3. ASSUME NEW k \in Watchers, watcher[k].step = "wait"
        PROVE  \E l \in Watchers : /\ leader[Stream(k)] = l /\ Stream(l) = Stream(k)
                                   /\ watcher[l].step \in {"slot", "decode"}
    <3>1. Stream(k) \in Streams
      BY StreamOf DEF SnapInv
    <3>2. leader[Stream(k)] # NoOne
      BY <2>3 DEF SnapInv, WatcherInOrder
    <3>3. leader[Stream(k)] \in Watchers
      BY <3>1, <3>2 DEF SnapInv, SnapTypes
    <3> QED BY <3>1, <3>2, <3>3 DEF SnapInv, StreamInOrder, Busy
  <2> QED BY <2>1, <2>2, <2>3 DEF SnapSafe, SnapWaiterNotForgotten
<1> QED BY <1>1, SnapAlways, PTL

(* The picture of a stream never goes back to an older frame, in whatever  *)
(* order decodes are asked for and end.                                    *)
THEOREM PictureNeverBack == SnapSpec => [][SnapNeverBack]_snapVars
<1>1. SnapInv /\ [SnapNext]_snapVars => [SnapNeverBack]_snapVars
  <2> SUFFICES ASSUME SnapInv, SnapNext PROVE SnapNeverBack
    OBVIOUS
  <2>1. \A s \in Streams : shown[s].key \in 0 .. MaxKeys
    BY DEF SnapInv, SnapTypes, Pictures
  <2>2. \A s \in Streams : shown[s].key >= shown[s].key
    BY <2>1, DecodingFinite
  <2>3. ASSUME NEW k \in Watchers, Decoded(k) PROVE SnapNeverBack
    <3>1. Busy(k) /\ Stream(k) \in Streams /\ shown[Stream(k)].key <= watcher[k].key
          /\ watcher[k].key \in 0 .. MaxKeys
      BY <2>3, StreamOf DEF Decoded, Busy, SnapInv, WatcherInOrder, SnapTypes, WatcherStates
    <3>2. shown'[Stream(k)].key = watcher[k].key
          /\ \A t \in Streams \ {Stream(k)} : shown'[t] = shown[t]
      BY <2>3, <3>1 DEF Decoded, SnapInv, SnapTypes
    <3>3. watcher[k].key >= shown[Stream(k)].key
      BY <2>1, <3>1, DecodingFinite
    <3> QED BY <2>2, <3>2, <3>3 DEF SnapNeverBack
  <2>4. shown' = shown => SnapNeverBack
    BY <2>2 DEF SnapNeverBack
  <2>5. shown' = shown \/ \E k \in Watchers : Decoded(k)
    BY DEF SnapNext, OfferKey, CacheAges, Call, Look, TakeSlot, DecodeFails, Wake, StopWaiting
  <2> QED BY <2>3, <2>4, <2>5
<1> QED BY <1>1, SnapAlways, PTL DEF SnapSpec


----------------------------------------------------------------------------
(* Settings. What a request carries through its statements: the secret it  *)
(* came with, or the one stored, and a configuration that was verified; a  *)
(* caller of Backend knows a configuration in force with the tag it wants. *)

PutPlaces == {"idle", "fill", "ping", "set", "write", "merge", "writeChannel"}
PutStates == [pc : PutPlaces, cfg : Configs, given : Secrets \cup {NoSecret}, row : ChannelRows]
CallStates == [pc : {"idle", "build", "got"}, cfg : Configs,
               during : SUBSET Configs, got : SUBSET Configs]

SettingsTypes ==
    /\ stored \in Configs /\ channel \in [plain : Tags, row : ChannelRows]
    /\ put \in [Puts -> PutStates] /\ puts \in 0 .. MaxPuts /\ mixed \in BOOLEAN
    /\ cached \subseteq Configs /\ (cached = {} \/ \E b \in Configs : cached = {b})
    /\ call \in [Callers -> CallStates]
    /\ entered \in [s3 : Secrets \cup {NoSecret}, channel : [SecretKeys -> Secrets \cup {NoSecret}]]
    /\ erased \subseteq SecretKeys

Bare(cfg) == [cfg EXCEPT !.secret = NoSecret]

Checked(cfg) == cfg.on = TRUE => cfg \in pinged \/ (mixed = TRUE /\ Bare(cfg) \in pinged)

(* Of one request, its secret and its verification.                        *)
Carries(p) ==
    /\ p.given # NoSecret => p.cfg.secret = p.given
    /\ p.pc = "fill" => p.given = NoSecret
    /\ p.pc = "set" /\ p.cfg.on = TRUE => p.cfg \in pinged
    /\ p.pc = "write" => Checked(p.cfg)

(* Of one request that has no other beside it.                             *)
CarriesAlone(p) ==
    /\ p.pc = "ping" => p.cfg.secret = stored.secret
    /\ p.pc = "set" => /\ p.cfg.secret \in {NoSecret, stored.secret}
                       /\ p.cfg.on = TRUE => p.cfg.secret = stored.secret
    /\ p.pc = "write" => p.cfg.secret = stored.secret

(* ... and of a channel's, with a secret of its own or without: the row it *)
(* will write, the type it leaves masked, its own type sealed.             *)
RowAlone(p) ==
    /\ p.pc = "merge" => p.row.enc = Masked
    /\ p.pc = "writeChannel" =>
         p.row.enc = [Masked EXCEPT ![p.row.type] =
             IF p.given = NoSecret THEN channel.row.enc[p.row.type] ELSE p.given]

EnteredOrErased ==
    \A k \in SecretKeys :
        channel.row.enc[k] = IF k \in erased THEN NoSecret ELSE entered.channel[k]

InForce(c) ==
    /\ call[c].pc = "build" => call[c].cfg \in call[c].during /\ call[c].got = {}
    /\ \A b \in call[c].got : \E cfg \in call[c].during : cfg.tag = b.tag

InPlace ==
    mixed = FALSE =>
      /\ stored.secret = entered.s3 /\ EnteredOrErased
      /\ \A q, r \in Puts : put[q].pc # "idle" /\ put[r].pc # "idle" => q = r
      /\ \A r \in Puts : put[r].given = NoSecret => CarriesAlone(put[r])
      /\ \A r \in Puts : RowAlone(put[r])

SettingsInv ==
    /\ SettingsTypes
    /\ Checked(stored)
    /\ \A r \in Puts : Carries(put[r])
    /\ InPlace
    /\ \A c \in Callers : InForce(c)

LEMMA Idles ==
  /\ Default \in Configs /\ Default.on = FALSE /\ Default.secret = NoSecret /\ Default.tag \in Tags
  /\ NoRow \in ChannelRows /\ \A k \in SecretKeys : NoRow.enc[k] = NoSecret
  /\ NoPut \in PutStates /\ NoPut.pc = "idle" /\ NoPut.given = NoSecret
  /\ NoCall \in CallStates /\ NoCall.pc = "idle" /\ NoCall.got = {}
<1>1. (CHOOSE t \in Tags : TRUE) \in Tags
  BY SettingsAssumption
<1>2. Default \in Configs /\ Default.on = FALSE /\ Default.secret = NoSecret /\ Default.tag \in Tags
  BY <1>1 DEF Default, Configs
<1>5. (CHOOSE k \in SecretKeys : TRUE) \in SecretKeys
  BY SettingsAssumption
<1>6. NoRow \in ChannelRows /\ \A k \in SecretKeys : NoRow.enc[k] = NoSecret
  BY <1>5 DEF NoRow, ChannelRows
<1>3. NoPut \in PutStates /\ NoPut.pc = "idle" /\ NoPut.given = NoSecret
  BY <1>2, <1>6 DEF NoPut, PutStates, PutPlaces
<1>4. NoCall \in CallStates /\ NoCall.pc = "idle" /\ NoCall.got = {}
  BY <1>2 DEF NoCall, CallStates
<1> QED BY <1>2, <1>3, <1>4, <1>6

LEMMA IdleCarries ==
  ASSUME NEW p, p.pc = "idle", p.given = NoSecret
  PROVE  Carries(p) /\ CarriesAlone(p) /\ RowAlone(p)
BY DEF Carries, CarriesAlone, RowAlone

LEMMA SettingsInitially == SettingsInit => SettingsInv
<1> SUFFICES ASSUME SettingsInit PROVE SettingsInv
  OBVIOUS
<1>1. SettingsTypes
  <2>1. stored \in Configs /\ channel \in [plain : Tags, row : ChannelRows]
    BY Idles DEF SettingsInit
  <2>2. put \in [Puts -> PutStates] /\ call \in [Callers -> CallStates]
    BY Idles DEF SettingsInit
  <2>3. puts \in 0 .. MaxPuts /\ mixed \in BOOLEAN /\ cached = {}
    <3>1. puts = 0
      BY DEF SettingsInit
    <3>2. puts \in 0 .. MaxPuts
      BY <3>1, SettingsAssumption
    <3>3. mixed \in BOOLEAN /\ cached = {}
      BY DEF SettingsInit
    <3> QED BY <3>2, <3>3
  <2>4. /\ entered \in [s3 : Secrets \cup {NoSecret}, channel : [SecretKeys -> Secrets \cup {NoSecret}]]
        /\ erased \subseteq SecretKeys
    BY Idles DEF SettingsInit, ChannelRows
  <2> QED BY <2>1, <2>2, <2>3, <2>4 DEF SettingsTypes
<1>2. Checked(stored)
  BY Idles DEF SettingsInit, Checked
<1>3. \A r \in Puts : put[r].pc = "idle" /\ put[r].given = NoSecret
  BY Idles DEF SettingsInit
<1>4. \A r \in Puts : Carries(put[r]) /\ CarriesAlone(put[r]) /\ RowAlone(put[r])
  BY <1>3, IdleCarries
<1>5. stored.secret = entered.s3 /\ EnteredOrErased
  BY Idles DEF SettingsInit, EnteredOrErased
<1>6. \A c \in Callers : InForce(c)
  BY Idles DEF SettingsInit, InForce
<1> QED BY <1>1, <1>2, <1>3, <1>4, <1>5, <1>6 DEF SettingsInv, InPlace

(* One request goes on to state x, and nothing it relies on changes but    *)
(* for configurations that were verified.                                  *)
LEMMA PutMoves ==
  ASSUME SettingsInv, NEW r \in Puts, NEW x \in PutStates, put[r].pc # "idle",
         SetPut(r, x), pinged \subseteq pinged',
         UNCHANGED <<stored, channel, puts, cached, call, entered, erased, mixed>>,
         Carries(x)', mixed = FALSE /\ x.given = NoSecret => CarriesAlone(x),
         mixed = FALSE => RowAlone(x)
  PROVE  SettingsInv'
<1>1. put'[r] = x /\ \A q \in Puts \ {r} : put'[q] = put[q]
  BY DEF SetPut, SettingsInv, SettingsTypes
<1>2. SettingsTypes'
  BY DEF SetPut, SettingsInv, SettingsTypes
<1>3. ASSUME NEW cfg, Checked(cfg) PROVE Checked(cfg)'
  BY <1>3 DEF Checked
<1>4. ASSUME NEW p, Carries(p) PROVE Carries(p)'
  BY <1>3, <1>4 DEF Carries
<1>5. ASSUME NEW q \in Puts PROVE Carries(put[q])'
  <2>1. CASE q = r
    BY <1>1, <2>1 DEF Carries, Checked
  <2>2. CASE q # r
    <3>1. Carries(put[q])
      BY DEF SettingsInv
    <3> QED BY <1>1, <1>4, <2>2, <3>1 DEF Carries, Checked
  <2> QED BY <2>1, <2>2
<1>6. Checked(stored)'
  <2>1. Checked(stored)
    BY DEF SettingsInv
  <2> QED BY <2>1 DEF Checked
<1>7. InPlace'
  <2>1. mixed = FALSE => \A q \in Puts : put'[q].given = NoSecret => CarriesAlone(put'[q])
    BY <1>1 DEF SettingsInv, InPlace
  <2>2. \A q \in Puts : put'[q].pc # "idle" => put[q].pc # "idle"
    BY <1>1
  <2>3. mixed = FALSE => \A q \in Puts : RowAlone(put'[q])
    BY <1>1 DEF SettingsInv, InPlace
  <2>4. mixed = FALSE => \A q \in Puts : RowAlone(put[q])'
    BY <2>3 DEF RowAlone, Masked
  <2> QED BY <2>1, <2>2, <2>4 DEF SettingsInv, InPlace, CarriesAlone, EnteredOrErased
<1>8. \A c \in Callers : InForce(c)'
  BY DEF SettingsInv, InForce
<1> QED BY <1>2, <1>5, <1>6, <1>7, <1>8 DEF SettingsInv

LEMMA StartPutKeeps ==
  ASSUME SettingsInv, NEW r \in Puts, NEW cfg \in Configs, NEW pc \in PutPlaces,
         NEW row \in ChannelRows, pc = "merge" => row.enc = Masked,
         pc \in {"set", "fill", "ping", "merge"}, StartPut(r, cfg, pc, row),
         pc = "fill" => cfg.secret = NoSecret, pc = "ping" => cfg.secret # NoSecret,
         pc = "set" => cfg.on = FALSE
  PROVE  SettingsInv'
<1> DEFINE x == [pc |-> pc, cfg |-> cfg, given |-> cfg.secret, row |-> row]
<1>1. /\ put[r].pc = "idle" /\ puts < MaxPuts /\ puts' = puts + 1 /\ SetPut(r, x)
      /\ mixed' = (mixed \/ \E o \in Puts : put[o].pc # "idle")
      /\ UNCHANGED <<stored, channel, cached, call, pinged, entered, erased>>
  BY DEF StartPut
<1>2. x \in PutStates /\ x.pc = pc /\ x.cfg = cfg /\ x.given = cfg.secret /\ x.row = row
  BY DEF PutStates, Configs
<1>3. puts' \in 0 .. MaxPuts
  <2>1. puts \in 0 .. MaxPuts
    BY DEF SettingsInv, SettingsTypes
  <2> QED BY <1>1, <2>1, SettingsAssumption
<1>4. /\ mixed' \in BOOLEAN
      /\ mixed' = FALSE => mixed = FALSE /\ \A o \in Puts : put[o].pc = "idle"
      /\ mixed = TRUE => mixed' = TRUE
  <2>1. mixed \in BOOLEAN
    BY DEF SettingsInv, SettingsTypes
  <2> QED BY <1>1, <2>1
<1> HIDE DEF x
<1>5. put'[r] = x /\ \A q \in Puts \ {r} : put'[q] = put[q]
  BY <1>1 DEF SetPut, SettingsInv, SettingsTypes
<1>6. SettingsTypes'
  BY <1>1, <1>2, <1>3, <1>4 DEF SetPut, SettingsInv, SettingsTypes
<1>7. ASSUME NEW c, Checked(c) PROVE Checked(c)'
  BY <1>1, <1>4, <1>7 DEF Checked
<1>8. ASSUME NEW q \in Puts PROVE Carries(put[q])'
  <2>1. CASE q = r
    BY <1>2, <1>5, <2>1 DEF Carries
  <2>2. CASE q # r
    <3>1. Carries(put[q])
      BY DEF SettingsInv
    <3> QED BY <1>1, <1>4, <1>5, <2>2, <3>1 DEF Carries, Checked
  <2> QED BY <2>1, <2>2
<1>9. Checked(stored)'
  <2>1. Checked(stored)
    BY DEF SettingsInv
  <2> QED BY <1>1, <1>4, <2>1 DEF Checked
<1>10. InPlace'
  <2> SUFFICES ASSUME mixed' = FALSE PROVE InPlace'
    BY DEF InPlace
  <2>1. stored'.secret = entered'.s3 /\ EnteredOrErased'
    BY <1>1, <1>4 DEF SettingsInv, InPlace, EnteredOrErased
  <2>2. \A q \in Puts : put'[q].pc # "idle" => q = r
    BY <1>4, <1>5
  <2>3. \A q \in Puts \ {r} : put'[q].given = NoSecret => CarriesAlone(put[q])'
    BY <1>1, <1>4, <1>5 DEF SettingsInv, InPlace, CarriesAlone
  <2>4. x.given = NoSecret => CarriesAlone(put[r])'
    BY <1>2, <1>5 DEF CarriesAlone
  <2>5. \A q \in Puts \ {r} : RowAlone(put[q])'
    BY <1>1, <1>4, <1>5 DEF SettingsInv, InPlace, RowAlone, Masked
  <2>6. RowAlone(put[r])'
    BY <1>1, <1>2, <1>5 DEF RowAlone, Masked
  <2> QED BY <1>5, <2>1, <2>2, <2>3, <2>4, <2>5, <2>6 DEF InPlace
<1>11. \A c \in Callers : InForce(c)'
  BY <1>1 DEF SettingsInv, InForce
<1> QED BY <1>6, <1>8, <1>9, <1>10, <1>11 DEF SettingsInv


(* The statements of a request before it writes.                           *)
LEMMA StatementKeeps ==
  ASSUME SettingsInv, NEW r \in Puts,
         FillSecret(r) \/ Ping(r) \/ SetS3(r) \/ MergeSecret(r)
  PROVE  SettingsInv'
<1>1. /\ put[r] \in PutStates /\ Carries(put[r])
      /\ mixed = FALSE /\ put[r].given = NoSecret => CarriesAlone(put[r])
      /\ put[r].cfg \in Configs /\ stored.secret \in Secrets \cup {NoSecret}
      /\ mixed = FALSE => RowAlone(put[r])
  BY DEF SettingsInv, SettingsTypes, InPlace, PutStates, Configs
<1>2. CASE FillSecret(r)
  <2> SUFFICES ASSUME NEW x, x = [put[r] EXCEPT !.pc = "ping", !.cfg.secret = stored.secret] PROVE SettingsInv'
    OBVIOUS
  <2>1. /\ x \in PutStates /\ x.pc = "ping" /\ x.given = put[r].given
        /\ x.cfg.secret = stored.secret
    BY <1>1 DEF PutStates, PutPlaces, Configs
  <2>2. /\ put[r].pc = "fill" /\ SetPut(r, x)
        /\ UNCHANGED <<stored, channel, puts, cached, call, pinged, entered, erased, mixed>>
    BY <1>2 DEF FillSecret
  <2>3. x.given = NoSecret
    BY <1>1, <2>1, <2>2 DEF Carries
  <2>4. Carries(x)' /\ CarriesAlone(x) /\ RowAlone(x)
    BY <2>1, <2>3 DEF Carries, CarriesAlone, RowAlone
  <2> QED BY <2>1, <2>2, <2>4, PutMoves
<1>3. CASE Ping(r)
  <2>1. CASE SetPut(r, NoPut) /\ UNCHANGED pinged
    <3>1. /\ put[r].pc # "idle"
          /\ UNCHANGED <<stored, channel, puts, cached, call, entered, erased, mixed>>
      BY <1>3 DEF Ping
    <3>2. Carries(NoPut)' /\ CarriesAlone(NoPut) /\ RowAlone(NoPut)
      BY Idles DEF Carries, CarriesAlone, RowAlone
    <3> QED BY <2>1, <3>1, <3>2, Idles, PutMoves
  <2>2. CASE SetPut(r, [put[r] EXCEPT !.pc = "set"]) /\ pinged' = pinged \cup {put[r].cfg}
    <3> SUFFICES ASSUME NEW x, x = [put[r] EXCEPT !.pc = "set"] PROVE SettingsInv'
      OBVIOUS
    <3>1. x \in PutStates /\ x.pc = "set" /\ x.given = put[r].given /\ x.cfg = put[r].cfg
      BY <1>1 DEF PutStates, PutPlaces
    <3>2. /\ put[r].pc = "ping" /\ SetPut(r, x)
          /\ UNCHANGED <<stored, channel, puts, cached, call, entered, erased, mixed>>
      BY <1>3, <2>2 DEF Ping
    <3>3. Carries(x)'
      BY <1>1, <2>2, <3>1 DEF Carries
    <3>4. mixed = FALSE /\ x.given = NoSecret => CarriesAlone(x)
      BY <1>1, <3>1, <3>2 DEF CarriesAlone
    <3>5. RowAlone(x)
      BY <3>1 DEF RowAlone
    <3> QED BY <2>2, <3>1, <3>2, <3>3, <3>4, <3>5, PutMoves
  <2> QED BY <1>3, <2>1, <2>2 DEF Ping
<1>4. CASE SetS3(r)
  <2>1. PICK secret \in Secrets \cup {NoSecret} :
          /\ SetPut(r, [put[r] EXCEPT !.pc = "write", !.cfg.secret = secret])
          /\ secret = IF put[r].cfg.secret = NoSecret THEN stored.secret ELSE put[r].cfg.secret
    <3>1. put[r].cfg.secret \in Secrets \cup {NoSecret}
      BY <1>1 DEF Configs
    <3> QED BY <1>1, <1>4, <3>1 DEF SetS3
  <2> SUFFICES ASSUME NEW x, x = [put[r] EXCEPT !.pc = "write", !.cfg.secret = secret] PROVE SettingsInv'
    OBVIOUS
  <2>2. /\ x \in PutStates /\ x.pc = "write" /\ x.given = put[r].given
        /\ x.cfg = [put[r].cfg EXCEPT !.secret = secret] /\ x.cfg.secret = secret
        /\ x.cfg.on = put[r].cfg.on
    BY <1>1 DEF PutStates, PutPlaces, Configs
  <2>3. /\ put[r].pc = "set" /\ SetPut(r, x)
        /\ UNCHANGED <<stored, channel, puts, cached, call, pinged, entered, erased, mixed>>
    BY <1>4, <2>1 DEF SetS3
  <2>4. x.given # NoSecret => x.cfg.secret = x.given
    BY <1>1, <2>1, <2>2 DEF Carries
  <2>5. x.cfg.on = TRUE => put[r].cfg \in pinged
    BY <1>1, <2>2, <2>3 DEF Carries
  <2>6. secret = put[r].cfg.secret => x.cfg = put[r].cfg
    BY <1>1, <2>2 DEF Configs
  <2>7. put[r].cfg.secret = NoSecret => Bare(x.cfg) = put[r].cfg
    BY <1>1, <2>2 DEF Configs, Bare
  <2>8. mixed = FALSE /\ put[r].given = NoSecret => secret = stored.secret
    BY <1>1, <2>1, <2>3 DEF CarriesAlone
  <2>9. mixed = FALSE /\ x.cfg.on = TRUE => secret = put[r].cfg.secret
    <3>1. CASE put[r].given = NoSecret
      BY <1>1, <2>1, <2>2, <2>3, <3>1 DEF CarriesAlone
    <3>2. CASE put[r].given # NoSecret
      BY <1>1, <2>1, <3>2 DEF Carries
    <3> QED BY <3>1, <3>2
  <2>10. mixed \in BOOLEAN
    BY DEF SettingsInv, SettingsTypes
  <2>11. Checked(x.cfg)
    <3>1. CASE mixed = FALSE
      BY <2>5, <2>6, <2>9, <3>1 DEF Checked
    <3>2. CASE mixed = TRUE /\ put[r].cfg.secret = NoSecret
      BY <2>5, <2>7, <3>2 DEF Checked
    <3>3. CASE put[r].cfg.secret # NoSecret
      BY <2>1, <2>5, <2>6, <3>3 DEF Checked
    <3> QED BY <2>10, <3>1, <3>2, <3>3
  <2>12. Carries(x)'
    BY <2>2, <2>3, <2>4, <2>11 DEF Carries, Checked
  <2>13. mixed = FALSE /\ x.given = NoSecret => CarriesAlone(x)
    BY <2>2, <2>8 DEF CarriesAlone
  <2>14. RowAlone(x)
    BY <2>2 DEF RowAlone
  <2> QED BY <2>2, <2>3, <2>12, <2>13, <2>14, PutMoves
<1>5. CASE MergeSecret(r)
  <2>1. PICK secret \in Secrets \cup {NoSecret} :
          /\ Sealed(r, secret)
          /\ secret = IF put[r].given = NoSecret THEN channel.row.enc[put[r].row.type] ELSE put[r].given
    <3>1. put[r].given \in Secrets \cup {NoSecret} /\ put[r].row.type \in SecretKeys
      BY <1>1 DEF PutStates, ChannelRows
    <3>2. channel.row.enc[put[r].row.type] \in Secrets \cup {NoSecret}
      BY <3>1 DEF SettingsInv, SettingsTypes, ChannelRows
    <3> QED BY <1>5, <3>1, <3>2 DEF MergeSecret
  <2> SUFFICES ASSUME NEW x, x = [put[r] EXCEPT !.pc = "writeChannel", !.row.enc[put[r].row.type] = secret]
               PROVE  SettingsInv'
    OBVIOUS
  <2>2. put[r].row \in ChannelRows /\ put[r].row.type \in SecretKeys
    BY <1>1 DEF PutStates, ChannelRows
  <2>3. /\ x.pc = "writeChannel" /\ x.given = put[r].given /\ x.cfg = put[r].cfg
        /\ x.row.type = put[r].row.type
        /\ x.row.enc = [put[r].row.enc EXCEPT ![put[r].row.type] = secret]
    BY <1>1, <2>2 DEF PutStates, ChannelRows
  <2>4. x \in PutStates
    <3>1. [put[r].row.enc EXCEPT ![put[r].row.type] = secret] \in [SecretKeys -> Secrets \cup {NoSecret}]
      BY <2>2 DEF ChannelRows
    <3>2. [put[r].row EXCEPT !.enc[put[r].row.type] = secret] \in ChannelRows
      BY <2>2, <3>1 DEF ChannelRows
    <3> QED BY <1>1, <3>2 DEF PutStates, PutPlaces
  <2>5. /\ put[r].pc = "merge" /\ SetPut(r, x)
        /\ UNCHANGED <<stored, channel, puts, cached, call, pinged, entered, erased, mixed>>
    BY <1>5, <2>1 DEF MergeSecret, Sealed
  <2>6. Carries(x)'
    BY <1>1, <2>3 DEF Carries
  <2>7. CarriesAlone(x)
    BY <2>3 DEF CarriesAlone
  <2>8. mixed = FALSE => RowAlone(x)
    BY <1>1, <2>1, <2>3, <2>5 DEF RowAlone
  <2> QED BY <2>4, <2>5, <2>6, <2>7, <2>8, PutMoves
<1> QED BY <1>2, <1>3, <1>4, <1>5


(* The writes. Whoever writes while no other request is under way has the  *)
(* secret that was entered last.                                           *)
LEMMA WriteS3Keeps ==
  ASSUME SettingsInv, NEW r \in Puts, WriteS3(r)
  PROVE  SettingsInv'
<1>1. /\ put[r].pc = "write" /\ stored' = put[r].cfg /\ call' = During(put[r].cfg)
      /\ entered' = IF put[r].given = NoSecret THEN entered ELSE [entered EXCEPT !.s3 = put[r].given]
      /\ put' = [put EXCEPT ![r] = NoPut] /\ UNCHANGED <<channel, puts, cached, pinged, erased, mixed>>
  BY DEF WriteS3, SetPut
<1>2. /\ put[r] \in PutStates /\ put[r].cfg \in Configs /\ put[r].given \in Secrets \cup {NoSecret}
      /\ Carries(put[r]) /\ Checked(put[r].cfg)
  BY <1>1 DEF SettingsInv, SettingsTypes, PutStates, Carries
<1>3. put'[r] = NoPut /\ \A q \in Puts \ {r} : put'[q] = put[q]
  BY <1>1 DEF SettingsInv, SettingsTypes
<1>4. entered' \in [s3 : Secrets \cup {NoSecret}, channel : [SecretKeys -> Secrets \cup {NoSecret}]]
  BY <1>1, <1>2 DEF SettingsInv, SettingsTypes
<1>5. ASSUME NEW c \in Callers
      PROVE  call'[c] \in CallStates /\ InForce(c)'
  <2>1. call[c] \in CallStates /\ InForce(c)
    BY DEF SettingsInv, SettingsTypes
  <2>2. call'[c] = IF call[c].pc = "idle" THEN call[c]
                   ELSE [call[c] EXCEPT !.during = call[c].during \cup {put[r].cfg}]
    BY <1>1 DEF During
  <2>3. call'[c] \in CallStates
    BY <1>2, <2>1, <2>2 DEF CallStates
  <2>4. /\ call'[c].pc = call[c].pc /\ call'[c].cfg = call[c].cfg /\ call'[c].got = call[c].got
        /\ call[c].during \subseteq call'[c].during
    BY <2>1, <2>2 DEF CallStates
  <2> QED BY <2>1, <2>3, <2>4 DEF InForce
<1>6. call' \in [Callers -> CallStates]
  <2>1. call' = [c \in Callers |-> call'[c]]
    BY <1>1 DEF During
  <2> QED BY <1>5, <2>1
<1>7. put' \in [Puts -> PutStates]
  BY <1>1, Idles DEF SettingsInv, SettingsTypes
<1>8. SettingsTypes'
  BY <1>1, <1>2, <1>4, <1>6, <1>7 DEF SettingsInv, SettingsTypes
<1>9. Checked(stored)'
  BY <1>1, <1>2 DEF Checked
<1>10. ASSUME NEW q \in Puts PROVE Carries(put[q])'
  <2>1. CASE q = r
    BY <1>3, <2>1, Idles DEF Carries
  <2>2. CASE q # r
    BY <1>1, <1>3, <2>2 DEF SettingsInv, Carries, Checked
  <2> QED BY <2>1, <2>2
<1>11. InPlace'
  <2> SUFFICES ASSUME mixed = FALSE PROVE InPlace'
    BY <1>1 DEF InPlace
  <2>1. \A q \in Puts : put'[q].pc = "idle"
    BY <1>1, <1>3, Idles DEF SettingsInv, InPlace
  <2>2. \A q \in Puts : CarriesAlone(put[q])'
    BY <2>1 DEF CarriesAlone
  <2>3. EnteredOrErased'
    BY <1>1 DEF SettingsInv, SettingsTypes, InPlace, EnteredOrErased
  <2>4. stored'.secret = entered'.s3
    <3>1. CASE put[r].given = NoSecret
      BY <1>1, <3>1 DEF SettingsInv, InPlace, CarriesAlone
    <3>2. CASE put[r].given # NoSecret
      BY <1>1, <1>2, <3>2 DEF SettingsInv, SettingsTypes, Carries
    <3> QED BY <3>1, <3>2
  <2>5. \A q \in Puts : RowAlone(put[q])'
    BY <2>1 DEF RowAlone
  <2> QED BY <2>1, <2>2, <2>3, <2>4, <2>5 DEF InPlace
<1> QED BY <1>5, <1>8, <1>9, <1>10, <1>11 DEF SettingsInv

LEMMA WriteChannelKeeps ==
  ASSUME SettingsInv, NEW r \in Puts, WriteChannel(r)
  PROVE  SettingsInv'
<1>1. /\ put[r].pc = "writeChannel"
      /\ channel' = [plain |-> put[r].cfg.tag, row |-> put[r].row]
      /\ entered' = IF put[r].given = NoSecret THEN entered
                    ELSE [entered EXCEPT !.channel[put[r].row.type] = put[r].given]
      /\ erased' = Erasing(r)
      /\ put' = [put EXCEPT ![r] = NoPut] /\ UNCHANGED <<stored, puts, cached, call, pinged, mixed>>
  BY DEF WriteChannel, SetPut
<1>2. /\ put[r].cfg.tag \in Tags /\ put[r].row \in ChannelRows /\ put[r].row.type \in SecretKeys
      /\ put[r].given \in Secrets \cup {NoSecret} /\ channel.row \in ChannelRows
      /\ channel.row.type \in SecretKeys /\ erased \subseteq SecretKeys
  BY DEF SettingsInv, SettingsTypes, PutStates, Configs, ChannelRows
<1>3. put'[r] = NoPut /\ \A q \in Puts \ {r} : put'[q] = put[q]
  BY <1>1 DEF SettingsInv, SettingsTypes
<1>4. /\ entered' \in [s3 : Secrets \cup {NoSecret}, channel : [SecretKeys -> Secrets \cup {NoSecret}]]
      /\ entered'.s3 = entered.s3
      /\ entered'.channel = IF put[r].given = NoSecret THEN entered.channel
                            ELSE [entered.channel EXCEPT ![put[r].row.type] = put[r].given]
  BY <1>1, <1>2 DEF SettingsInv, SettingsTypes
<1>5. put' \in [Puts -> PutStates]
  BY <1>1, Idles DEF SettingsInv, SettingsTypes
<1>6. SettingsTypes'
  <2>1. erased' \subseteq SecretKeys
    BY <1>1, <1>2 DEF Erasing
  <2> QED BY <1>1, <1>2, <1>4, <1>5, <2>1 DEF SettingsInv, SettingsTypes
<1>7. ASSUME NEW q \in Puts PROVE Carries(put[q])'
  <2>1. CASE q = r
    BY <1>3, <2>1, Idles DEF Carries
  <2>2. CASE q # r
    BY <1>1, <1>3, <2>2 DEF SettingsInv, Carries, Checked
  <2> QED BY <2>1, <2>2
<1>8. InPlace'
  <2> SUFFICES ASSUME mixed = FALSE PROVE InPlace'
    BY <1>1 DEF InPlace
  <2>1. \A q \in Puts : put'[q].pc = "idle"
    BY <1>1, <1>3, Idles DEF SettingsInv, InPlace
  <2>2. \A q \in Puts : CarriesAlone(put[q])' /\ RowAlone(put[q])'
    BY <2>1 DEF CarriesAlone, RowAlone
  <2>3. stored'.secret = entered'.s3
    BY <1>1, <1>4 DEF SettingsInv, SettingsTypes, InPlace
  <2>4. ASSUME NEW k \in SecretKeys
        PROVE  channel'.row.enc[k] = IF k \in erased' THEN NoSecret ELSE entered'.channel[k]
    <3>1. channel'.row.enc[k] = put[r].row.enc[k]
      BY <1>1
    <3>2. channel.row.enc[k] = IF k \in erased THEN NoSecret ELSE entered.channel[k]
      BY DEF SettingsInv, InPlace, EnteredOrErased
    <3>3. put[r].row.enc = [Masked EXCEPT ![put[r].row.type] =
             IF put[r].given = NoSecret THEN channel.row.enc[put[r].row.type] ELSE put[r].given]
      BY <1>1 DEF SettingsInv, InPlace, RowAlone
    <3>4. k \in DOMAIN Masked /\ Masked[k] = IF k = channel.row.type THEN NoSecret ELSE channel.row.enc[k]
      BY <1>2 DEF Masked, ChannelRows
    <3>5. put[r].row.enc[k] = IF k # put[r].row.type THEN Masked[k]
             ELSE IF put[r].given = NoSecret THEN channel.row.enc[k] ELSE put[r].given
      BY <3>3, <3>4
    <3>6. k \in DOMAIN entered.channel
      BY DEF SettingsInv, SettingsTypes
    <3>7. entered'.channel[k] = IF k = put[r].row.type /\ put[r].given # NoSecret THEN put[r].given
                               ELSE entered.channel[k]
      BY <1>4, <3>6
    <3>8. k \in erased' <=> /\ \/ k \in erased
                               \/ k = channel.row.type /\ put[r].row.type # channel.row.type
                            /\ ~(k = put[r].row.type /\ put[r].given # NoSecret)
      BY <1>1 DEF Erasing
    <3>9. CASE k = put[r].row.type /\ put[r].given # NoSecret
      BY <3>1, <3>5, <3>7, <3>8, <3>9
    <3>10. CASE k = put[r].row.type /\ put[r].given = NoSecret
      BY <3>1, <3>2, <3>5, <3>7, <3>8, <3>10
    <3>11. CASE k # put[r].row.type
      BY <3>1, <3>2, <3>4, <3>5, <3>7, <3>8, <3>11
    <3> QED BY <3>9, <3>10, <3>11
  <2> QED BY <2>1, <2>2, <2>3, <2>4 DEF InPlace, EnteredOrErased
<1>9. Checked(stored)' /\ \A c \in Callers : InForce(c)'
  BY <1>1 DEF SettingsInv, Checked, InForce
<1> QED BY <1>6, <1>7, <1>8, <1>9 DEF SettingsInv

(* A caller of Backend.                                                    *)
LEMMA BackendKeeps ==
  ASSUME SettingsInv, NEW c \in Callers, BackendRead(c) \/ BackendBuild(c) \/ BackendDone(c)
  PROVE  SettingsInv'
<1>1. UNCHANGED <<stored, channel, put, puts, pinged, entered, erased, mixed>>
  BY DEF BackendRead, BackendBuild, BackendDone
<1>2. call[c] \in CallStates /\ InForce(c) /\ stored \in Configs /\ call[c].cfg \in Configs
  BY DEF SettingsInv, SettingsTypes, CallStates
<1>3. SUFFICES ASSUME NEW x \in CallStates, call' = [call EXCEPT ![c] = x],
                      cached' = cached \/ \E b \in Configs : cached' = {b},
                      x.pc = "build" => x.cfg \in x.during /\ x.got = {},
                      \A b \in x.got : \E cfg \in x.during : cfg.tag = b.tag
               PROVE  SettingsInv'
  <2>1. CASE BackendRead(c)
    <3> SUFFICES ASSUME NEW x,
                   x = IF stored.on THEN [pc |-> "build", cfg |-> stored, during |-> {stored}, got |-> {}]
                       ELSE NoCall
                 PROVE  SettingsInv'
      OBVIOUS
    <3>1. x \in CallStates /\ (x.pc = "build" => x.cfg \in x.during /\ x.got = {}) /\ x.got = {}
      BY <1>2, Idles DEF CallStates
    <3>2. call' = [call EXCEPT ![c] = x] /\ cached' = cached
      BY <2>1 DEF BackendRead
    <3> QED BY <1>3, <3>1, <3>2
  <2>2. CASE BackendDone(c)
    BY <1>3, <2>2, Idles DEF BackendDone
  <2>3. CASE BackendBuild(c)
    <3>1. /\ call[c].pc = "build" /\ call[c].cfg \in call[c].during
          /\ \/ /\ \E b \in cached : b.tag = call[c].cfg.tag
                /\ call' = [call EXCEPT ![c] = [call[c] EXCEPT !.pc = "got", !.got = cached]]
                /\ cached' = cached
             \/ /\ call' = [call EXCEPT ![c] = [call[c] EXCEPT !.pc = "got", !.got = {call[c].cfg}]]
                /\ cached' = {call[c].cfg}
      BY <1>2, <2>3 DEF BackendBuild, Build, InForce
    <3>2. PICK got \in SUBSET Configs :
            /\ call' = [call EXCEPT ![c] = [call[c] EXCEPT !.pc = "got", !.got = got]]
            /\ \A b \in got : b.tag = call[c].cfg.tag
            /\ cached' = cached \/ \E b \in Configs : cached' = {b}
      <4>1. cached \subseteq Configs /\ (cached = {} \/ \E b \in Configs : cached = {b})
        BY DEF SettingsInv, SettingsTypes
      <4>2. (\E b \in cached : b.tag = call[c].cfg.tag) => \A b \in cached : b.tag = call[c].cfg.tag
        BY <4>1
      <4>3. {call[c].cfg} \in SUBSET Configs /\ cached \in SUBSET Configs
        BY <1>2, <4>1
      <4>4. \A b \in {call[c].cfg} : b.tag = call[c].cfg.tag
        OBVIOUS
      <4>5. CASE cached' = cached /\ \E b \in cached : b.tag = call[c].cfg.tag
        BY <1>2, <3>1, <4>2, <4>3, <4>4, <4>5
      <4>6. CASE cached' = {call[c].cfg}
                 /\ call' = [call EXCEPT ![c] = [call[c] EXCEPT !.pc = "got", !.got = {call[c].cfg}]]
        BY <1>2, <4>3, <4>4, <4>6
      <4> QED BY <3>1, <4>5, <4>6
    <3> SUFFICES ASSUME NEW x, x = [call[c] EXCEPT !.pc = "got", !.got = got] PROVE SettingsInv'
      OBVIOUS
    <3>3. x \in CallStates /\ x.pc = "got" /\ x.got = got /\ x.during = call[c].during
      BY <1>2 DEF CallStates
    <3>4. \A b \in x.got : \E cfg \in x.during : cfg.tag = b.tag
      BY <3>1, <3>2, <3>3
    <3> QED BY <1>3, <3>2, <3>3, <3>4
  <2> QED BY <2>1, <2>2, <2>3
<1>4. call'[c] = x /\ \A d \in Callers \ {c} : call'[d] = call[d]
  BY <1>3 DEF SettingsInv, SettingsTypes
<1>5. SettingsTypes'
  BY <1>1, <1>3 DEF SettingsInv, SettingsTypes
<1>6. ASSUME NEW d \in Callers PROVE InForce(d)'
  BY <1>3, <1>4 DEF SettingsInv, InForce
<1>7. Checked(stored)' /\ InPlace' /\ \A r \in Puts : Carries(put[r])'
  BY <1>1 DEF SettingsInv, Checked, InPlace, Carries, CarriesAlone, RowAlone, Masked, EnteredOrErased
<1> QED BY <1>5, <1>6, <1>7 DEF SettingsInv


LEMMA SettingsSteps == SettingsInv /\ [SettingsNext]_settingsVars => SettingsInv'
<1> SUFFICES ASSUME SettingsInv, [SettingsNext]_settingsVars PROVE SettingsInv'
  OBVIOUS
<1>1. ASSUME NEW r \in Puts, PutSettings(r) PROVE SettingsInv'
  <2>1. PICK cfg \in Configs :
          StartPut(r, cfg, IF ~cfg.on THEN "set" ELSE IF cfg.secret = NoSecret THEN "fill" ELSE "ping", NoRow)
    BY <1>1 DEF PutSettings
  <2>2. cfg.on \in BOOLEAN
    BY DEF Configs
  <2>3. CASE cfg.on = FALSE
    <3>1. StartPut(r, cfg, "set", NoRow)
      BY <2>1, <2>3
    <3> QED BY <2>3, <3>1, Idles, StartPutKeeps DEF PutPlaces
  <2>4. CASE cfg.on = TRUE /\ cfg.secret = NoSecret
    <3>1. StartPut(r, cfg, "fill", NoRow)
      BY <2>1, <2>4
    <3> QED BY <2>4, <3>1, Idles, StartPutKeeps DEF PutPlaces
  <2>5. CASE cfg.on = TRUE /\ cfg.secret # NoSecret
    <3>1. StartPut(r, cfg, "ping", NoRow)
      BY <2>1, <2>5
    <3> QED BY <2>5, <3>1, Idles, StartPutKeeps DEF PutPlaces
  <2> QED BY <2>2, <2>3, <2>4, <2>5
<1>2. ASSUME NEW r \in Puts, UpdateChannel(r) PROVE SettingsInv'
  <2>1. PICK tag \in Tags, secret \in Secrets \cup {NoSecret}, type \in SecretKeys :
          StartPut(r, [on |-> FALSE, tag |-> tag, secret |-> secret], "merge",
                   [type |-> type, enc |-> Masked])
    BY <1>2 DEF UpdateChannel
  <2>2. [on |-> FALSE, tag |-> tag, secret |-> secret] \in Configs
    BY DEF Configs
  <2>3. [type |-> type, enc |-> Masked] \in ChannelRows /\ [type |-> type, enc |-> Masked].enc = Masked
    BY DEF SettingsInv, SettingsTypes, ChannelRows, Masked
  <2> QED BY <2>1, <2>2, <2>3, StartPutKeeps DEF PutPlaces
<1>3. CASE UNCHANGED settingsVars
  <2>1. SettingsTypes'
    BY <1>3 DEF settingsVars, SettingsInv, SettingsTypes
  <2> QED BY <1>3, <2>1 DEF settingsVars, SettingsInv, Checked, InPlace, Carries, CarriesAlone,
        RowAlone, Masked, EnteredOrErased, InForce
<1> QED BY <1>1, <1>2, <1>3, StatementKeeps, WriteS3Keeps, WriteChannelKeeps, BackendKeeps DEF SettingsNext

(* For any number of concurrent requests and callers: what is in force and *)
(* enabled was verified; unless two requests overlapped, the S3 secret and *)
(* a channel's under each key are the ones entered last, but for the keys  *)
(* of the types the channel was changed from, whose secrets are erased; and*)
(* Backend returns a backend for the bucket of a configuration that was in *)
(* force during the call.                                                  *)
THEOREM SettingsAreSafe == SettingsSpec => []SettingsSafe
<1>1. SettingsInv => SettingsSafe
  <2> SUFFICES ASSUME SettingsInv PROVE SettingsSafe
    OBVIOUS
  <2>1. Cardinality(cached) <= 1
    <3>1. cached = {} \/ \E b \in Configs : cached = {b}
      BY DEF SettingsInv, SettingsTypes
    <3>2. CASE cached = {}
      BY <3>2, FS_EmptySet
    <3>3. CASE \E b \in Configs : cached = {b}
      <4>1. Cardinality(cached) = 1
        BY <3>3, FS_Singleton
      <4> QED BY <4>1
    <3> QED BY <3>1, <3>2, <3>3
  <2>2. SettingsTypeOK
    BY <2>1 DEF SettingsInv, SettingsTypes, SettingsTypeOK, PutStates, PutPlaces, CallStates
  <2>3. SettingsVerified
    <3>1. Checked(stored) /\ stored.on \in BOOLEAN
      BY DEF SettingsInv, SettingsTypes, Configs
    <3> QED BY <3>1 DEF Checked, Bare, SettingsVerified
  <2>4. SettingsSecretKeptApart
    <3>1. InPlace /\ mixed \in BOOLEAN
      BY DEF SettingsInv, SettingsTypes
    <3> QED BY <3>1 DEF InPlace, EnteredOrErased, SettingsSecretKeptApart
  <2>5. BackendForBucket
    BY DEF SettingsInv, InForce, BackendForBucket
  <2> QED BY <2>2, <2>3, <2>4, <2>5 DEF SettingsSafe
<1>2. SettingsSpec => []SettingsInv
  BY SettingsInitially, SettingsSteps, PTL DEF SettingsSpec
<1> QED BY <1>1, <1>2, PTL

----------------------------------------------------------------------------
(* CameraRow. While requests do not overlap, only one is under way, and    *)
(* what it has read is still what the row holds.                           *)

Cols == {"plain", "urls", "imaging", "endpoint", "profile"}
AnyValue == (0 .. MaxEdits) \cup Devices \cup {None}
CamRows == {col \in [Cols -> AnyValue] : \A f \in Cols : col[f] \in Values(f)}
Parts == {g \in UNION {[D -> AnyValue] : D \in SUBSET Cols} : \A f \in DOMAIN g : g[f] \in Values(f)}
EditPCs == {"idle", "probe", "token", "get", "write"}
EditRecords ==
    [pc : EditPCs, given : Parts, seen : Devices \cup {None}, cur : CamRows \cup {NoFields}]

CamTypes ==
    /\ camera \in [there : BOOLEAN, enabled : BOOLEAN, status : 0 .. MaxEdits, col : CamRows]
    /\ written \in [enabled : BOOLEAN, status : 0 .. MaxEdits, col : CamRows]
    /\ edit \in [Edits -> EditRecords]
    /\ \A e \in Edits : edit[e].pc = "write" => edit[e].cur \in CamRows
    /\ edits \in 0 .. MaxEdits /\ crossed \in BOOLEAN

(* A request that takes the endpoint away takes the profile away, and one  *)
(* that brings a profile was told it by the device of the row.             *)
Clears(g) == "endpoint" \in DOMAIN g /\ g["endpoint"] = None
Brings(g) == "profile" \in DOMAIN g /\ g["profile"] # None
Consistent(g) ==
    /\ Clears(g) => "profile" \in DOMAIN g /\ g["profile"] = None
    /\ "endpoint" \in DOMAIN g => ~Brings(g)

Alone == \A e, d \in Edits : edit[e].pc # "idle" /\ edit[d].pc # "idle" => e = d
UpToDate(e) ==
    /\ edit[e].pc \in {"probe", "token"} => camera.col["endpoint"] # None
    /\ edit[e].pc \in {"get", "write"} /\ Brings(edit[e].given) => camera.col["endpoint"] # None
    /\ edit[e].pc = "write" => edit[e].cur = Merged(edit[e].given, camera.col)

CamInv ==
    /\ CamTypes /\ CamOwnColumns
    /\ \A e \in Edits : Consistent(edit[e].given)
    /\ ~crossed => /\ Alone /\ camera.col = written.col
                   /\ camera.col["endpoint"] = None => camera.col["profile"] = None
                   /\ \A e \in Edits : UpToDate(e)

LEMMA RowFields ==
  ASSUME NEW col \in CamRows
  PROVE  /\ DOMAIN col = Cols /\ \A f \in Cols : col[f] \in Values(f)
         /\ col["endpoint"] \in Devices \cup {None} /\ col["profile"] \in Devices \cup {None}
         /\ col["imaging"] \in Devices \cup {None}
BY DEF CamRows, Cols, Values

LEMMA MergedIsRow ==
  ASSUME NEW g \in Parts, NEW col \in CamRows
  PROVE  /\ Merged(g, col) \in CamRows
         /\ \A f \in Cols : Merged(g, col)[f] = IF f \in DOMAIN g THEN g[f] ELSE col[f]
<1>1. DOMAIN col = Cols /\ \A f \in Cols : col[f] \in Values(f) /\ col[f] \in AnyValue
  BY DEF CamRows
<1>2. \A f \in DOMAIN g : g[f] \in Values(f) /\ g[f] \in AnyValue
  BY DEF Parts
<1>3. Merged(g, col) = [f \in Cols |-> IF f \in DOMAIN g THEN g[f] ELSE col[f]]
  BY <1>1 DEF Merged
<1>4. \A f \in Cols : /\ (IF f \in DOMAIN g THEN g[f] ELSE col[f]) \in Values(f)
                      /\ (IF f \in DOMAIN g THEN g[f] ELSE col[f]) \in AnyValue
  BY <1>1, <1>2
<1> QED BY <1>3, <1>4 DEF CamRows

LEMMA NoFieldsIsPart == NoFields \in Parts /\ DOMAIN NoFields = {} /\ Consistent(NoFields)
<1>1. DOMAIN NoFields = {}
  BY DEF NoFields
<1>2. NoFields \in [{} -> AnyValue] /\ {} \in SUBSET Cols
  BY DEF NoFields
<1> QED BY <1>1, <1>2 DEF Parts, Consistent, Clears, Brings

LEMMA NoEditType ==
  /\ NoEdit \in EditRecords /\ NoEdit.pc = "idle" /\ NoEdit.given = NoFields
  /\ Consistent(NoEdit.given)
BY NoFieldsIsPart DEF NoEdit, EditRecords, EditPCs

(* What updateCamera takes from the body.                                  *)
LEMMA GivenIsPart ==
  ASSUME CamTypes, edits < MaxEdits,
         NEW fields \in SUBSET {"plain", "urls", "endpoint"}, NEW endpoint \in Devices \cup {None}
  PROVE  /\ Given(fields, endpoint) \in Parts
         /\ Consistent(Given(fields, endpoint)) /\ ~Brings(Given(fields, endpoint))
<1> DEFINE cleared == IF "endpoint" \in fields /\ endpoint = None THEN {"profile"} ELSE {}
           D == fields \cup cleared
           g == Given(fields, endpoint)
<1>1. edits + 1 \in 0 .. MaxEdits
  BY CameraAssumption DEF CamTypes
<1>2. g = [f \in D |-> IF f = "endpoint" THEN endpoint ELSE IF f = "profile" THEN None ELSE edits + 1]
  BY DEF Given
<1>3. D \in SUBSET Cols
  BY DEF Cols
<1>4. D \subseteq {"plain", "urls", "endpoint", "profile"}
  OBVIOUS
<1> HIDE DEF D, g
<1>5. DOMAIN g = D
  BY <1>2
<1>6. \A f \in D : g[f] \in AnyValue /\ g[f] \in Values(f)
  BY <1>1, <1>2, <1>4 DEF AnyValue, Values
<1>7. g \in [D -> AnyValue]
  BY <1>2, <1>6
<1>8. g \in Parts
  BY <1>3, <1>5, <1>6, <1>7 DEF Parts
<1>9. "profile" \in D => g["profile"] = None
  BY <1>2
<1>10. Clears(g) => "profile" \in D
  BY <1>2, <1>5 DEF Clears, D
<1> QED BY <1>5, <1>8, <1>9, <1>10 DEF Consistent, Brings, g

(* A request starts: from now on, unless there is another, it is alone.    *)
LEMMA CamStarts ==
  ASSUME CamInv, NEW e \in Edits, NEW x \in EditRecords, StartUpdate(e, x),
         x.pc \in {"get", "probe", "token"}, Consistent(x.given),
         x.pc # "get" => camera.col["endpoint"] # None,
         x.pc = "get" => ~Brings(x.given)
  PROVE  CamInv'
<1>1. /\ edit' = [edit EXCEPT ![e] = x] /\ edit \in [Edits -> EditRecords]
      /\ UNCHANGED <<camera, written>> /\ edits' \in 0 .. MaxEdits
      /\ edit[e].pc = "idle" /\ crossed' = (crossed \/ \E o \in Edits : edit[o].pc # "idle")
  BY CameraAssumption DEF StartUpdate, SetEdit, CamInv, CamTypes
<1>2. edit'[e] = x /\ \A d \in Edits : d # e => edit'[d] = edit[d]
  BY <1>1
<1>3. crossed' \in BOOLEAN /\ edit' \in [Edits -> EditRecords]
  BY <1>1 DEF CamInv, CamTypes
<1>4. CamTypes'
  BY <1>1, <1>2, <1>3 DEF CamInv, CamTypes
<1>5. \A d \in Edits : Consistent(edit'[d].given)
  BY <1>2 DEF CamInv
<1>6. ASSUME ~crossed'
      PROVE  /\ Alone' /\ camera'.col = written'.col
             /\ camera'.col["endpoint"] = None => camera'.col["profile"] = None
             /\ \A d \in Edits : UpToDate(d)'
  <2>1. ~crossed /\ \A o \in Edits : edit[o].pc = "idle"
    BY <1>1, <1>6
  <2>2. Alone'
    BY <1>2, <2>1 DEF Alone
  <2>3. \A d \in Edits : UpToDate(d)'
    BY <1>1, <1>2, <2>1 DEF UpToDate
  <2> QED BY <1>1, <2>1, <2>2, <2>3 DEF CamInv
<1>7. CamOwnColumns'
  BY <1>1 DEF CamInv, CamOwnColumns
<1> QED BY <1>4, <1>5, <1>6, <1>7 DEF CamInv

(* A request goes on, and nothing of the row changes.                      *)
LEMMA CamGoesOn ==
  ASSUME CamInv, NEW e \in Edits, NEW x \in EditRecords,
         edit' = [edit EXCEPT ![e] = x], UNCHANGED <<camera, edits, written, crossed>>,
         edit[e].pc # "idle", Consistent(x.given),
         x.pc = "write" => x.cur \in CamRows,
         ~crossed => /\ x.pc \in {"probe", "token"} => camera.col["endpoint"] # None
                     /\ x.pc \in {"get", "write"} /\ Brings(x.given) => camera.col["endpoint"] # None
                     /\ x.pc = "write" => x.cur = Merged(x.given, camera.col)
  PROVE  CamInv'
<1>1. edit'[e] = x /\ (\A d \in Edits : d # e => edit'[d] = edit[d]) /\ edit' \in [Edits -> EditRecords]
  BY DEF CamInv, CamTypes
<1>2. CamTypes'
  BY <1>1 DEF CamInv, CamTypes
<1>3. \A d \in Edits : Consistent(edit'[d].given)
  BY <1>1 DEF CamInv
<1>4. ASSUME ~crossed'
      PROVE  /\ Alone' /\ camera'.col = written'.col
             /\ camera'.col["endpoint"] = None => camera'.col["profile"] = None
             /\ \A d \in Edits : UpToDate(d)'
  <2>1. Alone /\ \A d \in Edits : UpToDate(d)
    BY <1>4 DEF CamInv
  <2>2. Alone'
    BY <1>1, <2>1 DEF Alone
  <2>3. \A d \in Edits : UpToDate(d)'
    BY <1>1, <1>4, <2>1 DEF UpToDate
  <2> QED BY <1>4, <2>2, <2>3 DEF CamInv
<1> QED BY <1>2, <1>3, <1>4 DEF CamInv, CamOwnColumns

LEMMA CamDeviceAnswers == ASSUME CamInv, NEW e \in Edits, DeviceAnswers(e) PROVE CamInv'
<1> DEFINE seen == edit[e].seen
<1>2. edit[e] \in EditRecords /\ seen \in Devices \cup {None} /\ edits \in 0 .. MaxEdits
  BY DEF CamInv, CamTypes, EditRecords
<1>3. PICK told : /\ edit' = [edit EXCEPT ![e] = [edit[e] EXCEPT !.pc = "get", !.given = told]]
                   /\ \/ edit[e].pc = "probe" /\ told \in {[profile |-> seen], [profile |-> seen, urls |-> edits]}
                      \/ edit[e].pc = "token" /\ told = [imaging |-> seen]
  BY DEF DeviceAnswers, SetEdit
<1>4. told \in Parts /\ Consistent(told) /\ "endpoint" \notin DOMAIN told
  <2>1. CASE told = [profile |-> seen]
    <3>1. DOMAIN told = {"profile"} /\ told["profile"] = seen
      BY <2>1
    <3>2. told \in [{"profile"} -> AnyValue] /\ {"profile"} \in SUBSET Cols
      BY <1>2, <2>1 DEF AnyValue, Cols
    <3> QED BY <1>2, <3>1, <3>2 DEF Parts, Values, Consistent, Clears
  <2>2. CASE told = [profile |-> seen, urls |-> edits]
    <3>1. DOMAIN told = {"profile", "urls"} /\ told["profile"] = seen /\ told["urls"] = edits
      BY <2>2
    <3>2. told \in [{"profile", "urls"} -> AnyValue] /\ {"profile", "urls"} \in SUBSET Cols
      BY <1>2, <2>2 DEF AnyValue, Cols
    <3> QED BY <1>2, <3>1, <3>2 DEF Parts, Values, Consistent, Clears
  <2>3. CASE told = [imaging |-> seen]
    <3>1. DOMAIN told = {"imaging"} /\ told["imaging"] = seen
      BY <2>3
    <3>2. told \in [{"imaging"} -> AnyValue] /\ {"imaging"} \in SUBSET Cols
      BY <1>2, <2>3 DEF AnyValue, Cols
    <3> QED BY <1>2, <3>1, <3>2 DEF Parts, Values, Consistent, Clears
  <2> QED BY <1>3, <2>1, <2>2, <2>3
<1> DEFINE x == [edit[e] EXCEPT !.pc = "get", !.given = told]
<1>5. x \in EditRecords /\ x.pc = "get" /\ x.given = told
  BY <1>2, <1>4 DEF EditRecords, EditPCs
<1>6. edit[e].pc \in {"probe", "token"} /\ edit' = [edit EXCEPT ![e] = x]
  BY <1>3
<1>7. ~crossed => camera.col["endpoint"] # None
  BY <1>6 DEF CamInv, UpToDate
<1>8. UNCHANGED <<camera, edits, written, crossed>>
  BY DEF DeviceAnswers
<1> HIDE DEF x
<1> QED BY <1>4, <1>5, <1>6, <1>7, <1>8, CamGoesOn

LEMMA CamDeviceFails == ASSUME CamInv, NEW e \in Edits, DeviceFails(e) PROVE CamInv'
<1>1. /\ edit' = [edit EXCEPT ![e] = NoEdit] /\ UNCHANGED <<camera, edits, written, crossed>>
      /\ edit[e].pc # "idle"
  BY DEF DeviceFails, SetEdit
<1> QED BY <1>1, NoEditType, CamGoesOn

LEMMA CamGets == ASSUME CamInv, NEW e \in Edits, GetAndMerge(e) PROVE CamInv'
<1>1. /\ edit[e] \in EditRecords /\ edit[e].given \in Parts /\ Consistent(edit[e].given)
      /\ camera.col \in CamRows /\ edit[e].pc = "get" /\ UNCHANGED <<camera, edits, written, crossed>>
  BY DEF CamInv, CamTypes, EditRecords, GetAndMerge
<1> DEFINE cur == Merged(edit[e].given, camera.col)
           x == [edit[e] EXCEPT !.pc = "write", !.cur = cur]
<1>2. CASE camera.there
  <2>1. edit' = [edit EXCEPT ![e] = x]
    BY <1>2 DEF GetAndMerge, SetEdit
  <2>2. cur \in CamRows
    BY <1>1, MergedIsRow
  <2> HIDE DEF cur
  <2>3. x \in EditRecords /\ x.pc = "write" /\ x.cur = cur /\ x.given = edit[e].given
    BY <1>1, <2>2 DEF EditRecords, EditPCs
  <2>4. ~crossed /\ Brings(edit[e].given) => camera.col["endpoint"] # None
    BY <1>1 DEF CamInv, UpToDate
  <2> HIDE DEF x
  <2>5. x.cur = Merged(x.given, camera.col)
    BY <2>3 DEF cur
  <2> QED BY <1>1, <2>1, <2>2, <2>3, <2>4, <2>5, CamGoesOn
<1>3. CASE ~camera.there
  <2>1. edit' = [edit EXCEPT ![e] = NoEdit]
    BY <1>3 DEF GetAndMerge, SetEdit
  <2> QED BY <1>1, <2>1, NoEditType, CamGoesOn
<1> QED BY <1>2, <1>3

(* The write of the only request takes the row to where its fields say.    *)
LEMMA CamWrites == ASSUME CamInv, NEW e \in Edits, WriteBack(e) PROVE CamInv'
<1>1. /\ edit[e] \in EditRecords /\ edit[e].given \in Parts /\ Consistent(edit[e].given)
      /\ camera.col \in CamRows /\ written.col \in CamRows /\ edit[e].cur \in CamRows
      /\ edit[e].pc = "write" /\ edit' = [edit EXCEPT ![e] = NoEdit] /\ UNCHANGED <<edits, crossed>>
  BY DEF CamInv, CamTypes, EditRecords, WriteBack, SetEdit
<1>2. CASE camera.there
  <2> DEFINE g == edit[e].given
             was == written.col
  <2>1. camera' = [camera EXCEPT !.col = edit[e].cur]
    BY <1>2 DEF WriteBack
  <2>2. written' = [written EXCEPT !.col = Merged(g, was)]
    BY <1>2 DEF WriteBack
  <2>3. Merged(g, was) \in CamRows
    BY <1>1, MergedIsRow
  <2>4. /\ camera'.col = edit[e].cur /\ camera'.enabled = camera.enabled /\ camera'.status = camera.status
        /\ camera' \in [there : BOOLEAN, enabled : BOOLEAN, status : 0 .. MaxEdits, col : CamRows]
    BY <1>1, <2>1 DEF CamInv, CamTypes
  <2>5. /\ written'.col = Merged(g, was) /\ written'.enabled = written.enabled
        /\ written'.status = written.status
        /\ written' \in [enabled : BOOLEAN, status : 0 .. MaxEdits, col : CamRows]
    <3> HIDE DEF g, was
    <3> QED BY <2>2, <2>3 DEF CamInv, CamTypes
  <2>6. edit'[e] = NoEdit /\ (\A d \in Edits : d # e => edit'[d] = edit[d]) /\ edit' \in [Edits -> EditRecords]
    BY <1>1, NoEditType DEF CamInv, CamTypes
  <2>7. CamTypes'
    BY <1>1, <2>4, <2>5, <2>6, NoEditType DEF CamInv, CamTypes
  <2>8. CamOwnColumns'
    BY <2>4, <2>5 DEF CamInv, CamOwnColumns
  <2>9. \A d \in Edits : Consistent(edit'[d].given)
    BY <2>6, NoEditType DEF CamInv
  <2>10. ASSUME ~crossed'
         PROVE  /\ Alone' /\ camera'.col = written'.col
                /\ camera'.col["endpoint"] = None => camera'.col["profile"] = None
                /\ \A d \in Edits : UpToDate(d)'
    <3>1. /\ Alone /\ camera.col = written.col /\ UpToDate(e)
          /\ camera.col["endpoint"] = None => camera.col["profile"] = None
      BY <1>1, <2>10 DEF CamInv
    <3>2. camera'.col = Merged(g, camera.col) /\ camera'.col = written'.col
      BY <1>1, <2>4, <2>5, <3>1 DEF UpToDate
    <3>3. \A f \in Cols : camera'.col[f] = IF f \in DOMAIN g THEN g[f] ELSE camera.col[f]
      <4>1. g \in Parts /\ camera.col \in CamRows
        BY <1>1
      <4> HIDE DEF g
      <4>2. \A f \in Cols : Merged(g, camera.col)[f] = IF f \in DOMAIN g THEN g[f] ELSE camera.col[f]
        BY <4>1, MergedIsRow
      <4> QED BY <3>2, <4>2
    <3>4. Brings(g) => camera.col["endpoint"] # None
      BY <1>1, <3>1 DEF UpToDate
    <3>5. camera'.col["endpoint"] = None => camera'.col["profile"] = None
      <4>1. Consistent(g)
        BY <1>1
      <4>2. "endpoint" \in Cols /\ "profile" \in Cols
        BY DEF Cols
      <4> HIDE DEF g
      <4> QED BY <3>1, <3>3, <3>4, <4>1, <4>2 DEF Consistent, Clears, Brings
    <3>6. \A d \in Edits : edit'[d].pc = "idle"
      BY <1>1, <2>6, <3>1, NoEditType DEF Alone
    <3> QED BY <3>2, <3>5, <3>6 DEF Alone, UpToDate
  <2> QED BY <2>7, <2>8, <2>9, <2>10 DEF CamInv
<1>3. CASE ~camera.there
  <2>1. UNCHANGED <<camera, written>>
    BY <1>3 DEF WriteBack
  <2> QED BY <1>1, <2>1, NoEditType, CamGoesOn
<1> QED BY <1>2, <1>3

(* The columns of other writers, and the end of the row.                   *)
LEMMA CamOthers == ASSUME CamInv, SetEnabled \/ SetStatus \/ DeleteCamera PROVE CamInv'
<1>1. /\ camera'.col = camera.col /\ written'.col = written.col /\ UNCHANGED <<edit, crossed>>
      /\ camera' \in [there : BOOLEAN, enabled : BOOLEAN, status : 0 .. MaxEdits, col : CamRows]
      /\ written' \in [enabled : BOOLEAN, status : 0 .. MaxEdits, col : CamRows]
      /\ edits' \in 0 .. MaxEdits /\ CamOwnColumns'
  <2>0. /\ camera \in [there : BOOLEAN, enabled : BOOLEAN, status : 0 .. MaxEdits, col : CamRows]
        /\ written \in [enabled : BOOLEAN, status : 0 .. MaxEdits, col : CamRows]
        /\ edits \in 0 .. MaxEdits /\ MaxEdits \in Nat /\ CamOwnColumns
    BY CameraAssumption DEF CamInv, CamTypes
  <2> USE <2>0 DEF CamOwnColumns
  <2>1. CASE SetEnabled
    <3>1. /\ camera' = [camera EXCEPT !.enabled = ~camera.enabled]
          /\ written' = [written EXCEPT !.enabled = ~camera.enabled]
          /\ edits' = edits + 1 /\ edits < MaxEdits /\ UNCHANGED <<edit, crossed>>
      BY <2>1 DEF SetEnabled
    <3>2. edits' \in 0 .. MaxEdits
      BY <3>1
    <3> QED BY <3>1, <3>2
  <2>2. CASE SetStatus
    <3>1. /\ camera' = [camera EXCEPT !.status = edits + 1]
          /\ written' = [written EXCEPT !.status = edits + 1]
          /\ edits' = edits + 1 /\ edits < MaxEdits /\ UNCHANGED <<edit, crossed>>
      BY <2>2 DEF SetStatus
    <3>2. edits + 1 \in 0 .. MaxEdits
      BY <3>1
    <3> QED BY <3>1, <3>2
  <2>3. CASE DeleteCamera
    BY <2>3 DEF DeleteCamera
  <2> QED BY <2>1, <2>2, <2>3
<1>2. CamTypes'
  BY <1>1 DEF CamInv, CamTypes
<1>3. (\A d \in Edits : Consistent(edit'[d].given)) /\ (Alone => Alone')
      /\ \A d \in Edits : UpToDate(d) => UpToDate(d)'
  BY <1>1 DEF CamInv, Alone, UpToDate
<1> QED BY <1>1, <1>2, <1>3 DEF CamInv

LEMMA CamBegins == CamInit => CamInv
<1> SUFFICES ASSUME CamInit PROVE CamInv
  OBVIOUS
<1>1. PICK endpoint \in Devices \cup {None} :
        camera = [there |-> TRUE, enabled |-> TRUE, status |-> 0,
                  col |-> [plain |-> 0, urls |-> 0, imaging |-> None,
                           endpoint |-> endpoint, profile |-> None]]
  BY DEF CamInit
<1> DEFINE col == [plain |-> 0, urls |-> 0, imaging |-> None, endpoint |-> endpoint, profile |-> None]
<1>2. DOMAIN col = Cols /\ col["plain"] = 0 /\ col["urls"] = 0 /\ col["imaging"] = None
      /\ col["endpoint"] = endpoint /\ col["profile"] = None
  BY DEF Cols
<1>3. \A f \in Cols : col[f] \in AnyValue /\ col[f] \in Values(f)
  BY <1>2, CameraAssumption DEF AnyValue, Values, Cols
<1>4. col \in [Cols -> AnyValue]
  BY <1>3 DEF Cols
<1>5. col \in CamRows
  BY <1>3, <1>4 DEF CamRows
<1>6. camera.col = col /\ written = [enabled |-> TRUE, status |-> 0, col |-> camera.col]
  BY <1>1 DEF CamInit
<1> HIDE DEF col
<1>7. edit = [e \in Edits |-> NoEdit] /\ edits = 0 /\ crossed = FALSE
  BY DEF CamInit
<1>8. /\ camera \in [there : BOOLEAN, enabled : BOOLEAN, status : 0 .. MaxEdits, col : CamRows]
      /\ written \in [enabled : BOOLEAN, status : 0 .. MaxEdits, col : CamRows]
      /\ camera.enabled = TRUE /\ camera.status = 0
  BY <1>1, <1>5, <1>6, CameraAssumption DEF col
<1>9. CamTypes
  BY <1>7, <1>8, NoEditType, CameraAssumption DEF CamTypes
<1> QED BY <1>2, <1>6, <1>7, <1>8, <1>9, NoEditType
    DEF CamInv, CamOwnColumns, Alone, UpToDate

LEMMA CamKept == CamInv /\ [CamNext]_camVars => CamInv'
<1> SUFFICES ASSUME CamInv, [CamNext]_camVars PROVE CamInv'
  OBVIOUS
<1>1. CASE UNCHANGED camVars
  BY <1>1 DEF camVars, CamInv, CamTypes, CamOwnColumns, Alone, UpToDate
<1>2. ASSUME NEW e \in Edits, UpdateCamera(e) PROVE CamInv'
  <2>1. PICK fields \in SUBSET {"plain", "urls", "endpoint"}, endpoint \in Devices \cup {None} :
          StartUpdate(e, [NoEdit EXCEPT !.pc = "get", !.given = Given(fields, endpoint)])
    BY <1>2 DEF UpdateCamera
  <2> DEFINE g == Given(fields, endpoint)
             x == [NoEdit EXCEPT !.pc = "get", !.given = g]
  <2>2. g \in Parts /\ Consistent(g) /\ ~Brings(g)
    BY <2>1, GivenIsPart DEF StartUpdate, CamInv
  <2> HIDE DEF g
  <2>3. x \in EditRecords /\ x.pc = "get" /\ x.given = g
    BY <2>2, NoEditType DEF EditRecords, EditPCs
  <2>4. StartUpdate(e, x)
    BY <2>1 DEF g
  <2> HIDE DEF x
  <2> QED BY <2>2, <2>3, <2>4, CamStarts
<1>3. ASSUME NEW e \in Edits, OnvifSync(e) \/ ImagingSourceToken(e) PROVE CamInv'
  <2>1. camera.col["endpoint"] \in Devices \cup {None} /\ camera.col["endpoint"] = camera.col.endpoint
    BY RowFields DEF CamInv, CamTypes
  <2>2. PICK pc \in {"probe", "token"} :
          StartUpdate(e, [NoEdit EXCEPT !.pc = pc, !.seen = camera.col.endpoint])
    BY <1>3 DEF OnvifSync, ImagingSourceToken
  <2> DEFINE x == [NoEdit EXCEPT !.pc = pc, !.seen = camera.col.endpoint]
  <2>3. x \in EditRecords /\ x.pc = pc /\ x.given = NoEdit.given
    BY <2>1, NoEditType DEF EditRecords, EditPCs
  <2>4. camera.col["endpoint"] # None
    BY <1>3, <2>1 DEF OnvifSync, ImagingSourceToken
  <2>5. StartUpdate(e, x)
    BY <2>2
  <2> HIDE DEF x
  <2> QED BY <2>2, <2>3, <2>4, <2>5, NoEditType, CamStarts
<1> QED BY <1>1, <1>2, <1>3, CamDeviceAnswers, CamDeviceFails, CamGets, CamWrites, CamOthers
    DEF CamNext

(* What a request gives a camera stays as long as updates do not overlap,  *)
(* and whether it is enabled and its status are never lost to an update    *)
(* (camera.go:247, 303; SetEnabled, SetStatus).                            *)
THEOREM CamerasKeepEdits == CamSpec => []CamSafe
<1>1. CamInv => CamSafe
  <2> SUFFICES ASSUME CamInv PROVE CamSafe
    OBVIOUS
  <2>1. /\ camera.col \in CamRows
        /\ camera \in [there : BOOLEAN, enabled : BOOLEAN, status : 0 .. MaxEdits, col : CamRows]
        /\ written \in [enabled : BOOLEAN, status : 0 .. MaxEdits, col : CamRows]
    BY DEF CamInv, CamTypes
  <2>2. DOMAIN camera.col = Cols /\ \A f \in Cols : camera.col[f] \in Values(f)
    BY <2>1, RowFields
  <2>3. \A e \in Edits : edit[e].pc \in EditPCs /\ edit[e].seen \in Devices \cup {None}
    BY DEF CamInv, CamTypes, EditRecords
  <2>4. CamTypeOK
    BY <2>1, <2>2, <2>3 DEF CamTypeOK, Cols, EditPCs, CamInv, CamTypes
  <2>5. camera.col["endpoint"] = camera.col.endpoint /\ camera.col["profile"] = camera.col.profile
    OBVIOUS
  <2> QED BY <2>4, <2>5 DEF CamSafe, CamInv, CamEditsKeptApart, CamProfileHasEndpoint
<1> QED BY CamBegins, CamKept, <1>1, PTL DEF CamSpec

(* A request under way does not bring a deleted camera back.               *)
THEOREM CameraGoneForGood == CamSpec => [][CamGoneForGood]_camVars
<1>1. [CamNext]_camVars => [CamGoneForGood]_camVars
  BY DEF CamNext, camVars, CamGoneForGood, UpdateCamera, OnvifSync, ImagingSourceToken, StartUpdate,
         DeviceAnswers, DeviceFails, GetAndMerge, WriteBack, SetEnabled, SetStatus, DeleteCamera
<1> QED BY <1>1, PTL DEF CamSpec

----------------------------------------------------------------------------
(* EventFeed. First what the table keeps whoever reads it: a snapshot is   *)
(* attached once, by the goroutine that put the file, and its file is only *)
(* removed for a request that read the path of a row it then deleted.      *)

Deleting == [step : {"idle", "get", "exec", "unlink", "panic"}, event : 0..MaxEvent,
             path : BOOLEAN]

FeedTable ==
    /\ ts \in [Ids -> 0..Gone] /\ acked \subseteq Ids
    /\ path \subseteq Rows /\ file \subseteq Ids
    /\ attach \in [Ids -> {"none", "put", "set", "done"}]
    /\ del \in [Deleters -> Deleting]

AttachedOnce ==
    /\ \A e \in Ids : attach[e] = "none" <=> ts[e] = NoTs
    /\ \A e \in path : e \in file /\ attach[e] = "done"
    /\ \A e \in Ids : attach[e] = "set" => e \in file
    /\ \A d \in Deleters :
          /\ del[d].step # "idle" => del[d].event \in Ids /\ ts[del[d].event] # NoTs
          /\ del[d].step = "exec" /\ del[d].path => attach[del[d].event] = "done"
          /\ del[d].step = "unlink" => attach[del[d].event] = "done" /\ ts[del[d].event] = Gone

TableInv == FeedTable /\ AttachedOnce

LEMMA TableBegins == FeedInit => TableInv
BY FeedAssumption DEF FeedInit, TableInv, FeedTable, AttachedOnce, Deleting, NoDelete, Gone, NoTs,
   Rows, Ids

LEMMA TableKept == TableInv /\ [FeedNext]_feedVars => TableInv'
<1> SUFFICES ASSUME TableInv, [FeedNext]_feedVars PROVE TableInv'
  OBVIOUS
<1> USE DEF TableInv
<1>1. CASE UNCHANGED tableVars
  BY <1>1 DEF tableVars, FeedTable, AttachedOnce, Rows
<1>2. ASSUME NEW e \in Ids, NEW t \in 1..MaxTs, Insert(e, t) PROVE TableInv'
  <2>1. e \notin path /\ \A f \in Ids : ts'[f] = IF f = e THEN t ELSE ts[f]
    BY <1>2 DEF Insert, FeedTable, Rows, NoTs
  <2>2. \A f \in Ids : attach'[f] = IF f = e THEN IF e \in Pictured THEN "put" ELSE "done"
                                    ELSE attach[f]
    BY <1>2 DEF Insert, FeedTable
  <2>3. FeedTable'
    BY <1>2, <2>1, FeedAssumption DEF Insert, FeedTable, Rows, Gone
  <2>4. AttachedOnce'
    BY <1>2, <2>1, <2>2, FeedAssumption DEF Insert, FeedTable, AttachedOnce, NoTs, Gone
  <2> QED BY <2>3, <2>4
<1>3. ASSUME NEW e \in Ids, Ack(e) PROVE TableInv'
  BY <1>3 DEF Ack, FeedTable, AttachedOnce, Rows
<1>4. ASSUME NEW e \in Ids, PutSnapshot(e) PROVE TableInv'
  <2>1. FeedTable'
    BY <1>4 DEF PutSnapshot, FeedTable, Rows
  <2>2. AttachedOnce'
    BY <1>4 DEF PutSnapshot, FeedTable, AttachedOnce
  <2> QED BY <2>1, <2>2
<1>5. ASSUME NEW e \in Ids, SetSnapshot(e) PROVE TableInv'
  <2>1. FeedTable'
    BY <1>5 DEF SetSnapshot, FeedTable, Rows
  <2>2. AttachedOnce'
    BY <1>5 DEF SetSnapshot, FeedTable, AttachedOnce
  <2> QED BY <2>1, <2>2
<1>6. ASSUME NEW d \in Deleters, NEW e \in Ids, LoadForDelete(d, e) PROVE TableInv'
  <2>1. \A x \in Deleters : del'[x] = IF x = d THEN [step |-> "get", event |-> e, path |-> FALSE]
                                      ELSE del[x]
    BY <1>6 DEF LoadForDelete, FeedTable
  <2>2. ts[e] # NoTs /\ e \in 0..MaxEvent
    BY <1>6 DEF LoadForDelete, Rows, Ids, NoTs
  <2>3. FeedTable'
    BY <1>6, <2>1, <2>2 DEF LoadForDelete, FeedTable, Rows, Deleting
  <2>4. AttachedOnce'
    BY <1>6, <2>1, <2>2 DEF LoadForDelete, AttachedOnce
  <2> QED BY <2>3, <2>4
<1>7. ASSUME NEW d \in Deleters, GetForDelete(d) PROVE TableInv'
  <2>1. del[d] \in Deleting
    BY DEF FeedTable
  <2> DEFINE s == IF del[d].event \in Rows THEN "exec" ELSE "panic"
             p == del[d].event \in path
  <2>2. s \in {"exec", "panic"} /\ p \in BOOLEAN
    OBVIOUS
  <2>3. (s = "exec" => del[d].event \in Rows) /\ (p => del[d].event \in path)
    OBVIOUS
  <2>4. del' = [del EXCEPT ![d] = [step |-> s, event |-> del[d].event, path |-> p]]
    BY <1>7 DEF GetForDelete
  <2> HIDE DEF s, p
  <2>8. \A x \in Deleters : del'[x] = IF x = d THEN [step |-> s, event |-> del[d].event, path |-> p]
                                        ELSE del[x]
    BY <2>4 DEF FeedTable
  <2>5. UNCHANGED <<ts, acked, path, file, attach>> /\ del[d].step = "get"
    BY <1>7 DEF GetForDelete
  <2>6. FeedTable'
    <3>1. [step |-> s, event |-> del[d].event, path |-> p] \in Deleting
      BY <2>1, <2>2 DEF Deleting
    <3>2. del' \in [Deleters -> Deleting]
      BY <2>4, <3>1 DEF FeedTable
    <3> QED BY <2>5, <3>2 DEF FeedTable, Rows
  <2>7. AttachedOnce'
    BY <2>2, <2>3, <2>5, <2>8 DEF FeedTable, AttachedOnce
  <2> QED BY <2>6, <2>7
<1>8. ASSUME NEW d \in Deleters, DeleteRow(d) PROVE TableInv'
  <2> DEFINE e == del[d].event
  <2>1. del[d] \in Deleting /\ e \in Ids
    BY <1>8 DEF DeleteRow, FeedTable, AttachedOnce
  <2>2. \A f \in Ids : ts'[f] = IF f = e THEN Gone ELSE ts[f]
    BY <1>8, <2>1 DEF DeleteRow, FeedTable
  <2>3. \A x \in Deleters :
           del'[x] = IF x = d
                     THEN [step |-> IF del[d].path THEN "unlink" ELSE "idle",
                           event |-> e, path |-> del[d].path]
                     ELSE del[x]
    BY <1>8, <2>1 DEF DeleteRow, FeedTable, Deleting
  <2>4. Gone # NoTs /\ Gone \in 0..Gone /\ Gone \notin 1..MaxTs
    BY FeedAssumption DEF Gone, NoTs
  <2>5. FeedTable'
    BY <1>8, <2>1, <2>2, <2>3, <2>4 DEF DeleteRow, FeedTable, Rows, Deleting
  <2>6. AttachedOnce'
    BY <1>8, <2>1, <2>2, <2>3, <2>4 DEF DeleteRow, AttachedOnce
  <2> QED BY <2>5, <2>6
<1>9. ASSUME NEW d \in Deleters, DeleteFile(d) PROVE TableInv'
  <2> DEFINE e == del[d].event
  <2>1. e \in Ids /\ ts[e] = Gone /\ attach[e] = "done"
    BY <1>9 DEF DeleteFile, AttachedOnce
  <2>2. e \notin path
    BY <2>1, FeedAssumption DEF FeedTable, Rows, Gone
  <2>3. \A x \in Deleters : del'[x] = IF x = d THEN NoDelete ELSE del[x]
    BY <1>9 DEF DeleteFile, FeedTable
  <2>4. FeedTable'
    BY <1>9, <2>3, FeedAssumption DEF DeleteFile, FeedTable, Rows, Deleting, NoDelete
  <2>5. AttachedOnce'
    BY <1>9, <2>1, <2>2, <2>3 DEF DeleteFile, AttachedOnce, NoDelete
  <2> QED BY <2>4, <2>5
<1>10. ASSUME NEW flag \in BOOLEAN, Begin(flag) PROVE TableInv'
  BY <1>1, <1>10 DEF Begin
<1>11. CASE NextPage
  BY <1>1, <1>11 DEF NextPage, tableVars
<1> QED BY <1>1, <1>2, <1>3, <1>4, <1>5, <1>6, <1>7, <1>8, <1>9, <1>10, <1>11
        DEF FeedNext, feedVars, tableVars

----------------------------------------------------------------------------
(* The reader. What it was given is in order and still means the same, and *)
(* an event that matched all along is behind it or still below its cursor. *)

FeedRow == [ts : 1..MaxTs, id : Ids]

LEMMA RowNumbers == \A r \in FeedRow : r.ts \in Nat /\ r.id \in Nat
<1> SUFFICES ASSUME NEW r \in FeedRow PROVE r.ts \in Nat /\ r.id \in Nat
  OBVIOUS
<1>1. r.ts \in 1..MaxTs /\ r.id \in 1..MaxEvent
  BY DEF FeedRow, Ids
<1> QED BY <1>1

(* The order of the feed on two rows as they were read.                    *)
RowAbove(r, q) == r.ts > q.ts \/ (r.ts = q.ts /\ r.id > q.id)

WasGiven(e) == \E i \in DOMAIN feed : feed[i].id = e
Ahead(e) ==
    feed = <<>> \/ ts[e] < feed[Len(feed)].ts \/ (ts[e] = feed[Len(feed)].ts /\ e < feed[Len(feed)].id)

FeedReader ==
    /\ feed \in Seq(FeedRow) /\ page \in {"first", "more", "end"} /\ unacked \in BOOLEAN
    /\ page = "first" => feed = <<>> /\ steady = {}
    /\ steady \subseteq Matching
    /\ \A i \in DOMAIN feed : ts[feed[i].id] \in {feed[i].ts, Gone}
    /\ \A i, j \in DOMAIN feed : i < j => RowAbove(feed[i], feed[j])
    /\ \A e \in steady : WasGiven(e) \/ (page = "more" /\ Ahead(e))

LEMMA ReaderBegins == FeedInit => FeedReader
<1> SUFFICES ASSUME FeedInit PROVE FeedReader
  OBVIOUS
<1>1. feed = <<>> /\ page = "first" /\ steady = {} /\ unacked = FALSE /\ DOMAIN feed = {}
  BY DEF FeedInit
<1>2. <<>> \in Seq(FeedRow)
  OBVIOUS
<1>3. /\ feed \in Seq(FeedRow) /\ page \in {"first", "more", "end"} /\ unacked \in BOOLEAN
      /\ steady \subseteq Matching
  BY <1>1, <1>2
<1> QED BY <1>1, <1>3 DEF FeedReader

(* A change of the table: rows may appear and go, and an event that        *)
(* changes or that no longer matches is not waited for.                    *)
LEMMA ReaderUndisturbed ==
  ASSUME TableInv, FeedReader, UNCHANGED <<page, feed, unacked>>,
         \A e \in Ids : ts[e] # NoTs => ts'[e] \in {ts[e], Gone},
         \A e \in Ids : ts[e] = Gone => ts'[e] = Gone,
         \A e \in steady' : e \in steady /\ ts'[e] = ts[e] /\ (unacked => e \notin acked')
  PROVE  FeedReader'
<1>1. \A i \in DOMAIN feed : feed[i].id \in Ids /\ feed[i].ts \in 1..MaxTs
  <2>1. feed \in Seq(FeedRow)
    BY DEF FeedReader
  <2>2. \A i \in DOMAIN feed : feed[i] \in FeedRow
    BY <2>1
  <2> QED BY <2>2 DEF FeedRow
<1>2. \A i \in DOMAIN feed : ts'[feed[i].id] \in {feed[i].ts, Gone}
  <2> SUFFICES ASSUME NEW i \in DOMAIN feed PROVE ts'[feed[i].id] \in {feed[i].ts, Gone}
    OBVIOUS
  <2>1. ts[feed[i].id] \in {feed[i].ts, Gone}
    BY DEF FeedReader
  <2>2. Gone # NoTs /\ feed[i].ts # NoTs
    BY <1>1, FeedAssumption DEF Gone, NoTs
  <2> QED BY <1>1, <2>1, <2>2
<1>3. steady' \subseteq Matching'
  BY DEF FeedReader, Matching, Rows
<1>4. \A e \in steady' : (WasGiven(e) \/ (page = "more" /\ Ahead(e)))'
  BY DEF FeedReader, WasGiven, Ahead
<1> QED BY <1>2, <1>3, <1>4 DEF FeedReader

LEMMA ReaderBeginsFeed ==
  ASSUME TableInv, FeedReader, NEW flag \in BOOLEAN, Begin(flag) PROVE FeedReader'
<1>1. /\ page' = "more" /\ feed' = <<>> /\ unacked' = flag /\ ts' = ts /\ acked' = acked
      /\ steady' = {e \in Rows : flag => e \notin acked}
  BY DEF Begin, tableVars
<1>2. steady' \subseteq Matching' /\ \A e \in steady' : (WasGiven(e) \/ (page = "more" /\ Ahead(e)))'
  BY <1>1 DEF Matching, Rows, Ahead
<1> QED BY <1>1, <1>2 DEF FeedReader

(* The rows of a page, in their order: the i-th has i - 1 above it.        *)
LEMMA SortedRows ==
  ASSUME TableInv, NEW S, S \subseteq Rows
  PROVE  /\ IsFiniteSet(S) /\ Cardinality(S) \in Nat
         /\ Sorted(S) \in Seq(S) /\ Len(Sorted(S)) = Cardinality(S)
         /\ \A i, j \in 1..Cardinality(S) : i < j => Above(Sorted(S)[i], Sorted(S)[j])
         /\ \A e \in S : \E i \in 1..Cardinality(S) : Sorted(S)[i] = e
<1> DEFINE n == Cardinality(S)
           R == {p \in S \X S : Above(p[1], p[2])}
<1>0. /\ Ids \subseteq Nat /\ \A e \in Ids : ts[e] \in Nat
      /\ S \subseteq Ids
  BY FeedAssumption DEF TableInv, FeedTable, Ids, Gone, Rows
<1>1. IsFiniteSet(S)
  <2>1. IsFiniteSet(Ids)
    BY FeedAssumption, FS_Interval DEF Ids
  <2> QED BY <1>0, <2>1, FS_Subset
<1>2. n \in Nat
  BY <1>1, FS_CardinalityType
<1>11. \A x, y \in S : x # y => Above(x, y) \/ Above(y, x)
  BY <1>0 DEF Above
<1>5. \A x, y \in S : <<x, y>> \in R <=> Above(x, y)
  OBVIOUS
<1> HIDE DEF R
<1>3. StrictOrder(S, R)
  <2>1. \A x, y, z \in S : Above(x, y) /\ Above(y, z) => Above(x, z)
    BY <1>0 DEF Above
  <2>2. \A x \in S : ~Above(x, x)
    BY <1>0 DEF Above
  <2> QED BY <1>5, <1>11, <2>1, <2>2 DEF StrictOrder
<1>4. \A x \in S : AboveIn(S, x) = Before(S, R, x)
  BY <1>5 DEF AboveIn, Before
<1>6. /\ \A x \in S : Cardinality(AboveIn(S, x)) \in 0..n - 1
      /\ \A x, y \in S : Above(x, y) <=> Cardinality(AboveIn(S, x)) < Cardinality(AboveIn(S, y))
      /\ \A i \in 0..n - 1 : \E x \in S : Cardinality(AboveIn(S, x)) = i
  <2>1. \A x \in S : Cardinality(AboveIn(S, x)) = Cardinality(Before(S, R, x))
    BY <1>4
  <2>2. /\ \A x \in S : Cardinality(Before(S, R, x)) \in 0..n - 1
        /\ \A x, y \in S : <<x, y>> \in R
                <=> Cardinality(Before(S, R, x)) < Cardinality(Before(S, R, y))
        /\ \A i \in 0..n - 1 : \E x \in S : Cardinality(Before(S, R, x)) = i
    BY <1>1, <1>3, EachPlace
  <2> HIDE DEF n
  <2>3. \A x \in S : Cardinality(AboveIn(S, x)) \in 0..n - 1
    BY <2>1, <2>2
  <2>4. \A x, y \in S : Above(x, y) <=> Cardinality(AboveIn(S, x)) < Cardinality(AboveIn(S, y))
    BY <1>5, <2>1, <2>2
  <2>5. \A i \in 0..n - 1 : \E x \in S : Cardinality(AboveIn(S, x)) = i
    BY <2>1, <2>2
  <2> QED BY <2>3, <2>4, <2>5
<1>7. Sorted(S) = [i \in 1..n |-> CHOOSE e \in S : Cardinality(AboveIn(S, e)) = i - 1]
  BY DEF Sorted
<1>8. \A i \in 1..n : Sorted(S)[i] \in S /\ Cardinality(AboveIn(S, Sorted(S)[i])) = i - 1
  <2> SUFFICES ASSUME NEW i \in 1..n
               PROVE  Sorted(S)[i] \in S /\ Cardinality(AboveIn(S, Sorted(S)[i])) = i - 1
    OBVIOUS
  <2>1. i - 1 \in 0..n - 1
    BY <1>2
  <2>2. \E x \in S : Cardinality(AboveIn(S, x)) = i - 1
    BY <1>6, <2>1
  <2> QED BY <1>7, <2>2
<1>9. Sorted(S) \in Seq(S) /\ Len(Sorted(S)) = n
  BY <1>2, <1>7, <1>8
<1>10. ASSUME NEW e \in S PROVE \E i \in 1..n : Sorted(S)[i] = e
  <2> DEFINE i == Cardinality(AboveIn(S, e)) + 1
  <2>1. i \in 1..n /\ i - 1 = Cardinality(AboveIn(S, e))
    BY <1>2, <1>6
  <2>2. Sorted(S)[i] \in S /\ Cardinality(AboveIn(S, Sorted(S)[i])) = Cardinality(AboveIn(S, e))
    BY <1>8, <2>1
  <2>3. ~Above(Sorted(S)[i], e) /\ ~Above(e, Sorted(S)[i])
    BY <1>2, <1>6, <2>2
  <2>4. Sorted(S)[i] = e
    BY <1>11, <2>2, <2>3
  <2> QED BY <2>1, <2>4
<1>12. ASSUME NEW i \in 1..n, NEW j \in 1..n, i < j
       PROVE  Above(Sorted(S)[i], Sorted(S)[j])
  <2>1. i - 1 < j - 1
    BY <1>2, <1>12
  <2> HIDE DEF n
  <2> QED BY <1>6, <1>8, <2>1
<1> QED BY <1>1, <1>2, <1>9, <1>10, <1>12

LEMMA ReaderTurnsPage == ASSUME TableInv, FeedReader, NextPage PROVE FeedReader'
<1> DEFINE S == Candidates
           n == Cardinality(S)
           rows == Sorted(S)
           more == Len(rows) > Limit
           m == IF more THEN Limit ELSE Len(rows)
           picked == SubSeq(rows, 1, m)
           g == [i \in DOMAIN picked |-> [ts |-> ts[picked[i]], id |-> picked[i]]]
           k == Len(feed)
<1>0. Limit \in Nat \ {0} /\ Ids \subseteq Nat /\ \A e \in Ids : ts[e] \in Nat
  BY FeedAssumption DEF TableInv, FeedTable, Ids, Gone
<1>1. /\ page = "more" /\ feed' = feed \o g /\ page' = (IF more THEN "more" ELSE "end")
      /\ UNCHANGED <<ts, acked, unacked, steady>>
  BY DEF NextPage
<1>2. feed \in Seq(FeedRow) /\ k \in Nat /\ DOMAIN feed = 1..k
      /\ (k = 0 <=> feed = <<>>) /\ \A i \in 1..k : feed[i] \in FeedRow
  BY DEF FeedReader
<1>3. S = {e \in Matching : Ahead(e)}
  BY <1>2 DEF Candidates, Below, Ahead, Last
<1>4. S \subseteq Rows
  BY <1>3 DEF Matching
<1> HIDE DEF S
<1>5. /\ n \in Nat /\ rows \in Seq(S) /\ Len(rows) = n
      /\ \A i, j \in 1..n : i < j => Above(rows[i], rows[j])
      /\ \A e \in S : \E i \in 1..n : rows[i] = e
      /\ \A i \in 1..n : rows[i] \in S
  <2>1. /\ n \in Nat /\ rows \in Seq(S) /\ Len(rows) = n
        /\ \A i, j \in 1..n : i < j => Above(rows[i], rows[j])
        /\ \A e \in S : \E i \in 1..n : rows[i] = e
    BY <1>4, SortedRows
  <2> HIDE DEF n, rows
  <2> QED BY <2>1
<1> HIDE DEF n, rows
<1>6. m \in 0..n /\ (~more => m = n) /\ (more => m >= 1)
  BY <1>0, <1>5
<1> HIDE DEF m, more
<1>7. /\ DOMAIN picked = 1..m /\ \A i \in 1..m : picked[i] = rows[i]
  BY <1>5, <1>6
<1> HIDE DEF picked
<1>8. \A i \in 1..m : rows[i] \in S /\ rows[i] \in Ids /\ ts[rows[i]] \in 1..MaxTs
  BY <1>4, <1>5, <1>6 DEF Rows
<1>9. /\ g \in Seq(FeedRow) /\ Len(g) = m
      /\ \A i \in 1..m : g[i] = [ts |-> ts[rows[i]], id |-> rows[i]]
  <2>1. \A i \in 1..m : g[i] = [ts |-> ts[rows[i]], id |-> rows[i]] /\ g[i] \in FeedRow
    BY <1>7, <1>8 DEF FeedRow
  <2>2. DOMAIN g = 1..m
    BY <1>7
  <2>3. g = [i \in 1..m |-> g[i]]
    BY <2>2
  <2> HIDE DEF g
  <2> QED BY <1>6, <2>1, <2>2, <2>3
<1> HIDE DEF g
<1>10. /\ feed' \in Seq(FeedRow) /\ Len(feed') = k + m /\ DOMAIN feed' = 1..k + m
       /\ \A i \in 1..k : feed'[i] = feed[i]
       /\ \A i \in k + 1..k + m : feed'[i] = g[i - k] /\ i - k \in 1..m
  <2> HIDE DEF k
  <2>1. k = Len(feed)
    BY DEF k
  <2>2. m \in Nat
    BY <1>5, <1>6
  <2>3. feed' \in Seq(FeedRow) /\ Len(feed') = k + m
    <3>1. feed \o g \in Seq(FeedRow) /\ Len(feed \o g) = Len(feed) + Len(g)
      BY <1>2, <1>9, ConcatProperties
    <3> QED BY <1>1, <1>9, <2>1, <3>1
  <2>4. DOMAIN feed' = 1..k + m
    BY <2>3
  <2>5. \A i \in 1..k + m : feed'[i] = IF i <= k THEN feed[i] ELSE g[i - k]
    BY <1>1, <1>2, <1>9, <2>1, <2>2
  <2> QED BY <1>2, <2>2, <2>3, <2>4, <2>5
<1>11. \A i \in DOMAIN feed' : ts'[feed'[i].id] \in {feed'[i].ts, Gone}
  <2> SUFFICES ASSUME NEW i \in 1..k + m PROVE ts[feed'[i].id] \in {feed'[i].ts, Gone}
    BY <1>1, <1>10 DEF Gone
  <2>1. CASE i \in 1..k
    BY <1>2, <1>10, <2>1 DEF FeedReader
  <2>2. CASE i \in k + 1..k + m
    BY <1>8, <1>9, <1>10, <2>2
  <2> QED BY <1>2, <1>6, <2>1, <2>2
<1>12. \A i, j \in DOMAIN feed' : i < j => RowAbove(feed'[i], feed'[j])
  <2> SUFFICES ASSUME NEW i \in 1..k + m, NEW j \in 1..k + m, i < j
               PROVE  RowAbove(feed'[i], feed'[j])
    BY <1>10
  <2>1. CASE j \in 1..k
    <3>1. i \in 1..k
      BY <1>2, <2>1
    <3> QED BY <1>2, <1>10, <2>1, <3>1 DEF FeedReader
  <2>2. CASE i \in k + 1..k + m
    <3>1. j \in k + 1..k + m
      BY <1>2, <1>6, <2>2
    <3>2. i - k \in 1..m /\ j - k \in 1..m /\ i - k < j - k
      BY <1>2, <1>6, <2>2, <3>1
    <3>3. Above(rows[i - k], rows[j - k])
      BY <1>5, <1>6, <3>2
    <3>4. /\ feed'[i] = [ts |-> ts[rows[i - k]], id |-> rows[i - k]]
          /\ feed'[j] = [ts |-> ts[rows[j - k]], id |-> rows[j - k]]
      <4>1. feed'[i] = g[i - k] /\ feed'[j] = g[j - k]
        BY <1>10, <2>2, <3>1
      <4> QED BY <1>9, <3>2, <4>1
    <3> QED BY <3>3, <3>4 DEF Above, RowAbove
  <2>3. CASE i \in 1..k /\ j \in k + 1..k + m
    <3>1. k \in 1..k /\ k # 0
      BY <1>2, <2>3
    <3>2. RowAbove(feed[k], feed'[j])
      <4>1. feed # <<>>
        BY <1>2, <3>1
      <4>2. Ahead(rows[j - k])
        BY <1>3, <1>8, <1>10, <2>3
      <4>3. feed'[j] = [ts |-> ts[rows[j - k]], id |-> rows[j - k]] /\ rows[j - k] \in Ids
        BY <1>8, <1>9, <1>10, <2>3
      <4>4. feed[k].ts \in Nat /\ feed[k].id \in Nat
        <5>1. feed[k] \in FeedRow
          BY <1>2, <3>1
        <5> QED BY <5>1, RowNumbers
      <4> QED BY <1>0, <4>1, <4>2, <4>3, <4>4 DEF Ahead, RowAbove
    <3>3. i = k \/ RowAbove(feed[i], feed[k])
      <4>1. \A a, b \in DOMAIN feed : a < b => RowAbove(feed[a], feed[b])
        BY DEF FeedReader
      <4> HIDE DEF k
      <4>2. i = k \/ i < k
        BY <1>2, <2>3
      <4> QED BY <1>2, <2>3, <3>1, <4>1, <4>2
    <3>4. /\ feed[i] \in FeedRow /\ feed[k] \in FeedRow /\ feed'[j] \in FeedRow
          /\ feed'[i] = feed[i]
      BY <1>2, <1>10, <2>3, <3>1
    <3>6. \A x, y, z \in FeedRow : RowAbove(x, y) /\ RowAbove(y, z) => RowAbove(x, z)
      BY RowNumbers DEF RowAbove
    <3> HIDE DEF k
    <3> QED BY <3>2, <3>3, <3>4, <3>6
  <2> QED BY <1>2, <1>6, <2>1, <2>2, <2>3
<1>13. ASSUME NEW e \in steady' PROVE (WasGiven(e) \/ (page = "more" /\ Ahead(e)))'
  <2>1. e \in steady /\ e \in Matching /\ e \in Ids
    BY <1>1 DEF FeedReader, Matching, Rows
  <2>2. CASE WasGiven(e)
    <3>1. PICK i \in 1..k : feed[i].id = e
      BY <1>2, <2>2 DEF WasGiven
    <3>2. i \in DOMAIN feed' /\ feed'[i].id = e
      BY <1>2, <1>6, <1>10, <3>1
    <3> QED BY <3>2 DEF WasGiven
  <2>3. CASE Ahead(e)
    <3>1. PICK i \in 1..n : rows[i] = e
      BY <1>3, <1>5, <2>1, <2>3
    <3>2. CASE i <= m
      <4>1. i + k \in DOMAIN feed' /\ i + k \in k + 1..k + m /\ (i + k) - k = i /\ i \in 1..m
        BY <1>2, <1>5, <1>6, <1>10, <3>1, <3>2
      <4>2. feed'[i + k].id = e
        <5>1. feed'[i + k] = g[i]
          BY <1>10, <4>1
        <5>2. g[i] = [ts |-> ts[rows[i]], id |-> rows[i]]
          BY <1>9, <4>1
        <5> QED BY <3>1, <5>1, <5>2
      <4> QED BY <4>1, <4>2 DEF WasGiven
    <3>3. CASE ~(i <= m)
      <4>1. more /\ m \in 1..n /\ m < i
        BY <1>5, <1>6, <3>1, <3>3
      <4>2. Above(rows[m], e)
        BY <1>5, <3>1, <4>1
      <4>3. k + m \in k + 1..k + m /\ (k + m) - k = m /\ m \in 1..m
        BY <1>2, <4>1
      <4>4. feed'[k + m] = [ts |-> ts[rows[m]], id |-> rows[m]] /\ rows[m] \in Ids
        BY <1>8, <1>9, <1>10, <4>3
      <4>5. page' = "more" /\ ts' = ts /\ Len(feed') = k + m
        BY <1>1, <1>10, <4>1
      <4> QED BY <1>0, <2>1, <4>2, <4>4, <4>5 DEF Above, Ahead
    <3> QED BY <3>2, <3>3
  <2> QED BY <2>1, <2>2, <2>3 DEF FeedReader
<1>14. steady' \subseteq Matching' /\ page' \in {"more", "end"} /\ unacked' \in BOOLEAN
  BY <1>1 DEF FeedReader, Matching, Rows
<1> QED BY <1>10, <1>11, <1>12, <1>13, <1>14 DEF FeedReader

LEMMA ReaderKept == TableInv /\ FeedReader /\ [FeedNext]_feedVars => FeedReader'
<1> SUFFICES ASSUME TableInv, FeedReader, [FeedNext]_feedVars PROVE FeedReader'
  OBVIOUS
<1>0. steady \subseteq Matching
  BY DEF FeedReader
<1>1. CASE UNCHANGED <<ts, acked, page, feed, unacked, steady>>
  BY <1>0, <1>1, ReaderUndisturbed DEF Matching
<1>2. ASSUME NEW e \in Ids, NEW t \in 1..MaxTs, Insert(e, t) PROVE FeedReader'
  <2>1. /\ UNCHANGED <<acked, page, feed, unacked, steady>> /\ ts[e] = NoTs
        /\ \A f \in Ids : f # e => ts'[f] = ts[f]
    BY <1>2 DEF Insert, TableInv, FeedTable
  <2>2. Gone # NoTs /\ \A f \in steady : f \in Ids /\ ts[f] # NoTs /\ (unacked => f \notin acked)
    BY <1>0, FeedAssumption DEF Gone, NoTs, Matching, Rows
  <2> QED BY <2>1, <2>2, ReaderUndisturbed
<1>3. ASSUME NEW e \in Ids, Ack(e) PROVE FeedReader'
  BY <1>3, ReaderUndisturbed DEF Ack, Steady
<1>4. ASSUME NEW e \in Ids, PutSnapshot(e) \/ SetSnapshot(e) PROVE FeedReader'
  BY <1>1, <1>4 DEF PutSnapshot, SetSnapshot
<1>5. ASSUME NEW d \in Deleters, (\E e \in Ids : LoadForDelete(d, e)) \/ GetForDelete(d) PROVE FeedReader'
  BY <1>1, <1>5 DEF LoadForDelete, GetForDelete
<1>6. ASSUME NEW d \in Deleters, DeleteRow(d) PROVE FeedReader'
  <2>1. /\ UNCHANGED <<acked, page, feed, unacked>> /\ Steady
        /\ \A f \in Ids : ts'[f] \in {ts[f], Gone}
    BY <1>6 DEF DeleteRow, TableInv, FeedTable
  <2> QED BY <2>1, ReaderUndisturbed DEF Steady
<1>7. ASSUME NEW d \in Deleters, DeleteFile(d) PROVE FeedReader'
  BY <1>1, <1>7 DEF DeleteFile
<1> QED BY <1>1, <1>2, <1>3, <1>4, <1>5, <1>6, <1>7, ReaderBeginsFeed, ReaderTurnsPage
        DEF FeedNext, feedVars

(* For any number of events, any page length and any number of concurrent  *)
(* deletions: paging through the feed while it changes gives newest first, *)
(* no event twice and in the end every event that matched all along, and   *)
(* an event that names a snapshot can serve it (events/store.go:135).      *)
THEOREM FeedIsSafe == FeedSpec => []FeedSafe
<1>1. TableInv /\ FeedReader => FeedSafe
  <2> SUFFICES ASSUME TableInv, FeedReader PROVE FeedSafe
    OBVIOUS
  <2>1. FeedTypeOK
    BY DEF TableInv, FeedTable, FeedReader, FeedTypeOK, Deleting
  <2>2. FeedPages
    BY DEF FeedReader, FeedPages, RowAbove, WasGiven
  <2>3. FeedSnapshotServed
    BY DEF TableInv, AttachedOnce, FeedSnapshotServed
  <2> QED BY <2>1, <2>2, <2>3 DEF FeedSafe
<1> QED BY TableBegins, TableKept, ReaderBegins, ReaderKept, <1>1, PTL DEF FeedSpec

----------------------------------------------------------------
(* Schedule. What makes the two copies agree is that a key that is there   *)
(* and is no list is null; windows are compared with the circle one by one.*)

Keys == {NoKey, OtherKey} \cup {ListOf(W) : W \in SUBSET SchedWindow}
SchedInv == sched \in [everyday : Keys, day : [DayKeys -> Keys]]

LEMMA SchedBegins == ScheduleInit => SchedInv
BY DEF ScheduleInit, SchedInv, Keys

LEMMA SchedKept == SchedInv /\ [ScheduleNext]_schedVars => SchedInv'
<1> SUFFICES ASSUME SchedInv, [ScheduleNext]_schedVars PROVE SchedInv'
  OBVIOUS
<1>1. OtherKey \in Keys /\ ListOf({}) \in Keys
  BY DEF Keys
<1>2. ASSUME NEW k \in Keys, k.is = "list", NEW w \in SchedWindow
      PROVE  ListOf(k.windows \cup {w}) \in Keys /\ ListOf({w}) \in Keys
  <2>1. k.windows \subseteq SchedWindow
    BY <1>2 DEF Keys, NoKey, OtherKey, ListOf
  <2> QED BY <2>1 DEF Keys
<1>3. CASE UNCHANGED schedVars
  BY <1>3 DEF schedVars, SchedInv
<1>4. CASE EditEveryday
  <2>1. \A k \in Keys : sched' = [sched EXCEPT !.everyday = k] => SchedInv'
    BY DEF SchedInv
  <2>2. sched.everyday \in Keys
    BY DEF SchedInv
  <2> QED BY <1>1, <1>2, <1>4, <2>1, <2>2 DEF EditEveryday
<1>5. ASSUME NEW d \in DayKeys, EditDay(d) PROVE SchedInv'
  <2>1. \A k \in Keys : sched' = [sched EXCEPT !.day[d] = k] => SchedInv'
    BY DEF SchedInv
  <2>2. sched.day[d] \in Keys
    BY DEF SchedInv
  <2> QED BY <1>1, <1>2, <1>5, <2>1, <2>2 DEF EditDay
<1> QED BY <1>3, <1>4, <1>5 DEF ScheduleNext

(* A window is open for the time that passes from its start to its end.    *)
LEMMA WindowOnTheCircle ==
  ASSUME NEW a \in Hours, NEW b \in Hours, NEW e \in BOOLEAN, NEW now \in Now
  PROVE  Within(<<a, b, e>>, now) <=>
            /\ BadTime \notin {a, b}
            /\ \/ a = 0 /\ b = Minutes
               \/ Since(a % Minutes, now) < Since(a % Minutes, b % Minutes)
<1>0. Minutes \in Nat \ {0} /\ now \in 0..Minutes - 1
  BY ScheduleAssumption DEF Now
<1>1. \A x \in 0..Minutes - 1 : x % Minutes = x
  BY <1>0
<1>2. \A x \in Minutes..2 * Minutes - 1 : x % Minutes = x - Minutes
  BY <1>0
<1>3. \A x, y \in 0..Minutes - 1 :
         Since(x, y) = IF y >= x THEN y - x ELSE y + Minutes - x
  <2> SUFFICES ASSUME NEW x \in 0..Minutes - 1, NEW y \in 0..Minutes - 1
               PROVE  Since(x, y) = IF y >= x THEN y - x ELSE y + Minutes - x
    OBVIOUS
  <2>1. CASE y >= x
    <3>1. y + Minutes - x \in Minutes..2 * Minutes - 1
      BY <1>0, <2>1
    <3> QED BY <1>0, <1>2, <2>1, <3>1 DEF Since
  <2>2. CASE ~(y >= x)
    <3>1. y + Minutes - x \in 0..Minutes - 1
      BY <1>0, <2>2
    <3> QED BY <1>0, <1>1, <2>2, <3>1 DEF Since
  <2> QED BY <2>1, <2>2
<1>4. CASE BadTime \in {a, b}
  BY <1>4 DEF Within
<1>5. CASE BadTime \notin {a, b}
  <2>1. a \in 0..Minutes /\ b \in 0..Minutes
    BY <1>5 DEF Hours
  <2>2. \A x \in 0..Minutes : x % Minutes = IF x = Minutes THEN 0 ELSE x
    <3>1. Minutes % Minutes = 0
      BY <1>0, <1>2
    <3>2. \A x \in 0..Minutes : x = Minutes \/ x \in 0..Minutes - 1
      BY <1>0
    <3> QED BY <1>0, <1>1, <3>1, <3>2
  <2> DEFINE p == IF a = Minutes THEN 0 ELSE a
             q == IF b = Minutes THEN 0 ELSE b
  <2>3. a % Minutes = p /\ b % Minutes = q /\ p \in 0..Minutes - 1 /\ q \in 0..Minutes - 1
    BY <1>0, <2>1, <2>2
  <2>4. /\ Since(p, now) = (IF now >= p THEN now - p ELSE now + Minutes - p)
        /\ Since(p, q) = (IF q >= p THEN q - p ELSE q + Minutes - p)
    BY <1>0, <1>3, <2>3
  <2>5. Within(<<a, b, e>>, now) <=>
           IF a <= b THEN now >= a /\ now < b ELSE now >= a \/ now < b
    BY <1>5 DEF Within
  <2>6. (IF a <= b THEN now >= a /\ now < b ELSE now >= a \/ now < b) <=>
           \/ a = 0 /\ b = Minutes
           \/ Since(p, now) < Since(p, q)
    BY <1>0, <2>1, <2>4
  <2> QED BY <1>5, <2>3, <2>5, <2>6
<1> QED BY <1>4, <1>5

(* For days of any length and weeks of any number of days: a schedule      *)
(* means the same to both of its readers (detect/config.go and             *)
(* notify/worker.go) but in the two cases that are named, and a window of  *)
(* detection that applies every day is open for the time that passes from  *)
(* its start to its end, midnight or not.                                  *)
THEOREM ScheduleIsSafe == ScheduleSpec => []ScheduleSafe
<1>1. SchedInv => SchedulesAgree
  <2> SUFFICES ASSUME SchedInv, NEW d \in DayKeys, NEW now \in Now
               PROVE  /\ Active(sched, d, now) /\ ~ScheduleActive(sched, d, now) =>
                            \E w \in WindowsOf(sched, d) : Longer(w) /\ Within(w, now)
                      /\ ScheduleActive(sched, d, now) /\ ~Active(sched, d, now) =>
                            sched.everyday.is = "other"
    BY DEF SchedulesAgree
  <2>1. sched.everyday \in Keys
    BY DEF SchedInv
  <2>2. CASE sched.everyday.is = "other"
    <3>1. sched.everyday # NoKey /\ sched.everyday.windows = {}
      BY <2>1, <2>2 DEF Keys, NoKey, OtherKey, ListOf
    <3> QED BY <2>2, <3>1 DEF Active, ScheduleActive, WindowsOf, EmptySchedule
  <2>3. CASE sched.everyday.is # "other"
    <3>1. sched.everyday # NoKey <=> sched.everyday.is = "list"
      BY <2>1, <2>3 DEF Keys, NoKey, OtherKey, ListOf
    <3>2. WindowsOf(sched, d)
             = (IF sched.everyday.is = "list" THEN sched.everyday ELSE sched.day[d]).windows
      BY <3>1 DEF WindowsOf
    <3> QED BY <3>2 DEF Active, ScheduleActive
  <2> QED BY <2>2, <2>3
<1>2. SchedInv => WindowsOnTheCircle
  <2> SUFFICES ASSUME SchedInv, sched.everyday.is = "list", NEW d \in DayKeys, NEW now \in Now
               PROVE  Active(sched, d, now) <=>
                         \E w \in sched.everyday.windows :
                            /\ BadTime \notin {w[1], w[2]}
                            /\ \/ w[1] = 0 /\ w[2] = Minutes
                               \/ Since(w[1] % Minutes, now)
                                     < Since(w[1] % Minutes, w[2] % Minutes)
    BY DEF WindowsOnTheCircle
  <2>1. sched.everyday # NoKey /\ sched.everyday.windows \subseteq SchedWindow
    BY DEF SchedInv, Keys, NoKey, OtherKey, ListOf
  <2>2. Active(sched, d, now) <=> \E w \in sched.everyday.windows : Within(w, now)
    BY <2>1 DEF Active, WindowsOf, EmptySchedule
  <2>3. ASSUME NEW w \in sched.everyday.windows
        PROVE  Within(w, now) <=>
                  /\ BadTime \notin {w[1], w[2]}
                  /\ \/ w[1] = 0 /\ w[2] = Minutes
                     \/ Since(w[1] % Minutes, now) < Since(w[1] % Minutes, w[2] % Minutes)
    <3>1. PICK a \in Hours, b \in Hours, e \in BOOLEAN : w = <<a, b, e>>
      BY <2>1 DEF SchedWindow
    <3>2. w[1] = a /\ w[2] = b
      BY <3>1
    <3> QED BY <3>1, <3>2, WindowOnTheCircle
  <2> QED BY <2>2, <2>3
<1> QED BY SchedBegins, SchedKept, <1>1, <1>2, PTL DEF ScheduleSpec, ScheduleSafe

----------------------------------------------------------------------------
(* Playback. What is said of a window is said of the list of segments that *)
(* SegmentsInRange returns for it: in the order of their starts, no two of *)
(* which are the same, and of whatever ends. What the code computes in a   *)
(* loop is a recursive function here; that it has a value, and what holds  *)
(* of it at every step, is shown with a set of numbers that the loop       *)
(* cannot leave.                                                           *)

(* A set of numbers up to n with 0, and with each number the next.         *)
LEMMA UpTo ==
  ASSUME NEW n \in Nat, NEW P, 0 \in P, \A k \in 0..n : k \in P /\ k < n => k + 1 \in P
  PROVE  \A k \in 0..n : k \in P
<1> SUFFICES ASSUME NEW m \in 0..n, m \notin P PROVE FALSE
  OBVIOUS
<1> DEFINE T == {k \in 0..n : k \notin P}
           R == OpToRel(<, Nat)
<1>1. T \subseteq Nat /\ T # {}
  OBVIOUS
<1>2. PICK t \in T : \A y \in T : ~(<<y, t>> \in R)
  BY <1>1, NatLessThanWellFounded, WFMin
<1>3. \A y \in T : ~(y < t)
  BY <1>1, <1>2 DEF OpToRel
<1>4. t \in 0..n /\ t \notin P /\ t # 0
  OBVIOUS
<1>5. t - 1 \in 0..n /\ t - 1 < n /\ t - 1 < t /\ (t - 1) + 1 = t
  BY <1>4
<1>6. t - 1 \in P
  BY <1>3, <1>5
<1> QED BY <1>4, <1>5, <1>6

(* What a loop computes that starts with b and turns x into h[k][x] in its *)
(* k-th turn.                                                              *)
Turns(n, T, h) == h \in [1..n -> [T -> T]]
LoopFrom(f, n, T, b, h) ==
    f \in [0..n -> T] /\ f[0] = b /\ \A k \in 1..n : f[k] = h[k][f[k - 1]]

LEMMA Loop ==
  ASSUME NEW n \in Nat, NEW T, NEW b \in T, NEW h, Turns(n, T, h)
  PROVE  \E f : LoopFrom(f, n, T, b, h)
<1> USE DEF Turns
<1> DEFINE Runs(f, m) == f[0] = b /\ \A k \in 1..m : f[k] = h[k][f[k - 1]]
           P == {m \in 0..n : \E f \in [0..m -> T] : Runs(f, m)}
<1>1. 0 \in P
  <2> DEFINE f == [k \in 0..0 |-> b]
  <2>1. f \in [0..0 -> T] /\ Runs(f, 0)
    OBVIOUS
  <2>2. 0 \in 0..n
    OBVIOUS
  <2> HIDE DEF f
  <2> QED BY <2>1, <2>2
<1>2. ASSUME NEW m \in 0..n, m \in P, m < n PROVE m + 1 \in P
  <2>1. PICK f \in [0..m -> T] : Runs(f, m)
    BY <1>2
  <2> DEFINE g == [k \in 0..m + 1 |-> IF k = m + 1 THEN h[m + 1][f[m]] ELSE f[k]]
  <2>2. m + 1 \in 1..n /\ m + 1 \in 0..n /\ m \in 0..m
    BY <1>2
  <2>3. h[m + 1] \in [T -> T] /\ h[m + 1][f[m]] \in T
    BY <2>2
  <2>4. g \in [0..m + 1 -> T] /\ g[0] = b
    BY <2>1, <2>3
  <2>5. ASSUME NEW k \in 1..m + 1
        PROVE  g[k] = h[k][g[k - 1]]
    <3>1. CASE k = m + 1
      <4>1. g[k] = h[k][f[m]] /\ k - 1 = m /\ g[k - 1] = f[m]
        BY <2>2, <3>1
      <4> QED BY <4>1
    <3>2. CASE k # m + 1
      <4>1. k \in 1..m /\ g[k] = f[k] /\ k - 1 \in 0..m /\ g[k - 1] = f[k - 1]
        BY <3>2
      <4>2. f[k] = h[k][f[k - 1]]
        BY <2>1, <4>1
      <4> QED BY <4>1, <4>2
    <3> QED BY <3>1, <3>2
  <2> HIDE DEF g
  <2> QED BY <2>2, <2>4, <2>5
<1> HIDE DEF P
<1>3. n \in P
  <2>1. \A k \in 0..n : k \in P
    BY <1>1, <1>2, UpTo
  <2> QED BY <2>1
<1> QED BY <1>3 DEF P, LoopFrom

LEMMA TotalLoop ==
  ASSUME NEW n \in Nat, NEW f \in [1..n -> Nat]
  PROVE  \E sum : /\ sum = [k \in 0..n |-> IF k = 0 THEN 0 ELSE sum[k - 1] + f[k]]
                  /\ Total(f) = sum[n]
<1> DEFINE h == [k \in 1..n |-> [t \in Nat |-> t + f[k]]]
<1>1. Len(f) = n
  BY LenProperties, IsASeq
<1>2. Turns(n, Nat, h)
  BY DEF Turns
<1>3. PICK g : LoopFrom(g, n, Nat, 0, h)
  <2> HIDE DEF h
  <2>1. 0 \in Nat
    OBVIOUS
  <2> QED BY <1>2, <2>1, Loop
<1>4. \A k \in 1..n : h[k][g[k - 1]] = g[k - 1] + f[k]
  BY <1>3 DEF LoopFrom
<1>5. g = [k \in 0..n |-> IF k = 0 THEN 0 ELSE g[k - 1] + f[k]]
  <2> HIDE DEF h
  <2>1. g = [k \in 0..n |-> g[k]]
    BY <1>3 DEF LoopFrom
  <2>2. \A k \in 0..n : g[k] = IF k = 0 THEN 0 ELSE g[k - 1] + f[k]
    BY <1>3, <1>4 DEF LoopFrom
  <2> QED BY <2>1, <2>2
<1> HIDE DEF h
<1>6. g = [k \in 0..Len(f) |-> IF k = 0 THEN 0 ELSE g[k - 1] + f[k]]
  BY <1>1, <1>5
<1>7. \E sum : /\ sum = [k \in 0..Len(f) |-> IF k = 0 THEN 0 ELSE sum[k - 1] + f[k]]
               /\ Total(f) = sum[Len(f)]
  BY <1>6, Zenon DEF Total
<1> QED BY <1>1, <1>7

(* The total of a row of numbers that count disjoint sets counts them all. *)
Counted(n, f, part) ==
    /\ f \in [1..n -> Nat]
    /\ \A k \in 1..n : IsFiniteSet(part[k]) /\ Cardinality(part[k]) = f[k]
    /\ \A k, l \in 1..n : k < l => part[k] \cap part[l] = {}
Whole(n, part) == UNION {part[k] : k \in 1..n}

LEMMA TotalCounts ==
  ASSUME NEW n \in Nat, NEW f, NEW part, Counted(n, f, part)
  PROVE  Total(f) = Cardinality(Whole(n, part))
<1> USE DEF Counted
<1> DEFINE upTo(m) == UNION {part[k] : k \in 1..m}
<1>1. PICK sum : /\ sum = [k \in 0..n |-> IF k = 0 THEN 0 ELSE sum[k - 1] + f[k]]
                 /\ Total(f) = sum[n]
  BY TotalLoop
<1> DEFINE P == {m \in 0..n : IsFiniteSet(upTo(m)) /\ sum[m] = Cardinality(upTo(m))}
<1>2. 0 \in P
  <2>1. upTo(0) = {} /\ sum[0] = 0 /\ 0 \in 0..n
    BY <1>1
  <2> QED BY <2>1, FS_EmptySet
<1>3. ASSUME NEW m \in 0..n, m \in P, m < n PROVE m + 1 \in P
  <2>1. m + 1 \in 0..n /\ m + 1 \in 1..n /\ m + 1 # 0 /\ (m + 1) - 1 = m
    BY <1>3
  <2>2. sum[m + 1] = sum[m] + f[m + 1]
    BY <1>1, <2>1
  <2>3. upTo(m + 1) = upTo(m) \cup part[m + 1]
    <3>1. 1..m + 1 = (1..m) \cup {m + 1}
      BY <2>1
    <3> QED BY <3>1
  <2>4. upTo(m) \cap part[m + 1] = {}
    <3>1. \A k \in 1..m : k \in 1..n /\ k < m + 1
      BY <2>1
    <3> QED BY <2>1, <3>1
  <2>5. IsFiniteSet(upTo(m)) /\ sum[m] = Cardinality(upTo(m))
    BY <1>3
  <2>6. IsFiniteSet(part[m + 1]) /\ Cardinality(part[m + 1]) = f[m + 1]
    BY <2>1
  <2> HIDE DEF upTo
  <2>7. /\ IsFiniteSet(upTo(m + 1))
        /\ Cardinality(upTo(m + 1)) = sum[m] + f[m + 1] - Cardinality({})
    BY <2>3, <2>4, <2>5, <2>6, FS_Union
  <2>8. sum[m] \in Nat /\ f[m + 1] \in Nat
    BY <2>1, <2>5, FS_CardinalityType
  <2> QED BY <2>1, <2>2, <2>7, <2>8, FS_EmptySet
<1> HIDE DEF P, upTo
<1>4. \A m \in 0..n : m \in P
  BY <1>2, <1>3, UpTo
<1>5. n \in P
  BY <1>4
<1>6. Total(f) = Cardinality(upTo(n))
  BY <1>1, <1>5 DEF P
<1> QED BY <1>6 DEF upTo, Whole

(* Sets that need not be disjoint are no more together than in sum.        *)
LEMMA TotalBounds ==
  ASSUME NEW n \in Nat, NEW f \in [1..n -> Nat], NEW part,
         \A k \in 1..n : IsFiniteSet(part[k]) /\ Cardinality(part[k]) = f[k]
  PROVE  /\ IsFiniteSet(Whole(n, part)) /\ Total(f) \in Nat
         /\ Cardinality(Whole(n, part)) <= Total(f)
<1> DEFINE upTo(m) == UNION {part[k] : k \in 1..m}
<1>1. PICK sum : /\ sum = [k \in 0..n |-> IF k = 0 THEN 0 ELSE sum[k - 1] + f[k]]
                 /\ Total(f) = sum[n]
  BY TotalLoop
<1> DEFINE P == {m \in 0..n : /\ IsFiniteSet(upTo(m)) /\ sum[m] \in Nat
                              /\ Cardinality(upTo(m)) <= sum[m]}
<1>2. 0 \in P
  <2>1. upTo(0) = {} /\ sum[0] = 0 /\ 0 \in 0..n
    BY <1>1
  <2> QED BY <2>1, FS_EmptySet
<1>3. ASSUME NEW m \in 0..n, m \in P, m < n PROVE m + 1 \in P
  <2>1. m + 1 \in 0..n /\ m + 1 \in 1..n /\ m + 1 # 0 /\ (m + 1) - 1 = m
    BY <1>3
  <2>2. sum[m + 1] = sum[m] + f[m + 1]
    BY <1>1, <2>1
  <2>3. upTo(m + 1) = upTo(m) \cup part[m + 1]
    <3>1. 1..m + 1 = (1..m) \cup {m + 1}
      BY <2>1
    <3> QED BY <3>1
  <2>4. IsFiniteSet(upTo(m)) /\ sum[m] \in Nat /\ Cardinality(upTo(m)) <= sum[m]
    BY <1>3
  <2>5. IsFiniteSet(part[m + 1]) /\ Cardinality(part[m + 1]) = f[m + 1] /\ f[m + 1] \in Nat
    BY <2>1
  <2> HIDE DEF upTo
  <2>6. /\ IsFiniteSet(upTo(m + 1)) /\ IsFiniteSet(upTo(m) \cap part[m + 1])
        /\ Cardinality(upTo(m + 1))
             = Cardinality(upTo(m)) + Cardinality(part[m + 1])
                   - Cardinality(upTo(m) \cap part[m + 1])
    <3>1. IsFiniteSet(upTo(m) \cap part[m + 1])
      BY <2>4, FS_Subset
    <3>2. IsFiniteSet(upTo(m)) /\ IsFiniteSet(part[m + 1])
      BY <2>4, <2>5
    <3> DEFINE A == upTo(m)
               C == part[m + 1]
    <3>3. IsFiniteSet(A) /\ IsFiniteSet(C)
      BY <3>2
    <3> HIDE DEF A, C
    <3>4. /\ IsFiniteSet(A \cup C)
          /\ Cardinality(A \cup C) = Cardinality(A) + Cardinality(C) - Cardinality(A \cap C)
      BY <3>3, FS_Union
    <3> QED BY <2>3, <3>1, <3>4 DEF A, C
  <2>7. Cardinality(upTo(m)) \in Nat /\ Cardinality(upTo(m) \cap part[m + 1]) \in Nat
    BY <2>4, <2>6, FS_CardinalityType
  <2>8. sum[m + 1] \in Nat /\ Cardinality(upTo(m + 1)) <= sum[m + 1]
    BY <2>2, <2>4, <2>5, <2>6, <2>7
  <2> QED BY <2>1, <2>6, <2>8
<1> HIDE DEF P, upTo
<1>4. \A m \in 0..n : m \in P
  BY <1>2, <1>3, UpTo
<1>5. n \in P
  BY <1>4
<1>6. IsFiniteSet(upTo(n)) /\ Total(f) \in Nat /\ Cardinality(upTo(n)) <= Total(f)
  BY <1>1, <1>5 DEF P
<1> QED BY <1>6 DEF upTo, Whole

----------------------------------------------------------------------------
(* Coverage.                                                               *)
Span == [start : Int, end : Int]

(* One turn of mergeRanges: the last range grows or stays, or there is a   *)
(* new one.                                                                *)
LEMMA MergeIs ==
  ASSUME NEW out \in Seq(Span), NEW s \in Segment
  PROVE  /\ Merge(out, s) \in Seq(Span)
         /\ (out = <<>> \/ s.start > out[Len(out)].end) =>
               /\ Len(Merge(out, s)) = Len(out) + 1
               /\ Merge(out, s)[Len(out) + 1] = [start |-> s.start, end |-> s.end]
               /\ \A i \in 1..Len(out) : Merge(out, s)[i] = out[i]
         /\ (out # <<>> /\ s.start <= out[Len(out)].end /\ s.end > out[Len(out)].end) =>
               /\ Len(Merge(out, s)) = Len(out)
               /\ Merge(out, s)[Len(out)] = [start |-> out[Len(out)].start, end |-> s.end]
               /\ \A i \in 1..Len(out) - 1 : Merge(out, s)[i] = out[i]
         /\ (out # <<>> /\ s.start <= out[Len(out)].end /\ s.end <= out[Len(out)].end) =>
               Merge(out, s) = out
<1> DEFINE new == [start |-> s.start, end |-> s.end]
           n == Len(out)
<1>1. new \in Span /\ n \in Nat /\ (out # <<>> => n \in 1..n /\ out[n] \in Span)
  <2>1. n \in Nat /\ (out # <<>> => n > 0)
    BY EmptySeq, LenProperties
  <2>2. out # <<>> => n \in 1..n /\ out[n] \in Span
    BY <2>1, ElementOfSeq
  <2> QED BY <2>1, <2>2 DEF Span, Segment
<1>2. /\ Append(out, new) \in Seq(Span) /\ Len(Append(out, new)) = n + 1
      /\ Append(out, new)[n + 1] = new /\ \A i \in 1..n : Append(out, new)[i] = out[i]
  BY <1>1, AppendProperties
<1>3. CASE out = <<>> \/ s.start > out[n].end
  <2>1. ~(out # <<>> /\ s.start <= Last(out).end)
    BY <1>1, <1>3 DEF Last, Span, Segment
  <2>2. Merge(out, s) = Append(out, new)
    BY <2>1 DEF Merge
  <2>3. ~(out # <<>> /\ s.start <= out[n].end)
    BY <1>1, <1>3 DEF Span, Segment
  <2> QED BY <1>2, <2>2, <2>3
<1>4. CASE out # <<>> /\ s.start <= out[n].end
  <2> DEFINE longer == [start |-> out[n].start, end |-> s.end]
             grown == [out EXCEPT ![n] = longer]
  <2>1. longer \in Span /\ [out[n] EXCEPT !.end = s.end] = longer
    BY <1>1, <1>4 DEF Span, Segment
  <2>2. [out EXCEPT ![Len(out)].end = s.end] = grown
    BY <2>1
  <2>3. grown \in Seq(Span) /\ Len(grown) = n /\ grown[n] = longer
        /\ \A i \in 1..n : i # n => grown[i] = out[i]
    BY <1>1, <1>4, <2>1, ExceptSeq
  <2>4. s.end > out[n].end => Merge(out, s) = grown
    BY <1>4, <2>2 DEF Merge, Last
  <2>5. ~(s.end > out[n].end) => Merge(out, s) = out
    BY <1>4 DEF Merge, Last
  <2>6. ~(out = <<>> \/ s.start > out[n].end)
    BY <1>1, <1>4 DEF Span, Segment
  <2> HIDE DEF grown
  <2>7. \A i \in 1..n - 1 : i \in 1..n /\ i # n
    BY <1>1
  <2>8. /\ s.end > out[n].end <=> ~(s.end <= out[n].end)
        /\ s.end > out[n].end <=> ~~(s.end > out[n].end)
    BY <1>1, <1>4 DEF Span, Segment
  <2> QED BY <1>4, <2>3, <2>4, <2>5, <2>6, <2>7, <2>8
<1>5. out = <<>> \/ s.start > out[n].end \/ (out # <<>> /\ s.start <= out[n].end)
  BY <1>1 DEF Span, Segment
<1> QED BY <1>3, <1>4, <1>5

LEMMA MergeLoop ==
  ASSUME NEW list \in Seq(Segment)
  PROVE  \E merged : /\ merged = [n \in 0..Len(list) |->
                                    IF n = 0 THEN <<>> ELSE Merge(merged[n - 1], list[n])]
                     /\ MergeRanges(list) = merged[Len(list)]
<1> DEFINE n == Len(list)
           h == [k \in 1..n |-> [t \in Seq(Span) |-> Merge(t, list[k])]]
<1>1. n \in Nat /\ \A k \in 1..n : list[k] \in Segment
  BY LenProperties, ElementOfSeq
<1>2. Turns(n, Seq(Span), h)
  BY <1>1, MergeIs DEF Turns
<1>3. PICK g : LoopFrom(g, n, Seq(Span), <<>>, h)
  <2> HIDE DEF h, n
  <2>1. <<>> \in Seq(Span)
    BY EmptySeq
  <2> QED BY <1>1, <1>2, <2>1, Loop
<1>4. \A k \in 1..n : h[k][g[k - 1]] = Merge(g[k - 1], list[k])
  <2>1. \A k \in 1..n : g[k - 1] \in Seq(Span)
    <3> HIDE DEF h
    <3> QED BY <1>1, <1>3 DEF LoopFrom
  <2> QED BY <2>1
<1>5. g = [k \in 0..n |-> IF k = 0 THEN <<>> ELSE Merge(g[k - 1], list[k])]
  <2> HIDE DEF h, n
  <2>1. g = [k \in 0..n |-> g[k]]
    BY <1>3 DEF LoopFrom
  <2>2. \A k \in 0..n : g[k] = IF k = 0 THEN <<>> ELSE Merge(g[k - 1], list[k])
    BY <1>1, <1>3, <1>4 DEF LoopFrom
  <2> QED BY <2>1, <2>2
<1> HIDE DEF h
<1> QED BY <1>5, Zenon DEF MergeRanges

(* A list of segments as the index returns them: in the order of their     *)
(* starts. The ends may be anywhere.                                       *)
Orderly(list) ==
    /\ list \in Seq(Segment)
    /\ \A i, j \in DOMAIN list : i < j => list[i].start < list[j].start

LEMMA OrderlyIs ==
  ASSUME NEW list, Orderly(list)
  PROVE  /\ Len(list) \in Nat /\ DOMAIN list = 1..Len(list)
         /\ \A i \in 1..Len(list) :
               list[i] \in Segment /\ list[i].start \in Int /\ list[i].end \in Int
<1>1. Len(list) \in Nat /\ DOMAIN list = 1..Len(list)
  BY LenProperties DEF Orderly
<1>2. \A i \in 1..Len(list) : list[i] \in Segment
  BY ElementOfSeq DEF Orderly
<1> QED BY <1>1, <1>2 DEF Segment

Covers(r, c) == r.start <= c /\ c < r.end

(* No segment before the i-th reaches its start.                           *)
Hole(list, i) == \A j \in 1..i - 1 : list[j].end < list[i].start

(* What mergeRanges has after k of its turns.                              *)
MergedUpTo(out, list, k) ==
    /\ out \in Seq(Span)
    /\ k = 0 => out = <<>>
    /\ k > 0 => /\ out # <<>> /\ out[Len(out)].start <= list[k].start
                /\ \E j \in 1..k : out[Len(out)].end = list[j].end
    /\ \A c \in Int : (\E i \in 1..Len(out) : Covers(out[i], c))
                          <=> (\E j \in 1..k : Covers(list[j], c))
    /\ \A i \in 1..Len(out) - 1 : out[i].end < out[i + 1].start
    /\ \A i \in 2..k : Hole(list, i) => \E r \in 1..Len(out) : out[r].start = list[i].start

LEMMA MergedStarts ==
  ASSUME NEW list PROVE MergedUpTo(<<>>, list, 0)
<1>1. <<>> \in Seq(Span) /\ Len(<<>>) = 0
  BY EmptySeq
<1> QED BY <1>1 DEF MergedUpTo

LEMMA MergedGoesOn ==
  ASSUME NEW list, Orderly(list), NEW k \in 0..Len(list), k < Len(list),
         NEW out, MergedUpTo(out, list, k)
  PROVE  MergedUpTo(Merge(out, list[k + 1]), list, k + 1)
<1> DEFINE s == list[k + 1]
           n == Len(out)
           res == Merge(out, s)
<1>1. /\ Len(list) \in Nat /\ k \in Nat /\ k + 1 \in 1..Len(list)
      /\ s \in Segment /\ s.start \in Int /\ s.end \in Int
      /\ \A i \in 1..k : i \in 1..Len(list)
  BY OrderlyIs
<1>2. out \in Seq(Span) /\ n \in Nat /\ (out # <<>> <=> n > 0)
  BY EmptySeq, LenProperties DEF MergedUpTo
<1>3. \A i \in 1..n : out[i].start \in Int /\ out[i].end \in Int
  <2>1. \A i \in 1..n : out[i] \in Span
    BY <1>2, ElementOfSeq
  <2> QED BY <2>1 DEF Span
<1>4. k > 0 => list[k].start < s.start /\ list[k].start \in Int
  <2>1. k > 0 => k \in 1..Len(list) /\ k < k + 1
    BY <1>1
  <2> QED BY <1>1, <2>1, OrderlyIs DEF Orderly
<1>5. \A c : (\E j \in 1..k + 1 : Covers(list[j], c))
                 <=> Covers(s, c) \/ \E j \in 1..k : Covers(list[j], c)
  <2>1. \A j \in 1..k + 1 : j = k + 1 \/ j \in 1..k
    BY <1>1
  <2>2. k + 1 \in 1..k + 1 /\ \A j \in 1..k : j \in 1..k + 1
    BY <1>1
  <2> QED BY <2>1, <2>2
<1>6. CASE out = <<>> \/ s.start > out[n].end
  <2>1. /\ res \in Seq(Span) /\ Len(res) = n + 1
        /\ res[n + 1].start = s.start /\ res[n + 1].end = s.end
        /\ \A i \in 1..n : res[i] = out[i]
    <3> HIDE DEF s
    <3>1. /\ res \in Seq(Span) /\ Len(res) = n + 1
          /\ res[n + 1] = [start |-> s.start, end |-> s.end]
          /\ \A i \in 1..n : res[i] = out[i]
      BY <1>1, <1>2, <1>6, MergeIs
    <3> QED BY <3>1
  <2> HIDE DEF res, s, n
  <2>2. res # <<>>
    BY <1>2, <2>1, EmptySeq
  <2>3. ASSUME NEW c \in Int
        PROVE  (\E i \in 1..n + 1 : Covers(res[i], c)) <=> (\E j \in 1..k + 1 : Covers(list[j], c))
    <3>1. (\E i \in 1..n + 1 : Covers(res[i], c))
              <=> Covers(s, c) \/ \E i \in 1..n : Covers(out[i], c)
      <4>1. Covers(res[n + 1], c) <=> Covers(s, c)
        BY <2>1 DEF Covers
      <4>2. \A i \in 1..n + 1 : i = n + 1 \/ i \in 1..n
        BY <1>2
      <4>3. n + 1 \in 1..n + 1 /\ \A i \in 1..n : i \in 1..n + 1
        BY <1>2
      <4> QED BY <2>1, <4>1, <4>2, <4>3
    <3>2. (\E i \in 1..n : Covers(out[i], c)) <=> \E j \in 1..k : Covers(list[j], c)
      BY DEF MergedUpTo, n
    <3> QED BY <1>5, <3>1, <3>2
  <2>4. ASSUME NEW i \in 1..n PROVE res[i].end < res[i + 1].start
    <3>1. CASE i = n
      BY <1>2, <1>3, <1>1, <1>6, <2>1, <3>1 DEF n
    <3>2. CASE i # n
      <4>1. i \in 1..n - 1 /\ i + 1 \in 1..n
        BY <1>2, <3>2
      <4> QED BY <2>1, <4>1 DEF MergedUpTo, n
    <3> QED BY <3>1, <3>2
  <2>5. ASSUME NEW i \in 2..k + 1, Hole(list, i)
        PROVE  \E r \in 1..n + 1 : res[r].start = list[i].start
    <3>1. CASE i = k + 1
      <4>1. n + 1 \in 1..n + 1
        BY <1>2
      <4> QED BY <2>1, <3>1, <4>1 DEF s
    <3>2. CASE i # k + 1
      <4>1. i \in 2..k
        BY <1>1, <3>2
      <4>2. PICK r \in 1..n : out[r].start = list[i].start
        BY <2>5, <4>1 DEF MergedUpTo, n
      <4>3. r \in 1..n + 1
        BY <1>2
      <4> QED BY <2>1, <4>2, <4>3
    <3> QED BY <3>1, <3>2
  <2>6. /\ res[n + 1].start <= list[k + 1].start
        /\ \E j \in 1..k + 1 : res[n + 1].end = list[j].end
    <3>1. k + 1 \in 1..k + 1
      BY <1>1
    <3> QED BY <1>1, <2>1, <3>1 DEF s
  <2>7. ~(k + 1 = 0) /\ (n + 1) - 1 = n
    BY <1>1, <1>2
  <2> QED BY <2>1, <2>2, <2>3, <2>4, <2>5, <2>6, <2>7 DEF MergedUpTo, res, s
<1>7. CASE out # <<>> /\ s.start <= out[n].end
  <2>0. /\ k > 0 /\ n > 0 /\ n \in 1..n /\ out[n].start <= list[k].start
        /\ \E j \in 1..k : out[n].end = list[j].end
    BY <1>1, <1>2, <1>7 DEF MergedUpTo
  <2>1. /\ res \in Seq(Span) /\ Len(res) = n
        /\ res[n].start = out[n].start
        /\ \A i \in 1..n - 1 : res[i] = out[i]
        /\ \/ s.end > out[n].end /\ res[n].end = s.end
           \/ s.end <= out[n].end /\ res[n].end = out[n].end
    <3> HIDE DEF s
    <3>1. CASE s.end > out[n].end
      <4>1. /\ res \in Seq(Span) /\ Len(res) = n
            /\ res[n] = [start |-> out[n].start, end |-> s.end]
            /\ \A i \in 1..n - 1 : res[i] = out[i]
        BY <1>1, <1>2, <1>7, <3>1, MergeIs
      <4> QED BY <3>1, <4>1
    <3>2. CASE s.end <= out[n].end
      <4>1. res = out
        BY <1>1, <1>2, <1>7, <3>2, MergeIs
      <4> QED BY <1>2, <3>2, <4>1
    <3> QED BY <1>1, <1>3, <2>0, <3>1, <3>2
  <2> HIDE DEF res, s, n
  <2>2. res # <<>>
    BY <1>2, <2>0, <2>1, EmptySeq
  <2>3. ASSUME NEW c \in Int
        PROVE  (\E i \in 1..n : Covers(res[i], c)) <=> (\E j \in 1..k + 1 : Covers(list[j], c))
    <3>1. (\E i \in 1..n : Covers(res[i], c))
              <=> Covers(s, c) \/ \E i \in 1..n : Covers(out[i], c)
      <4>1. Covers(res[n], c) <=> Covers(s, c) \/ Covers(out[n], c)
        BY <1>1, <1>3, <1>4, <1>7, <2>0, <2>1 DEF Covers
      <4>2. \A i \in 1..n : i = n \/ i \in 1..n - 1
        BY <1>2
      <4>3. n \in 1..n /\ \A i \in 1..n - 1 : i \in 1..n
        BY <1>2, <2>0
      <4> QED BY <2>1, <4>1, <4>2, <4>3
    <3>2. (\E i \in 1..n : Covers(out[i], c)) <=> \E j \in 1..k : Covers(list[j], c)
      BY DEF MergedUpTo, n
    <3> QED BY <1>5, <3>1, <3>2
  <2>4. ASSUME NEW i \in 1..n - 1 PROVE res[i].end < res[i + 1].start
    <3>1. out[i].end < out[i + 1].start
      BY DEF MergedUpTo, n
    <3>2. res[i + 1].start = out[i + 1].start
      <4>1. i + 1 = n \/ i + 1 \in 1..n - 1
        BY <1>2
      <4> QED BY <2>1, <4>1
    <3> QED BY <2>1, <3>1, <3>2
  <2>5. ASSUME NEW i \in 2..k + 1, Hole(list, i)
        PROVE  \E r \in 1..n : res[r].start = list[i].start
    <3>1. i # k + 1
      <4> SUFFICES ASSUME i = k + 1 PROVE FALSE
        OBVIOUS
      <4>1. \A j \in 1..k : list[j].end < s.start
        BY <1>1, <2>5 DEF Hole, s
      <4>2. out[n].end < s.start
        BY <2>0, <4>1
      <4> QED BY <1>1, <1>3, <1>7, <2>0, <4>2
    <3>2. i \in 2..k
      BY <1>1, <3>1
    <3>3. PICK r \in 1..n : out[r].start = list[i].start
      BY <2>5, <3>2 DEF MergedUpTo, n
    <3>4. r = n \/ r \in 1..n - 1
      BY <1>2
    <3> QED BY <2>1, <3>3, <3>4
  <2>6. /\ res[n].start <= list[k + 1].start
        /\ \E j \in 1..k + 1 : res[n].end = list[j].end
    <3>1. k + 1 \in 1..k + 1 /\ \A j \in 1..k : j \in 1..k + 1
      BY <1>1
    <3>2. res[n].start <= list[k + 1].start
      BY <1>1, <1>3, <1>4, <2>0, <2>1 DEF s
    <3>3. res[n].end = s.end \/ res[n].end = out[n].end
      BY <2>1
    <3> QED BY <2>0, <3>1, <3>2, <3>3 DEF s
  <2>7. ~(k + 1 = 0)
    BY <1>1
  <2> QED BY <2>1, <2>2, <2>3, <2>4, <2>5, <2>6, <2>7 DEF MergedUpTo, res, s
<1>8. out = <<>> \/ s.start > out[n].end \/ (out # <<>> /\ s.start <= out[n].end)
  <2>1. out # <<>> => n \in 1..n
    BY <1>2
  <2> QED BY <1>1, <1>3, <2>1
<1> QED BY <1>6, <1>7, <1>8

LEMMA MergedInTheEnd ==
  ASSUME NEW list, Orderly(list)
  PROVE  MergedUpTo(MergeRanges(list), list, Len(list))
<1> DEFINE n == Len(list)
<1>1. n \in Nat /\ list \in Seq(Segment)
  BY OrderlyIs DEF Orderly
<1>2. PICK merged : /\ merged = [k \in 0..n |->
                                  IF k = 0 THEN <<>> ELSE Merge(merged[k - 1], list[k])]
                    /\ MergeRanges(list) = merged[n]
  BY <1>1, MergeLoop
<1> DEFINE P == {k \in 0..n : MergedUpTo(merged[k], list, k)}
<1>3. 0 \in P
  <2>1. 0 \in 0..n /\ merged[0] = <<>>
    BY <1>1, <1>2
  <2> QED BY <2>1, MergedStarts
<1>4. ASSUME NEW k \in 0..n, k \in P, k < n PROVE k + 1 \in P
  <2>1. k + 1 \in 0..n /\ k + 1 # 0 /\ (k + 1) - 1 = k
    BY <1>1, <1>4
  <2>2. merged[k + 1] = Merge(merged[k], list[k + 1])
    BY <1>2, <2>1
  <2> QED BY <1>4, <2>1, <2>2, MergedGoesOn
<1> HIDE DEF P
<1>5. \A k \in 0..n : k \in P
  BY <1>1, <1>3, <1>4, UpTo
<1> QED BY <1>1, <1>2, <1>5 DEF P

LEMMA CoverageOfList ==
  ASSUME NEW list, Orderly(list)
  PROVE  LET out == MergeRanges(list)
         IN  /\ UNION {Cells(out[i]) : i \in DOMAIN out} = UNION {Cells(list[i]) : i \in DOMAIN list}
             /\ \A i \in 1..Len(out) - 1 : out[i].end < out[i + 1].start
<1> DEFINE out == MergeRanges(list)
<1>1. MergedUpTo(out, list, Len(list))
  BY MergedInTheEnd
<1> HIDE DEF out
<1>2. out \in Seq(Span) /\ DOMAIN out = 1..Len(out)
  BY <1>1, LenProperties DEF MergedUpTo
<1>3. \A i \in DOMAIN out : out[i].start \in Int /\ out[i].end \in Int
  <2>1. \A i \in DOMAIN out : out[i] \in Span
    BY <1>2, ElementOfSeq
  <2> QED BY <2>1 DEF Span
<1>4. DOMAIN list = 1..Len(list) /\ \A i \in DOMAIN list : list[i].start \in Int /\ list[i].end \in Int
  BY OrderlyIs
<1>5. ASSUME NEW r, r.start \in Int, r.end \in Int, NEW c
      PROVE  c \in Cells(r) <=> c \in Int /\ Covers(r, c)
  BY <1>5 DEF Cells, Covers
<1>6. ASSUME NEW c
      PROVE  c \in UNION {Cells(out[i]) : i \in DOMAIN out}
                 <=> c \in UNION {Cells(list[i]) : i \in DOMAIN list}
  <2>1. c \in UNION {Cells(out[i]) : i \in DOMAIN out}
            <=> c \in Int /\ \E i \in 1..Len(out) : Covers(out[i], c)
    BY <1>2, <1>3, <1>5
  <2>2. c \in UNION {Cells(list[i]) : i \in DOMAIN list}
            <=> c \in Int /\ \E i \in 1..Len(list) : Covers(list[i], c)
    BY <1>4, <1>5
  <2> QED BY <1>1, <2>1, <2>2 DEF MergedUpTo
<1>7. \A i \in 1..Len(out) - 1 : out[i].end < out[i + 1].start
  BY <1>1 DEF MergedUpTo
<1> QED BY <1>6, <1>7 DEF out

(* The median is the duration of one of the fragments.                     *)
LEMMA MedianIs ==
  ASSUME NEW list, Orderly(list), Len(list) >= 2
  PROVE  \E i \in DOMAIN list : Median(list) = Duration(list[i])
<1> DEFINE D == DOMAIN list
           less(j, i) == \/ Duration(list[j]) < Duration(list[i])
                         \/ Duration(list[j]) = Duration(list[i]) /\ j < i
           R == {p \in D \X D : less(p[1], p[2])}
           shorter(i) == {j \in D : less(j, i)}
           half == Len(list) \div 2
<1>1. Len(list) \in Nat /\ D = 1..Len(list) /\ \A i \in D : Duration(list[i]) \in Int
  BY OrderlyIs DEF Duration
<1>2. IsFiniteSet(D) /\ Cardinality(D) = Len(list)
  BY <1>1, FS_Interval
<1>3. \A i, j \in D : <<j, i>> \in R <=> less(j, i)
  OBVIOUS
<1>4. StrictOrder(D, R)
  <2>1. \A x \in D : ~less(x, x)
    BY <1>1
  <2>2. \A x, y \in D : x # y => less(x, y) \/ less(y, x)
    BY <1>1
  <2>3. \A x, y, z \in D : less(x, y) /\ less(y, z) => less(x, z)
    BY <1>1
  <2> HIDE DEF less, R
  <2> QED BY <1>3, <2>1, <2>2, <2>3 DEF StrictOrder
<1>5. \A i \in D : Before(D, R, i) = shorter(i)
  BY <1>3 DEF Before
<1>6. half \in 0..Len(list) - 1
  BY <1>1
<1>7. \E i \in D : Cardinality(shorter(i)) = half
  <2> HIDE DEF D, R, shorter, half
  <2>1. \E i \in D : Cardinality(Before(D, R, i)) = half
    BY <1>2, <1>4, <1>6, EachPlace
  <2> QED BY <1>5, <2>1
<1> DEFINE m == CHOOSE i \in D : Cardinality(shorter(i)) = half
<1>8. m \in D
  BY <1>7
<1>9. Median(list) = Duration(list[m])
  <2>1. ~(Len(list) < 2)
    BY <1>1
  <2> QED BY <2>1 DEF Median
<1> HIDE DEF m
<1> QED BY <1>8, <1>9

(* A discontinuity is marked where there is a hole, or an older segment    *)
(* reaches over it, and always at a hole that is longer than two seconds   *)
(* and more than twice as long as every fragment.                          *)
LEMMA HolesOfList ==
  ASSUME NEW list, Orderly(list), NEW i \in 2..Len(list)
  PROVE  LET out == MergeRanges(list)
             gap(k) == list[k].start - list[k - 1].end
         IN  /\ Discontinuity(list, i) =>
                   \/ \E r \in DOMAIN out : out[r].start = list[i].start
                   \/ \E j \in 1..i - 2 : list[j].end >= list[i].start
                   \/ Median(list) < 0
             /\ (gap(i) > 2 * Second /\ \A j \in DOMAIN list : gap(i) > 2 * Duration(list[j]))
                   => Discontinuity(list, i)
<1> DEFINE out == MergeRanges(list)
           gap == list[i].start - list[i - 1].end
           m == Median(list)
<1>1. Len(list) \in Nat /\ DOMAIN list = 1..Len(list) /\ Len(list) >= 2 /\ i > 1
  BY OrderlyIs
<1>2. PICK h \in DOMAIN list : m = Duration(list[h])
  BY <1>1, MedianIs
<1>3. m \in Int /\ Second \in Nat /\ Second > 0
  BY <1>1, <1>2, OrderlyIs, PlaybackAssumption DEF Duration, PlaybackAssumption
<1>4. i \in 1..Len(list) /\ i - 1 \in 1..Len(list)
  BY <1>1
<1>5. list[i].start \in Int /\ list[i - 1].end \in Int /\ gap \in Int
  BY <1>4, OrderlyIs
<1>6. Discontinuity(list, i) <=> gap > (IF m = 0 THEN 2 * Second ELSE 2 * m)
  BY <1>1 DEF Discontinuity
<1>7. MergedUpTo(out, list, Len(list))
  BY MergedInTheEnd
<1>8. DOMAIN out = 1..Len(out)
  <2> HIDE DEF out
  <2> QED BY <1>7, LenProperties DEF MergedUpTo
<1> HIDE DEF out, m
<1>9. ASSUME Discontinuity(list, i), ~(m < 0)
      PROVE  \/ \E r \in DOMAIN out : out[r].start = list[i].start
             \/ \E j \in 1..i - 2 : list[j].end >= list[i].start
  <2>1. gap > 0
    <3> HIDE DEF gap
    <3> QED BY <1>3, <1>5, <1>6, <1>9
  <2>2. list[i - 1].end < list[i].start
    BY <1>5, <2>1
  <2>3. CASE Hole(list, i)
    BY <1>4, <1>7, <1>8, <2>3 DEF MergedUpTo
  <2>4. CASE ~Hole(list, i)
    <3>1. PICK j \in 1..i - 1 : ~(list[j].end < list[i].start)
      BY <2>4 DEF Hole
    <3>2. j # i - 1
      BY <2>2, <3>1
    <3>3. j \in 1..i - 2 /\ j \in 1..Len(list)
      BY <1>1, <3>1, <3>2
    <3>4. list[j].end \in Int
      BY <3>3, OrderlyIs
    <3>5. list[j].end >= list[i].start
      BY <1>5, <3>1, <3>4
    <3> QED BY <3>3, <3>5
  <2> QED BY <2>3, <2>4
<1>10. ASSUME gap > 2 * Second, \A j \in DOMAIN list : gap > 2 * Duration(list[j])
       PROVE  Discontinuity(list, i)
  <2>1. gap > 2 * m
    BY <1>2, <1>10
  <2> QED BY <1>6, <1>10, <2>1
<1> QED BY <1>9, <1>10 DEF out, m

(* Where fragments lie that a window asked for.                            *)
LEMMA PlaylistOfList ==
  ASSUME NEW list, Orderly(list), NEW from \in Int, NEW to \in Int, from < to,
         \A i \in DOMAIN list : list[i].start < to /\ list[i].end > from
  PROVE  LET p == Playlist(list, from, to)
         IN  \A i \in DOMAIN p :
               /\ p[i].dur > 0
               /\ from <= p[i].at \/ (i > 1 /\ list[i].start < list[1].end)
               /\ p[i].at + p[i].dur <= to \/ (i < Len(p) /\ list[Len(p)].start < list[i].end)
               /\ i > 1 => p[i - 1].at <= p[i].at \/ list[i].start < list[1].end
<1> DEFINE p == Playlist(list, from, to)
           n == Len(list)
           till(i) == IF i = n /\ list[i].end > to THEN to ELSE list[i].end
<1>1. n \in Nat /\ DOMAIN list = 1..n
  BY OrderlyIs
<1>2. \A i \in 1..n : /\ list[i].start \in Int /\ list[i].end \in Int
                      /\ list[i].start < to /\ list[i].end > from
  BY <1>1, OrderlyIs
<1>3. \A i \in 1..n :
          /\ p[i].at = (IF i = 1 /\ list[i].start < from THEN from ELSE list[i].start)
          /\ p[i].dur = Greater(1, till(i) - p[i].at)
  BY <1>1 DEF Playlist, FragmentStart, FragmentEnd
<1>4. DOMAIN p = 1..n /\ Len(p) = n
  <2>1. DOMAIN p = 1..n
    BY <1>1 DEF Playlist
  <2>2. p = [i \in 1..n |-> p[i]]
    BY <1>1 DEF Playlist
  <2> HIDE DEF p, n
  <2> QED BY <1>1, <2>1, <2>2
<1> HIDE DEF p, n
<1>5. \A i \in 1..n : p[i].at \in Int /\ p[i].at < to /\ till(i) \in Int
  BY <1>2, <1>3
<1>6. \A i \in 1..n : p[i].dur \in Int /\ p[i].dur > 0
                      /\ (p[i].dur = 1 \/ p[i].at + p[i].dur = till(i))
  <2> HIDE DEF till
  <2> QED BY <1>3, <1>5 DEF Greater
<1>7. ASSUME NEW i \in 1..n
      PROVE  /\ from <= p[i].at \/ (i > 1 /\ list[i].start < list[1].end)
             /\ i > 1 => p[i - 1].at <= p[i].at \/ list[i].start < list[1].end
  <2>1. CASE i = 1
    BY <1>2, <1>3, <2>1
  <2>2. CASE i # 1
    <3>1. i > 1 /\ 1 \in 1..n /\ i - 1 \in 1..n /\ i - 1 < i /\ i \in DOMAIN list
          /\ i - 1 \in DOMAIN list
      BY <1>1, <2>2
    <3>2. p[i].at = list[i].start /\ list[1].end > from /\ list[i - 1].start < list[i].start
      BY <1>2, <1>3, <2>2, <3>1 DEF Orderly
    <3>3. p[i - 1].at = list[i - 1].start \/ p[i - 1].at = from
      BY <1>3, <3>1
    <3>4. /\ list[1].end \in Int /\ list[i].start \in Int /\ list[i - 1].start \in Int
      BY <1>2, <3>1
    <3> QED BY <3>1, <3>2, <3>3, <3>4
  <2> QED BY <2>1, <2>2
<1>8. ASSUME NEW i \in 1..n
      PROVE  p[i].at + p[i].dur <= to \/ (i < n /\ list[n].start < list[i].end)
  <2>1. CASE p[i].dur = 1
    BY <1>5, <2>1
  <2>2. CASE p[i].at + p[i].dur = till(i)
    <3>1. CASE i = n
      BY <1>2, <2>2, <3>1
    <3>2. CASE i # n
      <4>1. i < n /\ n \in 1..n
        BY <1>1, <3>2
      <4>2. till(i) = list[i].end
        BY <3>2
      <4>3. list[n].start < to /\ list[n].start \in Int /\ list[i].end \in Int
        BY <1>2, <4>1
      <4> QED BY <2>2, <4>1, <4>2, <4>3
    <3> QED BY <3>1, <3>2
  <2> QED BY <1>6, <2>1, <2>2
<1>9. \A i \in DOMAIN p :
          /\ p[i].dur > 0
          /\ from <= p[i].at \/ (i > 1 /\ list[i].start < list[1].end)
          /\ p[i].at + p[i].dur <= to \/ (i < Len(p) /\ list[Len(p)].start < list[i].end)
          /\ i > 1 => p[i - 1].at <= p[i].at \/ list[i].start < list[1].end
  BY <1>4, <1>6, <1>7, <1>8
<1> QED BY <1>9 DEF p

----------------------------------------------------------------------------
(* The density.                                                            *)
LEMMA Product ==
  ASSUME NEW a \in Int, NEW b \in Int, NEW d \in Nat, a <= b
  PROVE  a * d \in Int /\ b * d \in Int /\ a * d <= b * d
<1>1. (b - a) * d >= 0
  OBVIOUS
<1>2. (b - a) * d = b * d - a * d /\ a * d \in Int /\ b * d \in Int
  OBVIOUS
<1> QED BY <1>1, <1>2

LEMMA Quotient ==
  ASSUME NEW x \in Nat, NEW d \in Nat, d > 0
  PROVE  x \div d \in Nat /\ (x \div d) * d <= x /\ x < (x \div d + 1) * d
<1>1. x = d * (x \div d) + (x % d) /\ x % d \in 0..d - 1 /\ x \div d \in Int
  OBVIOUS
<1>2. x \div d \in Nat
  OBVIOUS
<1>3. (x \div d + 1) * d = d * (x \div d) + d /\ (x \div d) * d = d * (x \div d)
      /\ d * (x \div d) \in Int
  BY <1>2
<1> QED BY <1>1, <1>2, <1>3

(* A bucket of a window.                                                   *)
LEMMA BucketIs ==
  ASSUME NEW from \in Int, NEW to \in Int, from < to, DensityDefined(from, to),
         NEW b \in 0..Buckets - 1
  PROVE  LET d == BucketDur(from, to)
         IN  /\ d \in Nat /\ d > 0 /\ Buckets \in Nat
             /\ b * d \in Int /\ (b + 1) * d \in Int /\ (b + 1) * d = b * d + d
             /\ 0 <= b * d /\ (b + 1) * d <= Buckets * d
             /\ Buckets * d \in Int /\ Buckets * d <= to - from
             /\ IsFiniteSet(Bucket(b, from, to)) /\ Cardinality(Bucket(b, from, to)) = d
<1> DEFINE d == BucketDur(from, to)
<1>1. Buckets \in Nat /\ Buckets > 0
  BY PlaybackAssumption DEF PlaybackAssumption
<1>2. d = (to - from) \div Buckets /\ to - from \in Nat
  BY DEF BucketDur
<1>3. d \in Nat /\ d > 0 /\ d * Buckets <= to - from
  BY <1>1, <1>2, Quotient DEF DensityDefined
<1>4. Buckets * d = d * Buckets /\ Buckets * d \in Int
  BY <1>1, <1>3
<1> HIDE DEF d
<1>5. b * d \in Int /\ 0 * d <= b * d /\ 0 * d = 0
  BY <1>3, Product
<1>6. (b + 1) * d \in Int /\ (b + 1) * d <= Buckets * d /\ (b + 1) * d = b * d + d
  BY <1>1, <1>3, Product
<1>7. IsFiniteSet(Bucket(b, from, to)) /\ Cardinality(Bucket(b, from, to)) = d
  <2> DEFINE lo == from + b * d
             hi == (from + (b + 1) * d) - 1
  <2>1. lo \in Int /\ hi \in Int /\ hi - lo + 1 = d /\ ~(lo > hi)
    BY <1>3, <1>5, <1>6
  <2>2. Bucket(b, from, to) = lo..hi
    BY DEF Bucket, d
  <2> HIDE DEF lo, hi
  <2> QED BY <2>1, <2>2, FS_Interval
<1> QED BY <1>1, <1>3, <1>4, <1>5, <1>6, <1>7 DEF d

(* What the loop over the buckets gives one bucket of one segment is how   *)
(* much of the segment is in it.                                           *)
LEMMA ShareOfBucket ==
  ASSUME NEW from \in Int, NEW to \in Int, from < to, DensityDefined(from, to),
         NEW b \in 0..Buckets - 1, NEW s,
         s.start \in Int, s.end \in Int, s.start < to, s.end > from
  PROVE  LET share == IF b \in BucketsOf(s, from, to) THEN Covered(s, b, from, to) ELSE 0
             there == Cells(s) \cap Bucket(b, from, to)
         IN  share \in Nat /\ IsFiniteSet(there) /\ Cardinality(there) = share
<1> DEFINE d == BucketDur(from, to)
           lo == from + b * d
           hi == from + (b + 1) * d
           head == Greater(s.start, lo)
           tail == Lesser(s.end, hi)
           there == Cells(s) \cap Bucket(b, from, to)
           share == IF b \in BucketsOf(s, from, to) THEN Covered(s, b, from, to) ELSE 0
<1>1. /\ d \in Nat /\ d > 0 /\ Buckets \in Nat
      /\ lo \in Int /\ hi \in Int /\ from <= lo /\ lo < hi /\ hi <= to
  BY BucketIs
<1>2. there = head..tail - 1
  <2>1. Cells(s) = s.start..s.end - 1
    BY DEF Cells
  <2>2. Bucket(b, from, to) = lo..hi - 1
    BY DEF Bucket
  <2> HIDE DEF lo, hi, d
  <2> QED BY <1>1, <2>1, <2>2 DEF Greater, Lesser
<1>3. head \in Int /\ tail \in Int
  <2> HIDE DEF lo, hi, d
  <2> QED BY <1>1 DEF Greater, Lesser
<1>4. /\ IsFiniteSet(there)
      /\ Cardinality(there) = IF head < tail THEN tail - head ELSE 0
  <2> HIDE DEF head, tail, there
  <2>1. tail - 1 \in Int /\ (head > tail - 1 <=> ~(head < tail)) /\ (tail - 1) - head + 1 = tail - head
    BY <1>3
  <2> QED BY <1>2, <1>3, <2>1, FS_Interval
<1>5. Covered(s, b, from, to) = IF head < tail THEN tail - head ELSE 0
  <2>1. Covered(s, b, from, to) =
            Greater(0, Lesser(Lesser(s.end, to), hi) - Greater(Greater(s.start, from), lo))
    BY DEF Covered
  <2> HIDE DEF lo, hi, d
  <2>2. Lesser(Lesser(s.end, to), hi) = tail /\ Greater(Greater(s.start, from), lo) = head
    BY <1>1 DEF Greater, Lesser
  <2> QED BY <1>3, <2>1, <2>2 DEF Greater
<1>6. ASSUME b \notin BucketsOf(s, from, to) PROVE ~(head < tail)
  <2> DEFINE x == Greater(s.start, from) - from
             y == Lesser(s.end, to) - from - 1
  <2>1. x \in Nat /\ y \in Nat
    BY DEF Greater, Lesser
  <2>2. /\ x \div d \in Nat /\ (x \div d) * d <= x
        /\ y \div d \in Nat /\ y < (y \div d + 1) * d
        /\ (x \div d) * d \in Int /\ (y \div d + 1) * d \in Int
    <3> HIDE DEF x, y, d
    <3> QED BY <1>1, <2>1, Quotient
  <2>3. BucketsOf(s, from, to) = (x \div d)..Lesser(y \div d, Buckets - 1)
    BY <2>2 DEF BucketsOf
  <2> HIDE DEF d
  <2>4. b < x \div d \/ y \div d < b
    <3> HIDE DEF x, y
    <3> QED BY <1>1, <1>6, <2>2, <2>3 DEF Lesser
  <2>5. CASE b < x \div d
    <3>1. (b + 1) * d <= (x \div d) * d
      <4> HIDE DEF x
      <4> QED BY <1>1, <2>2, <2>5, Product
    <3>2. hi <= from + x
      <4> HIDE DEF x
      <4>1. x \in Int /\ (b + 1) * d \in Int
        BY <1>1, <2>1
      <4> QED BY <2>2, <3>1, <4>1
    <3> HIDE DEF lo, hi
    <3>3. hi <= s.start
      BY <1>1, <3>2 DEF Greater
    <3> QED BY <1>1, <3>3 DEF Greater, Lesser
  <2>6. CASE y \div d < b
    <3>1. (y \div d + 1) * d <= b * d
      <4> HIDE DEF y
      <4> QED BY <1>1, <2>2, <2>6, Product
    <3>2. from + y < lo
      <4> HIDE DEF y
      <4>1. y \in Int /\ b * d \in Int
        BY <1>1, <2>1
      <4> QED BY <2>2, <3>1, <4>1
    <3> HIDE DEF lo, hi
    <3>3. s.end <= lo
      BY <1>1, <3>2 DEF Lesser
    <3> QED BY <1>1, <3>3 DEF Greater, Lesser
  <2> QED BY <2>4, <2>5, <2>6
<1>7. share \in Nat /\ Cardinality(there) = share
  <2> HIDE DEF head, tail, there
  <2> QED BY <1>3, <1>4, <1>5, <1>6
<1> HIDE DEF share, there
<1>8. share \in Nat /\ IsFiniteSet(there) /\ Cardinality(there) = share
  BY <1>4, <1>7
<1> QED BY <1>8 DEF share, there

(* The motion of a bucket: what is counted of it is never less than what   *)
(* is there, and the same where no two segments share a part of it.        *)
DensityCounts(list, from, to, b) ==
    LET density == Density(list, from, to)[b + 1]
        covered == Cardinality(Motion(list) \cap Bucket(b, from, to))
    IN  /\ density = Lesser(BucketDur(from, to), Total(Shares(list, b, from, to)))
        /\ covered <= density
        /\ MotionApart(list, b, from, to) => density = covered

LEMMA DensityOfList ==
  ASSUME NEW list, Orderly(list), NEW from \in Int, NEW to \in Int, from < to,
         \A i \in DOMAIN list : list[i].start < to /\ list[i].end > from,
         DensityDefined(from, to), NEW b \in 0..Buckets - 1
  PROVE  DensityCounts(list, from, to, b)
<1> DEFINE n == Len(list)
           d == BucketDur(from, to)
           f == MotionIn(list, b, from, to)
           g == Shares(list, b, from, to)
           B == Bucket(b, from, to)
           share(k) == IF b \in BucketsOf(list[k], from, to)
                       THEN Covered(list[k], b, from, to) ELSE 0
           part == [k \in 1..n |-> IF list[k].motion THEN Cells(list[k]) \cap B ELSE {}]
           covered == Cardinality(Motion(list) \cap B)
           density == Density(list, from, to)[b + 1]
<1>1. n \in Nat /\ DOMAIN list = 1..n
  BY OrderlyIs
<1>2. \A k \in 1..n : /\ list[k].start \in Int /\ list[k].end \in Int
                      /\ list[k].start < to /\ list[k].end > from
  BY <1>1, OrderlyIs
<1>3. \A k \in 1..n : /\ share(k) \in Nat /\ IsFiniteSet(Cells(list[k]) \cap B)
                      /\ Cardinality(Cells(list[k]) \cap B) = share(k)
  BY <1>2, ShareOfBucket
<1>4. IsFiniteSet(B) /\ Cardinality(B) = d /\ d \in Nat /\ Buckets \in Nat
  BY BucketIs
<1>5. density = Lesser(d, Total(f))
  <2>1. b + 1 \in 1..Buckets /\ (b + 1) - 1 = b
    BY <1>4
  <2> HIDE DEF d
  <2> QED BY <2>1 DEF Density, d
<1> HIDE DEF share, B, d, density
<1>6. \A k \in 1..n : list[k].motion \in BOOLEAN
  BY <1>1, OrderlyIs DEF Segment
<1>7. f = [k \in 1..n |-> IF list[k].motion THEN share(k) ELSE 0]
  <2>1. f = [k \in 1..n |-> IF list[k].motion /\ b \in BucketsOf(list[k], from, to)
                            THEN Covered(list[k], b, from, to) ELSE 0]
    BY <1>1 DEF MotionIn
  <2>2. \A k \in 1..n :
            (IF list[k].motion /\ b \in BucketsOf(list[k], from, to)
             THEN Covered(list[k], b, from, to) ELSE 0)
                = (IF list[k].motion THEN share(k) ELSE 0)
    BY <1>6 DEF share
  <2> HIDE DEF f
  <2> QED BY <2>1, <2>2
<1>8. g = f
  <2>1. g = [k \in 1..n |-> IF list[k].motion THEN Cardinality(Cells(list[k]) \cap B) ELSE 0]
    BY <1>1 DEF Shares, B
  <2>2. \A k \in 1..n : (IF list[k].motion THEN Cardinality(Cells(list[k]) \cap B) ELSE 0)
                            = (IF list[k].motion THEN share(k) ELSE 0)
    BY <1>3, <1>6
  <2> HIDE DEF f, g
  <2> QED BY <1>7, <2>1, <2>2
<1>9. f \in [1..n -> Nat]
  <2> HIDE DEF f
  <2> QED BY <1>3, <1>7
<1>10. \A k \in 1..n : IsFiniteSet(part[k]) /\ Cardinality(part[k]) = f[k]
  <2> SUFFICES ASSUME NEW k \in 1..n PROVE IsFiniteSet(part[k]) /\ Cardinality(part[k]) = f[k]
    OBVIOUS
  <2> HIDE DEF f
  <2>1. CASE list[k].motion
    BY <1>3, <1>7, <2>1
  <2>2. CASE ~list[k].motion
    <3>1. part[k] = {} /\ f[k] = 0
      BY <1>7, <2>2
    <3> QED BY <3>1, FS_EmptySet
  <2> QED BY <2>1, <2>2
<1>11. Whole(n, part) = Motion(list) \cap B
  <2>1. Motion(list) = UNION {Cells(list[i]) : i \in {j \in 1..n : list[j].motion}}
    BY <1>1 DEF Motion
  <2>2. ASSUME NEW c
        PROVE  c \in UNION {part[k] : k \in 1..n} <=> c \in Motion(list) \cap B
    <3>1. c \in UNION {part[k] : k \in 1..n} <=> \E k \in 1..n : c \in part[k]
      OBVIOUS
    <3>2. \A k \in 1..n : c \in part[k] <=> list[k].motion /\ c \in Cells(list[k]) /\ c \in B
      OBVIOUS
    <3>3. c \in Motion(list) <=> \E k \in 1..n : list[k].motion /\ c \in Cells(list[k])
      BY <2>1
    <3> HIDE DEF part
    <3> QED BY <3>1, <3>2, <3>3
  <2> QED BY <2>2 DEF Whole
<1>12. MotionApart(list, b, from, to) =>
           \A k, l \in 1..n : k < l => part[k] \cap part[l] = {}
  <2> SUFFICES ASSUME MotionApart(list, b, from, to), NEW k \in 1..n, NEW l \in 1..n, k < l,
                      NEW c, c \in part[k], c \in part[l]
               PROVE  FALSE
    OBVIOUS
  <2>1. /\ list[k].motion /\ list[l].motion
        /\ c \in Cells(list[k]) /\ c \in Cells(list[l]) /\ c \in B
    OBVIOUS
  <2>2. k # l /\ k \in DOMAIN list /\ l \in DOMAIN list
    BY <1>1
  <2>3. Cells(list[k]) \cap Cells(list[l]) \cap B = {}
    BY <2>1, <2>2 DEF MotionApart, B
  <2> HIDE DEF part
  <2> QED BY <2>1, <2>3
<1> HIDE DEF f, g, part, n
<1>13. IsFiniteSet(Whole(n, part)) /\ Total(f) \in Nat /\ covered <= Total(f)
  <2>1. /\ IsFiniteSet(Whole(n, part)) /\ Total(f) \in Nat
        /\ Cardinality(Whole(n, part)) <= Total(f)
    BY <1>1, <1>9, <1>10, TotalBounds
  <2> QED BY <1>11, <2>1
<1>14. covered \in Nat /\ covered <= d
  <2>1. IsFiniteSet(Motion(list) \cap B) /\ covered <= Cardinality(B)
    BY <1>4, FS_Subset
  <2> QED BY <1>4, <2>1, FS_CardinalityType
<1>15. MotionApart(list, b, from, to) => Total(f) = covered
  <2> SUFFICES ASSUME MotionApart(list, b, from, to) PROVE Total(f) = covered
    OBVIOUS
  <2>1. Counted(n, f, part)
    BY <1>9, <1>10, <1>12 DEF Counted
  <2> QED BY <1>1, <1>11, <2>1, TotalCounts
<1> HIDE DEF covered
<1>16. /\ density = Lesser(d, Total(g)) /\ covered <= density
       /\ MotionApart(list, b, from, to) => density = covered
  BY <1>4, <1>5, <1>8, <1>13, <1>14, <1>15 DEF Lesser
<1> QED BY <1>16, Zenon DEF DensityCounts, density, covered, d, g, B

----------------------------------------------------------------------------
(* The index. Segments are cut at any time, and indexed in any order; no   *)
(* two that are indexed start at the same time.                            *)
StartsOf(list) == [i \in DOMAIN list |-> list[i].start]
PbInv ==
    /\ segs \in Seq(Segment) /\ indexed \subseteq DOMAIN segs
    /\ \A i, j \in indexed : i # j => segs[i].start # segs[j].start

LEMMA PbIs ==
  ASSUME PbInv
  PROVE  /\ Len(segs) \in Nat /\ DOMAIN segs = 1..Len(segs) /\ segs \in Seq(Segment)
         /\ IsFiniteSet(indexed) /\ indexed \subseteq 1..Len(segs)
         /\ \A i \in 1..Len(segs) :
               segs[i] \in Segment /\ segs[i].start \in Int /\ segs[i].end \in Int
<1>1. segs \in Seq(Segment) /\ Len(segs) \in Nat /\ DOMAIN segs = 1..Len(segs)
  BY LenProperties DEF PbInv
<1>2. \A i \in 1..Len(segs) : segs[i] \in Segment
  BY <1>1, ElementOfSeq
<1>3. indexed \subseteq 1..Len(segs)
  BY <1>1 DEF PbInv
<1>4. IsFiniteSet(indexed)
  <2>1. 1 \in Int /\ Len(segs) \in Int
    BY <1>1
  <2>2. IsFiniteSet(1..Len(segs))
    BY <2>1, FS_Interval
  <2> QED BY <1>3, <2>2, FS_Subset
<1> QED BY <1>1, <1>2, <1>3, <1>4 DEF Segment

LEMMA PbInitially == PlaybackInit => PbInv
<1> SUFFICES ASSUME PlaybackInit PROVE PbInv
  OBVIOUS
<1>1. segs = <<>> /\ indexed = {}
  BY DEF PlaybackInit
<1>2. segs \in Seq(Segment)
  BY <1>1, EmptySeq
<1> QED BY <1>1, <1>2 DEF PbInv

LEMMA PbSteps == PbInv /\ [PlaybackNext]_playbackVars => PbInv'
<1> SUFFICES ASSUME PbInv, [PlaybackNext]_playbackVars PROVE PbInv'
  OBVIOUS
<1> DEFINE n == Len(segs)
<1>1. /\ n \in Nat /\ DOMAIN segs = 1..n /\ segs \in Seq(Segment) /\ indexed \subseteq 1..n
      /\ \A i \in 1..n : segs[i].end \in Int
  BY PbIs
<1>2. CASE CutSegment
  <2>1. PICK s \in Starts, len \in Lengths, m \in BOOLEAN :
          segs' = Append(segs, [start |-> s, end |-> s + len, motion |-> m])
    BY <1>2 DEF CutSegment
  <2>2. len \in Int /\ Pauses \subseteq Int
    BY PlaybackAssumption DEF PlaybackAssumption
  <2>3. s \in Int
    <3>1. CASE segs = <<>>
      BY <3>1 DEF Starts
    <3>2. CASE segs # <<>>
      <4>1. n \in 1..n
        BY <1>1, <3>2, EmptySeq
      <4>2. PICK p \in Pauses : s = segs[n].end + p
        BY <3>2 DEF Starts, Last
      <4>3. p \in Int /\ segs[n].end \in Int
        BY <1>1, <2>2, <4>1
      <4> QED BY <4>2, <4>3
    <3> QED BY <3>1, <3>2
  <2> DEFINE new == [start |-> s, end |-> s + len, motion |-> m]
  <2>4. new \in Segment
    BY <2>2, <2>3 DEF Segment
  <2>5. /\ segs' \in Seq(Segment) /\ Len(segs') = n + 1
        /\ \A i \in 1..n : segs'[i] = segs[i]
    <3> HIDE DEF new
    <3> QED BY <1>1, <2>1, <2>4, AppendProperties DEF new
  <2>6. DOMAIN segs' = 1..n + 1
    BY <2>5, LenProperties
  <2>7. indexed' = indexed /\ indexed \subseteq 1..n + 1
    BY <1>1, <1>2 DEF CutSegment
  <2>8. \A i \in indexed : segs'[i] = segs[i]
    BY <1>1, <2>5
  <2>9. \A i, j \in indexed : i # j => segs'[i].start # segs'[j].start
    BY <2>8 DEF PbInv
  <2> QED BY <2>5, <2>6, <2>7, <2>9 DEF PbInv
<1>3. CASE IndexSegment
  <2>1. PICK x \in DOMAIN segs : /\ \A j \in indexed : segs[j].start # segs[x].start
                                 /\ indexed' = indexed \cup {x} /\ segs' = segs
    BY <1>3 DEF IndexSegment
  <2>2. \A i, j \in indexed' : i # j => segs[i].start # segs[j].start
    BY <2>1 DEF PbInv
  <2> QED BY <2>1, <2>2 DEF PbInv
<1>4. CASE UNCHANGED playbackVars
  BY <1>4 DEF playbackVars, PbInv
<1> QED BY <1>2, <1>3, <1>4 DEF PlaybackNext

LEMMA PbAlways == PlaybackSpec => []PbInv
BY PbInitially, PbSteps, PTL DEF PlaybackSpec

(* ORDER BY start_ts lists the segments asked for in the order of their    *)
(* starts, each of them once.                                              *)
InOrder(pos, I) ==
    /\ pos \in [1..Cardinality(I) -> I]
    /\ \A k, l \in 1..Cardinality(I) : k < l => segs[pos[k]].start < segs[pos[l]].start
    /\ \A i \in I : \E k \in 1..Cardinality(I) : pos[k] = i

LEMMA ByStartIs ==
  ASSUME PbInv, NEW I, I \subseteq indexed
  PROVE  /\ IsFiniteSet(I) /\ Cardinality(I) \in Nat
         /\ \E pos : /\ InOrder(pos, I)
                     /\ ByStart(I) = [k \in 1..Cardinality(I) |-> segs[pos[k]]]
<1> DEFINE R == {p \in I \X I : segs[p[1]].start < segs[p[2]].start}
           n == Cardinality(I)
           before(i) == {j \in I : Earlier(j, i)}
           pos == [k \in 1..n |-> CHOOSE i \in I : Cardinality(before(i)) = k - 1]
<1>1. \A i \in I : i \in indexed /\ segs[i].start \in Int
  BY PbIs
<1>2. IsFiniteSet(I) /\ n \in Nat
  BY PbIs, FS_Subset, FS_CardinalityType
<1>3. \A i, j \in I : <<j, i>> \in R <=> segs[j].start < segs[i].start
  OBVIOUS
<1>4. StrictOrder(I, R)
  <2>1. \A i, j \in I : i # j => segs[i].start # segs[j].start
    BY <1>1 DEF PbInv
  <2> HIDE DEF R
  <2>2. \A x \in I : <<x, x>> \notin R
    BY <1>1, <1>3
  <2>3. \A x, y \in I : x # y => <<x, y>> \in R \/ <<y, x>> \in R
    BY <1>1, <1>3, <2>1
  <2>4. \A x, y, z \in I : <<x, y>> \in R /\ <<y, z>> \in R => <<x, z>> \in R
    BY <1>1, <1>3
  <2> QED BY <2>2, <2>3, <2>4 DEF StrictOrder
<1>5. \A i \in I : before(i) = Before(I, R, i)
  BY <1>3 DEF Before, Earlier
<1> HIDE DEF R, before
<1>6. /\ \A i \in I : Cardinality(before(i)) \in 0..n - 1
      /\ \A i, j \in I : segs[i].start < segs[j].start
             <=> Cardinality(before(i)) < Cardinality(before(j))
      /\ \A k \in 0..n - 1 : \E i \in I : Cardinality(before(i)) = k
  <2>1. /\ \A i \in I : Cardinality(Before(I, R, i)) \in 0..n - 1
        /\ \A i, j \in I : <<i, j>> \in R
               <=> Cardinality(Before(I, R, i)) < Cardinality(Before(I, R, j))
        /\ \A k \in 0..n - 1 : \E i \in I : Cardinality(Before(I, R, i)) = k
    BY <1>2, <1>4, EachPlace
  <2> QED BY <1>3, <1>5, <2>1
<1>7. \A k \in 1..n : pos[k] \in I /\ Cardinality(before(pos[k])) = k - 1
  <2> SUFFICES ASSUME NEW k \in 1..n
               PROVE  pos[k] \in I /\ Cardinality(before(pos[k])) = k - 1
    OBVIOUS
  <2>1. k - 1 \in 0..n - 1
    BY <1>2
  <2>2. \E i \in I : Cardinality(before(i)) = k - 1
    BY <1>6, <2>1
  <2>3. pos[k] = CHOOSE i \in I : Cardinality(before(i)) = k - 1
    OBVIOUS
  <2> HIDE DEF pos
  <2> QED BY <2>2, <2>3
<1>8. ByStart(I) = [k \in 1..n |-> segs[pos[k]]]
  BY DEF ByStart, before
<1> HIDE DEF pos
<1>9. pos \in [1..n -> I]
  <2>1. pos = [k \in 1..n |-> pos[k]]
    BY DEF pos
  <2> QED BY <1>7, <2>1
<1>10. \A k, l \in 1..n : k < l => segs[pos[k]].start < segs[pos[l]].start
  <2> SUFFICES ASSUME NEW k \in 1..n, NEW l \in 1..n, k < l
               PROVE  segs[pos[k]].start < segs[pos[l]].start
    OBVIOUS
  <2>1. pos[k] \in I /\ pos[l] \in I
    BY <1>7
  <2>2. Cardinality(before(pos[k])) < Cardinality(before(pos[l]))
    <3>1. Cardinality(before(pos[k])) = k - 1 /\ Cardinality(before(pos[l])) = l - 1
      BY <1>7
    <3> QED BY <1>2, <3>1
  <2> QED BY <1>6, <2>1, <2>2
<1>11. \A i \in I : \E k \in 1..n : pos[k] = i
  <2> SUFFICES ASSUME NEW i \in I PROVE \E k \in 1..n : pos[k] = i
    OBVIOUS
  <2> DEFINE k == Cardinality(before(i)) + 1
  <2>1. k \in 1..n /\ k - 1 = Cardinality(before(i))
    BY <1>2, <1>6
  <2>2. pos[k] \in I /\ ~(segs[pos[k]].start < segs[i].start) /\ ~(segs[i].start < segs[pos[k]].start)
    <3> HIDE DEF k
    <3>1. pos[k] \in I /\ Cardinality(before(pos[k])) = Cardinality(before(i))
      BY <1>7, <2>1
    <3>2. Cardinality(before(i)) \in Int
      BY <1>6
    <3> QED BY <1>6, <3>1, <3>2
  <2> HIDE DEF k
  <2>3. segs[pos[k]].start = segs[i].start
    <3>1. segs[pos[k]].start \in Int /\ segs[i].start \in Int
      BY <1>1, <2>2
    <3> QED BY <2>2, <3>1
  <2>4. pos[k] = i
    BY <1>1, <2>2, <2>3 DEF PbInv
  <2> QED BY <2>1, <2>4
<1>12. InOrder(pos, I)
  BY <1>9, <1>10, <1>11 DEF InOrder
<1> QED BY <1>2, <1>8, <1>12

LEMMA ListIs ==
  ASSUME PbInv, NEW I, I \subseteq indexed
  PROVE  /\ Orderly(ByStart(I))
         /\ \A k \in DOMAIN ByStart(I) : \E i \in I : ByStart(I)[k] = segs[i]
<1> DEFINE n == Cardinality(I)
           list == ByStart(I)
<1>1. n \in Nat
  BY ByStartIs
<1>2. PICK pos : InOrder(pos, I) /\ list = [k \in 1..n |-> segs[pos[k]]]
  BY ByStartIs
<1>3. \A i \in I : segs[i] \in Segment
  BY PbIs
<1>4. \A k \in 1..n : pos[k] \in I
  BY <1>2 DEF InOrder
<1> HIDE DEF list
<1>5. list \in Seq(Segment)
  BY <1>1, <1>2, <1>3, <1>4
<1>6. DOMAIN list = 1..n /\ \A k \in 1..n : list[k] = segs[pos[k]]
  BY <1>2
<1>7. \A k, l \in 1..n : k < l => list[k].start < list[l].start
  BY <1>2, <1>6 DEF InOrder
<1>8. Orderly(list)
  BY <1>5, <1>6, <1>7 DEF Orderly
<1>9. \A k \in DOMAIN list : \E i \in I : list[k] = segs[i]
  BY <1>4, <1>6
<1> QED BY <1>8, <1>9 DEF list

(* What a window is answered with is orderly and lies in the window.       *)
LEMMA InWindow ==
  ASSUME PbInv, NEW w \in Asked
  PROVE  LET list == SegmentsInRange(w[1], w[2])
         IN  /\ w[1] \in Int /\ w[2] \in Int /\ w[1] < w[2]
             /\ Orderly(list)
             /\ \A k \in DOMAIN list : list[k].start < w[2] /\ list[k].end > w[1]
<1> DEFINE I == {i \in indexed : segs[i].start < w[2] /\ segs[i].end > w[1]}
<1>1. w[1] \in Int /\ w[2] \in Int /\ w[1] < w[2]
  <2>1. w \in Times \X Times /\ w[1] < w[2]
    BY DEF Asked, Windows
  <2> QED BY <2>1, PlaybackAssumption DEF PlaybackAssumption
<1>2. SegmentsInRange(w[1], w[2]) = ByStart(I)
  BY DEF SegmentsInRange
<1>3. I \subseteq indexed /\ \A i \in I : segs[i].start < w[2] /\ segs[i].end > w[1]
  OBVIOUS
<1> HIDE DEF I
<1>4. Orderly(ByStart(I)) /\ \A k \in DOMAIN ByStart(I) : \E i \in I : ByStart(I)[k] = segs[i]
  BY <1>3, ListIs
<1> QED BY <1>1, <1>2, <1>3, <1>4

(* However segments overlap, in whichever order they are indexed and       *)
(* whatever the window: the coverage the timeline shows is what they       *)
(* cover, the density counts the motion of every bucket, a playlist marks  *)
(* the holes of the coverage, and what it announces lies in the window but *)
(* for what overlaps its first or last fragment.                           *)
THEOREM PlaybackIsSafe == PlaybackSpec => []PlaybackSafe
<1>1. PbInv => PlaybackSafe
  <2> SUFFICES ASSUME PbInv PROVE PlaybackSafe
    OBVIOUS
  <2>1. PlaybackTypeOK
    BY DEF PbInv, PlaybackTypeOK
  <2>2. MergedIsCoverage
    <3> SUFFICES ASSUME NEW w \in Asked
                 PROVE  LET list == SegmentsInRange(w[1], w[2])
                            out == MergeRanges(list)
                        IN  /\ UNION {Cells(out[i]) : i \in DOMAIN out}
                                   = UNION {Cells(list[i]) : i \in DOMAIN list}
                            /\ \A i \in 1..Len(out) - 1 : out[i].end < out[i + 1].start
      BY Zenon DEF MergedIsCoverage
    <3>1. Orderly(SegmentsInRange(w[1], w[2]))
      BY InWindow
    <3> QED BY <3>1, CoverageOfList, Zenon
  <2>3. DensityConserves
    <3>1. ASSUME NEW w \in Asked, DensityDefined(w[1], w[2]), NEW b \in 0..Buckets - 1
          PROVE  DensityCounts(SegmentsInRange(w[1], w[2]), w[1], w[2], b)
      <4> DEFINE list == SegmentsInRange(w[1], w[2])
      <4>1. /\ w[1] \in Int /\ w[2] \in Int /\ w[1] < w[2] /\ Orderly(list)
            /\ \A k \in DOMAIN list : list[k].start < w[2] /\ list[k].end > w[1]
        BY InWindow
      <4> HIDE DEF list
      <4>2. DensityCounts(list, w[1], w[2], b)
        BY <3>1, <4>1, DensityOfList
      <4> QED BY <4>2 DEF list
    <3> QED BY <3>1, Zenon DEF DensityConserves, DensityCounts
  <2>4. PlaylistMarksHoles
    <3> SUFFICES ASSUME NEW w \in Asked, NEW i \in 2..Len(SegmentsInRange(w[1], w[2]))
                 PROVE  LET list == SegmentsInRange(w[1], w[2])
                            out == MergeRanges(list)
                            gap(k) == list[k].start - list[k - 1].end
                        IN  /\ Discontinuity(list, i) =>
                                  \/ \E r \in DOMAIN out : out[r].start = list[i].start
                                  \/ \E j \in 1..i - 2 : list[j].end >= list[i].start
                                  \/ Median(list) < 0
                            /\ (gap(i) > 2 * Second
                                  /\ \A j \in DOMAIN list : gap(i) > 2 * Duration(list[j]))
                                   => Discontinuity(list, i)
      BY Zenon DEF PlaylistMarksHoles
    <3>1. Orderly(SegmentsInRange(w[1], w[2]))
      BY InWindow
    <3> QED BY <3>1, HolesOfList, Zenon
  <2>5. PlaylistWithinWindow
    <3> SUFFICES ASSUME NEW w \in Asked
                 PROVE  LET list == SegmentsInRange(w[1], w[2])
                            p == Playlist(list, w[1], w[2])
                        IN  \A i \in DOMAIN p :
                              /\ p[i].dur > 0
                              /\ w[1] <= p[i].at \/ (i > 1 /\ list[i].start < list[1].end)
                              /\ \/ p[i].at + p[i].dur <= w[2]
                                 \/ i < Len(p) /\ list[Len(p)].start < list[i].end
                              /\ i > 1 => p[i - 1].at <= p[i].at \/ list[i].start < list[1].end
      BY Zenon DEF PlaylistWithinWindow
    <3> DEFINE list == SegmentsInRange(w[1], w[2])
    <3>1. /\ w[1] \in Int /\ w[2] \in Int /\ w[1] < w[2] /\ Orderly(list)
          /\ \A k \in DOMAIN list : list[k].start < w[2] /\ list[k].end > w[1]
      BY InWindow
    <3> HIDE DEF list
    <3>2. LET p == Playlist(list, w[1], w[2])
          IN  \A i \in DOMAIN p :
                /\ p[i].dur > 0
                /\ w[1] <= p[i].at \/ (i > 1 /\ list[i].start < list[1].end)
                /\ p[i].at + p[i].dur <= w[2] \/ (i < Len(p) /\ list[Len(p)].start < list[i].end)
                /\ i > 1 => p[i - 1].at <= p[i].at \/ list[i].start < list[1].end
      BY <3>1, PlaylistOfList
    <3> QED BY <3>2, Zenon DEF list
  <2> QED BY <2>1, <2>2, <2>3, <2>4, <2>5 DEF PlaybackSafe
<1> QED BY <1>1, PbAlways, PTL

----------------------------------------------------------------------------
(* The live playlist: the newest LiveLimit of what is indexed, by their    *)
(* starts v. One more segment in the index leaves the oldest of them or    *)
(* drops it.                                                               *)
ToldApart(v, I) ==
    /\ IsFiniteSet(I) /\ \A i \in I : v[i] \in Int
    /\ \A i, j \in I : i # j => v[i] # v[j]
After(v, I, m) == {j \in I : v[m] < v[j]}
Newest(v, I) == {i \in I : Cardinality(After(v, I, i)) < LiveLimit}

LEMMA NewestHaveFirst ==
  ASSUME NEW v, NEW I, ToldApart(v, I), Cardinality(I) >= LiveLimit
  PROVE  \E m \in I : /\ IsFiniteSet(After(v, I, m))
                      /\ Cardinality(After(v, I, m)) = LiveLimit - 1
                      /\ \A i \in Newest(v, I) : v[m] <= v[i]
<1> DEFINE R == {p \in I \X I : v[p[2]] < v[p[1]]}
<1>1. LiveLimit \in Nat /\ LiveLimit > 0
  BY PlaybackAssumption DEF PlaybackAssumption
<1>2. IsFiniteSet(I) /\ Cardinality(I) \in Nat
  BY FS_CardinalityType DEF ToldApart
<1>3. \A i, j \in I : <<j, i>> \in R <=> v[i] < v[j]
  OBVIOUS
<1>4. \A i \in I : v[i] \in Int
  BY DEF ToldApart
<1>5. StrictOrder(I, R)
  <2> HIDE DEF R
  <2>1. \A x \in I : <<x, x>> \notin R
    BY <1>3, <1>4
  <2>2. \A x, y \in I : x # y => <<x, y>> \in R \/ <<y, x>> \in R
    BY <1>3, <1>4 DEF ToldApart
  <2>3. \A x, y, z \in I : <<x, y>> \in R /\ <<y, z>> \in R => <<x, z>> \in R
    BY <1>3, <1>4
  <2> QED BY <2>1, <2>2, <2>3 DEF StrictOrder
<1>6. \A i \in I : Before(I, R, i) = After(v, I, i)
  BY <1>3 DEF Before, After
<1>7. \A i \in I : IsFiniteSet(After(v, I, i))
  BY <1>2, FS_Subset DEF After
<1> HIDE DEF R
<1>8. /\ \A i \in I : Cardinality(After(v, I, i)) \in 0..Cardinality(I) - 1
      /\ \A i, j \in I : v[i] < v[j] <=> Cardinality(After(v, I, j)) < Cardinality(After(v, I, i))
      /\ \A k \in 0..Cardinality(I) - 1 : \E i \in I : Cardinality(After(v, I, i)) = k
  <2>1. /\ \A i \in I : Cardinality(Before(I, R, i)) \in 0..Cardinality(I) - 1
        /\ \A i, j \in I : <<i, j>> \in R
               <=> Cardinality(Before(I, R, i)) < Cardinality(Before(I, R, j))
        /\ \A k \in 0..Cardinality(I) - 1 : \E i \in I : Cardinality(Before(I, R, i)) = k
    BY <1>2, <1>5, EachPlace
  <2> QED BY <1>3, <1>6, <2>1
<1>9. LiveLimit - 1 \in 0..Cardinality(I) - 1
  BY <1>1, <1>2
<1>10. PICK m \in I : Cardinality(After(v, I, m)) = LiveLimit - 1
  BY <1>8, <1>9
<1>11. ASSUME NEW i \in Newest(v, I) PROVE v[m] <= v[i]
  <2>1. i \in I /\ Cardinality(After(v, I, i)) < LiveLimit
    BY DEF Newest
  <2>2. ~(v[i] < v[m])
    <3>1. Cardinality(After(v, I, i)) \in Int
      BY <1>8, <2>1
    <3> QED BY <1>1, <1>8, <1>10, <2>1, <3>1
  <2> QED BY <1>4, <2>1, <2>2
<1> QED BY <1>7, <1>10, <1>11

LEMMA NewestGrow ==
  ASSUME NEW v, NEW I, NEW x, ToldApart(v, I \cup {x}), Cardinality(I) >= LiveLimit,
         NEW m \in Newest(v, I), \A i \in Newest(v, I) : v[m] <= v[i]
  PROVE  \A i \in Newest(v, I \cup {x}) : v[m] <= v[i]
<1> DEFINE J == I \cup {x}
           newer == After(v, I, m)
<1>1. LiveLimit \in Nat /\ LiveLimit > 0
  BY PlaybackAssumption DEF PlaybackAssumption
<1>2. ToldApart(v, I) /\ IsFiniteSet(J) /\ \A i \in J : v[i] \in Int
  <2>1. IsFiniteSet(I)
    BY FS_Subset DEF ToldApart
  <2> QED BY <2>1 DEF ToldApart
<1>3. PICK e \in I : /\ IsFiniteSet(After(v, I, e))
                     /\ Cardinality(After(v, I, e)) = LiveLimit - 1
                     /\ \A i \in Newest(v, I) : v[e] <= v[i]
  BY <1>2, NewestHaveFirst
<1>4. m \in I /\ v[m] \in Int
  BY <1>2 DEF Newest
<1>5. e = m
  <2>1. e \in Newest(v, I) /\ v[e] \in Int
    BY <1>1, <1>2, <1>3 DEF Newest
  <2>2. v[e] = v[m]
    BY <1>3, <1>4, <2>1
  <2> QED BY <1>2, <1>3, <1>4, <2>2 DEF ToldApart
<1>6. IsFiniteSet(newer) /\ Cardinality(newer) = LiveLimit - 1
  BY <1>3, <1>5
<1>7. ASSUME NEW i \in Newest(v, J), v[i] < v[m] PROVE FALSE
  <2> DEFINE after == After(v, J, i)
  <2>1. Cardinality(after) < LiveLimit /\ i \in J /\ v[i] \in Int
    BY <1>2 DEF Newest
  <2>2. newer \cup {m} \subseteq after /\ m \notin newer
    <3>1. m \in after
      BY <1>4, <1>7 DEF After
    <3>2. ASSUME NEW j \in newer PROVE j \in after
      <4>1. j \in I /\ v[j] \in Int /\ v[m] < v[j]
        BY <1>2 DEF After
      <4>2. v[i] < v[j]
        BY <1>4, <1>7, <2>1, <4>1
      <4> QED BY <4>1, <4>2 DEF After
    <3>3. m \notin newer
      BY <1>4 DEF After
    <3> HIDE DEF after, newer
    <3> QED BY <3>1, <3>2, <3>3
  <2>3. IsFiniteSet(after)
    BY <1>2, FS_Subset DEF After
  <2> HIDE DEF after, newer
  <2>4. Cardinality(newer \cup {m}) = LiveLimit
    <3>1. Cardinality(newer \cup {m}) = Cardinality(newer) + 1
      BY <1>6, <2>2, FS_AddElement
    <3> QED BY <1>1, <1>6, <3>1
  <2>5. Cardinality(newer \cup {m}) <= Cardinality(after)
    BY <2>2, <2>3, FS_Subset
  <2>6. Cardinality(after) \in Nat
    BY <2>3, FS_CardinalityType
  <2> QED BY <1>1, <2>1, <2>4, <2>5, <2>6
<1>8. ASSUME NEW i \in Newest(v, J) PROVE v[m] <= v[i]
  <2>1. v[i] \in Int
    BY <1>2 DEF Newest
  <2> QED BY <1>4, <1>7, <2>1
<1> QED BY <1>8

LEMMA IndexToldApart ==
  ASSUME PbInv PROVE ToldApart(StartsOf(segs), indexed)
<1>1. \A i \in indexed : StartsOf(segs)[i] = segs[i].start /\ segs[i].start \in Int
  BY PbIs DEF StartsOf
<1> QED BY <1>1, PbIs DEF ToldApart, PbInv

(* The media sequence is the number of the oldest of them.                 *)
LEMMA RecentIs ==
  PbInv /\ Cardinality(indexed) >= LiveLimit =>
      \E m \in Newest(StartsOf(segs), indexed) :
          /\ \A i \in Newest(StartsOf(segs), indexed) : StartsOf(segs)[m] <= StartsOf(segs)[i]
          /\ MediaSequence(RecentSegments) = StartsOf(segs)[m] \div Second
<1> SUFFICES ASSUME PbInv, Cardinality(indexed) >= LiveLimit
             PROVE  \E m \in Newest(StartsOf(segs), indexed) :
                       /\ \A i \in Newest(StartsOf(segs), indexed) :
                             StartsOf(segs)[m] <= StartsOf(segs)[i]
                       /\ MediaSequence(RecentSegments) = StartsOf(segs)[m] \div Second
  OBVIOUS
<1> DEFINE v == StartsOf(segs)
           I == Newest(v, indexed)
<1>1. \A i \in indexed : v[i] = segs[i].start /\ segs[i].start \in Int
  BY PbIs DEF StartsOf
<1> HIDE DEF v
<1>2. I \subseteq indexed
  BY DEF Newest
<1>3. RecentSegments = ByStart(I)
  <2>1. \A i \in indexed : {j \in indexed : Earlier(i, j)} = After(v, indexed, i)
    BY <1>1 DEF After, Earlier
  <2>2. I = {i \in indexed : Cardinality({j \in indexed : Earlier(i, j)}) < LiveLimit}
    BY <2>1 DEF Newest
  <2> QED BY <2>2 DEF RecentSegments
<1>4. \E i \in I : TRUE
  <2>1. LiveLimit \in Nat /\ LiveLimit > 0
    BY PlaybackAssumption DEF PlaybackAssumption
  <2>2. PICK m \in indexed : Cardinality(After(v, indexed, m)) = LiveLimit - 1
    BY IndexToldApart, NewestHaveFirst DEF v
  <2> QED BY <2>1, <2>2 DEF Newest
<1> HIDE DEF I
<1>5. Cardinality(I) \in Nat
  BY <1>2, ByStartIs
<1>6. PICK pos : InOrder(pos, I) /\ ByStart(I) = [k \in 1..Cardinality(I) |-> segs[pos[k]]]
  BY <1>2, ByStartIs
<1>7. 1 \in 1..Cardinality(I) /\ pos[1] \in I
  <2>1. PICK k \in 1..Cardinality(I) : TRUE
    BY <1>4, <1>6 DEF InOrder
  <2>2. 1 \in 1..Cardinality(I)
    BY <1>5, <2>1
  <2> QED BY <1>6, <2>2 DEF InOrder
<1>8. \A i \in I : v[pos[1]] <= v[i]
  <2> SUFFICES ASSUME NEW i \in I PROVE v[pos[1]] <= v[i]
    OBVIOUS
  <2>1. PICK k \in 1..Cardinality(I) : pos[k] = i
    BY <1>6 DEF InOrder
  <2>2. k = 1 \/ 1 < k
    BY <1>5
  <2>3. /\ v[pos[1]] = segs[pos[1]].start /\ v[i] = segs[i].start
        /\ v[pos[1]] \in Int /\ v[i] \in Int
    BY <1>1, <1>2, <1>7
  <2>4. 1 < k => segs[pos[1]].start < segs[pos[k]].start
    BY <1>6, <1>7 DEF InOrder
  <2> QED BY <2>1, <2>2, <2>3, <2>4
<1>9. ByStart(I)[1] = segs[pos[1]] /\ ByStart(I) # <<>>
  <2>1. ByStart(I)[1] = segs[pos[1]] /\ 1 \in DOMAIN ByStart(I)
    BY <1>6, <1>7
  <2>2. ByStart(I) \in Seq(Segment)
    BY <1>2, ListIs DEF Orderly
  <2> QED BY <2>1, <2>2, EmptySeq, LenProperties
<1>10. MediaSequence(RecentSegments) = v[pos[1]] \div Second
  BY <1>1, <1>2, <1>3, <1>7, <1>9 DEF MediaSequence, SequenceNumber
<1> QED BY <1>7, <1>8, <1>10 DEF I, v

LEMMA NumbersAscend ==
  ASSUME NEW a \in Int, NEW b \in Int, a <= b
  PROVE  a \div Second \in Int /\ b \div Second \in Int /\ a \div Second <= b \div Second
<1>1. Second \in Nat /\ Second > 0
  BY PlaybackAssumption DEF PlaybackAssumption
<1> DEFINE p == a \div Second
           q == b \div Second
<1>2. p \in Int /\ q \in Int /\ p * Second <= a /\ b < (q + 1) * Second
  <2>1. a = Second * p + (a % Second) /\ a % Second \in 0..Second - 1 /\ p \in Int
    BY <1>1
  <2>2. b = Second * q + (b % Second) /\ b % Second \in 0..Second - 1 /\ q \in Int
    BY <1>1
  <2> HIDE DEF p, q
  <2>3. p * Second = Second * p /\ (q + 1) * Second = Second * q + Second
        /\ Second * p \in Int /\ Second * q \in Int
    BY <1>1, <2>1, <2>2
  <2> QED BY <1>1, <2>1, <2>2, <2>3
<1> HIDE DEF p, q
<1>3. ASSUME q + 1 <= p PROVE FALSE
  <2>1. (q + 1) * Second <= p * Second /\ (q + 1) * Second \in Int /\ p * Second \in Int
    BY <1>1, <1>2, <1>3, Product
  <2> QED BY <1>2, <2>1
<1>4. p <= q
  BY <1>2, <1>3
<1> QED BY <1>2, <1>4 DEF p, q

(* The live playlist of a camera never goes back in time once it is full,  *)
(* in whichever order the recorder's flushes index the segments, and       *)
(* wherever the clock's steps put them.                                    *)
THEOREM LivePlaylistNeverBack == PlaybackSpec => [][LiveNeverBack]_playbackVars
<1>1. (PbInv /\ Cardinality(indexed) >= LiveLimit =>
          \E m \in Newest(StartsOf(segs), indexed) :
              /\ \A i \in Newest(StartsOf(segs), indexed) : StartsOf(segs)[m] <= StartsOf(segs)[i]
              /\ MediaSequence(RecentSegments) = StartsOf(segs)[m] \div Second)'
  BY RecentIs, PTL
<1>2. (PbInv => ToldApart(StartsOf(segs), indexed))'
  BY IndexToldApart, PTL
<1>3. PbInv /\ PbInv' /\ [PlaybackNext]_playbackVars => [LiveNeverBack]_playbackVars
  <2> SUFFICES ASSUME PbInv, PbInv', PlaybackNext, Cardinality(indexed) >= LiveLimit
               PROVE  MediaSequence(RecentSegments') >= MediaSequence(RecentSegments)
    BY DEF LiveNeverBack
  <2> DEFINE v == StartsOf(segs)
             w == StartsOf(segs')
  <2>1. PICK m \in Newest(v, indexed) :
            /\ \A i \in Newest(v, indexed) : v[m] <= v[i]
            /\ MediaSequence(RecentSegments) = v[m] \div Second
    BY RecentIs
  <2>2. /\ Len(segs) \in Nat /\ DOMAIN segs = 1..Len(segs) /\ segs \in Seq(Segment)
        /\ IsFiniteSet(indexed) /\ indexed \subseteq DOMAIN segs
    BY PbIs
  <2>3. ToldApart(v, indexed) /\ ToldApart(w, indexed')
    BY <1>2, IndexToldApart
  <2>4. m \in indexed /\ v[m] \in Int
    BY <2>3 DEF Newest, ToldApart
  <2>5. /\ Cardinality(indexed') >= LiveLimit
        /\ \A i \in Newest(w, indexed') : w[m] <= w[i]
        /\ m \in indexed' /\ w[m] = v[m]
    <3>1. CASE CutSegment
      <4>1. indexed' = indexed
        BY <3>1 DEF CutSegment
      <4>2. PICK s \in Starts, len \in Lengths, b \in BOOLEAN :
              segs' = Append(segs, [start |-> s, end |-> s + len, motion |-> b])
        BY <3>1 DEF CutSegment
      <4>3. \A i \in 1..Len(segs) : segs'[i] = segs[i] /\ i \in DOMAIN segs'
        BY <2>2, <4>2
      <4>4. \A i \in indexed : w[i] = v[i]
        BY <2>2, <4>3 DEF StartsOf
      <4> HIDE DEF v, w
      <4>5. \A i \in indexed : After(w, indexed, i) = After(v, indexed, i)
        BY <4>4 DEF After
      <4>6. Newest(w, indexed) = Newest(v, indexed)
        BY <4>5 DEF Newest
      <4>7. \A i \in Newest(v, indexed) : i \in indexed
        BY DEF Newest
      <4> QED BY <2>1, <2>4, <4>1, <4>4, <4>6, <4>7
    <3>2. CASE IndexSegment
      <4>1. PICK x \in DOMAIN segs : indexed' = indexed \cup {x} /\ segs' = segs
        BY <3>2 DEF IndexSegment
      <4>2. w = v
        BY <4>1
      <4> HIDE DEF v, w
      <4>3. \A i \in Newest(v, indexed') : v[m] <= v[i]
        BY <2>1, <2>3, <4>1, <4>2, NewestGrow
      <4>4. Cardinality(indexed) <= Cardinality(indexed')
        BY <2>3, <4>1, FS_Subset DEF ToldApart
      <4>5. Cardinality(indexed) \in Nat /\ Cardinality(indexed') \in Nat
        BY <2>3, FS_CardinalityType DEF ToldApart
      <4>6. LiveLimit \in Nat
        BY PlaybackAssumption DEF PlaybackAssumption
      <4>7. Cardinality(indexed') >= LiveLimit
        BY <4>4, <4>5, <4>6
      <4> QED BY <2>4, <4>1, <4>2, <4>3, <4>7
    <3> QED BY <3>1, <3>2 DEF PlaybackNext
  <2>6. PICK k \in Newest(w, indexed') : MediaSequence(RecentSegments') = w[k] \div Second
    BY <1>1, <2>5 DEF MediaSequence, SequenceNumber
  <2>7. w[k] \in Int /\ v[m] <= w[k]
    BY <2>3, <2>5, <2>6 DEF Newest, ToldApart
  <2>8. v[m] \div Second \in Int /\ w[k] \div Second \in Int /\ v[m] \div Second <= w[k] \div Second
    BY <2>4, <2>7, NumbersAscend
  <2> QED BY <2>1, <2>6, <2>8
<1> QED BY <1>3, PbAlways, PTL DEF PlaybackSpec
============================================================================
