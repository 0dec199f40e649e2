------------------------------ MODULE JobsProofs ------------------------------
(***************************************************************************)
(* Proofs about the background jobs, for any number of callers, requests,  *)
(* deliveries and calls.                                                   *)
(***************************************************************************)
EXTENDS Export, Transcode, Notify, PullPoint, FiniteSetTheorems, SequenceTheorems, TLAPS

----------------------------------------------------------------------------
(* The transcode cache. The caller the inflight map names is the one that  *)
(* builds: it alone writes the temporary file, and once it has renamed it  *)
(* the fragment is there, unless evicted.                                  *)

BuildPlaces == {"slot", "ffmpeg", "sendOk", "sendErr", "deleteOk", "deleteErr"}
CallerStates ==
    [pc : {"idle", "lock", "wait", "slot", "ffmpeg", "sendOk", "sendErr",
           "deleteOk", "deleteErr", "ok", "failed"},
     on : Callers \cup {Nobody}, cancelled : BOOLEAN]
Cached == fragment = "good" \/ evicts > 0
WaitsFor(x) == {c \in Callers : caller[c].on = x}

TranscodeTypes ==
    /\ fragment \in {"none", "good"} /\ tmp \subseteq Callers
    /\ inflight \in Callers \cup {Nobody} /\ evicts \in 0 .. MaxEvicts
    /\ wait \in [Callers -> {"empty", "ok", "err"}]
    /\ caller \in [Callers -> CallerStates]
BuilderInflight ==
    \A c \in Callers :
        /\ caller[c].pc \in BuildPlaces <=> inflight = c
        /\ c \in tmp <=> caller[c].pc = "ffmpeg"
OkCached ==
    \A c \in Callers :
        caller[c].pc \in {"sendOk", "deleteOk", "ok"} \/ wait[c] = "ok" => Cached
WaitersOn ==
    \A c \in Callers :
        /\ caller[c].pc = "wait" => caller[c].on \in Callers
        /\ caller[c].pc \in {"idle", "lock"} => caller[c].on = Nobody
JoinedCount ==
    /\ joined \in [Callers \cup {Nobody} -> Nat] /\ joined[Nobody] = 0
    /\ \A x \in Callers : joined[x] = Cardinality(WaitsFor(x))

TranscodeInv == TranscodeTypes /\ BuilderInflight /\ OkCached /\ WaitersOn /\ JoinedCount

LEMMA TranscodeInitially == TranscodeInit => TranscodeInv
<1> SUFFICES ASSUME TranscodeInit PROVE TranscodeInv
  OBVIOUS
<1>1. Nobody \notin Callers /\ 0 \in 0 .. MaxEvicts
  BY TranscodeAssumption
<1>2. TranscodeTypes
  BY <1>1 DEF TranscodeInit, TranscodeTypes, CallerStates
<1>3. BuilderInflight /\ OkCached /\ WaitersOn
  BY <1>1 DEF TranscodeInit, BuilderInflight, OkCached, WaitersOn, BuildPlaces
<1>4. JoinedCount
  <2>1. \A x \in Callers : WaitsFor(x) = {}
    BY <1>1 DEF TranscodeInit, WaitsFor
  <2>2. Cardinality({}) = 0
    BY FS_EmptySet
  <2> QED BY <2>1, <2>2 DEF TranscodeInit, JoinedCount
<1> QED BY <1>2, <1>3, <1>4 DEF TranscodeInv

(* What a caller does that neither joins a build nor changes the map.      *)
LEMMA JoinedStays ==
  ASSUME JoinedCount, joined' = joined, \A c \in Callers : caller'[c].on = caller[c].on
  PROVE  JoinedCount'
<1>1. \A x : WaitsFor(x)' = WaitsFor(x)
  BY DEF WaitsFor
<1> QED BY <1>1 DEF JoinedCount

(* One caller moves on to another place.                                   *)
LEMMA CallerMoves ==
  ASSUME TranscodeInv, NEW c \in Callers, NEW p, SetPc(c, p),
         p \in {"idle", "lock", "wait", "slot", "ffmpeg", "sendOk", "sendErr",
                "deleteOk", "deleteErr", "ok", "failed"}
  PROVE  /\ caller' \in [Callers -> CallerStates]
         /\ caller'[c].pc = p /\ caller'[c].on = caller[c].on
         /\ caller'[c].cancelled = caller[c].cancelled
         /\ \A d \in Callers : d # c => caller'[d] = caller[d]
         /\ \A d \in Callers : caller'[d].on = caller[d].on
<1>1. caller \in [Callers -> CallerStates] /\ caller' = [caller EXCEPT ![c].pc = p]
  BY DEF TranscodeInv, TranscodeTypes, SetPc
<1> QED BY <1>1 DEF CallerStates

(* A caller that does not build goes somewhere it does not build either.   *)
LEMMA NonBuilderMoves ==
  ASSUME TranscodeInv, NEW c \in Callers, NEW p \in {"lock", "ok", "failed"},
         SetPc(c, p), caller[c].pc \in {"idle", "wait"},
         p = "ok" => Cached, p = "lock" => caller[c].pc = "idle",
         wait' \in [Callers -> {"empty", "ok", "err"}],
         \A d \in Callers : wait'[d] = "ok" => wait[d] = "ok",
         UNCHANGED <<fragment, tmp, inflight, joined, evicts>>
  PROVE  TranscodeInv'
<1>1. /\ caller' \in [Callers -> CallerStates]
      /\ caller'[c].pc = p /\ caller'[c].on = caller[c].on
      /\ \A d \in Callers : d # c => caller'[d] = caller[d]
      /\ \A d \in Callers : caller'[d].on = caller[d].on
  BY CallerMoves
<1>2. TranscodeTypes'
  BY <1>1 DEF TranscodeInv, TranscodeTypes
<1>3. BuilderInflight'
  <2> SUFFICES ASSUME NEW d \in Callers
               PROVE  /\ caller'[d].pc \in BuildPlaces <=> inflight' = d
                      /\ d \in tmp' <=> caller'[d].pc = "ffmpeg"
    BY DEF BuilderInflight
  <2>1. /\ caller[d].pc \in BuildPlaces <=> inflight = d
        /\ d \in tmp <=> caller[d].pc = "ffmpeg"
    BY DEF TranscodeInv, BuilderInflight
  <2>2. CASE d = c
    BY <1>1, <2>1, <2>2 DEF BuildPlaces
  <2>3. CASE d # c
    BY <1>1, <2>1, <2>3
  <2> QED BY <2>2, <2>3
<1>4. OkCached'
  <2> SUFFICES ASSUME NEW d \in Callers,
                      caller'[d].pc \in {"sendOk", "deleteOk", "ok"} \/ wait'[d] = "ok"
               PROVE  Cached
    BY DEF OkCached, Cached
  <2>1. caller[d].pc \in {"sendOk", "deleteOk", "ok"} \/ wait[d] = "ok" => Cached
    BY DEF TranscodeInv, OkCached
  <2> QED BY <1>1, <2>1
<1>5. WaitersOn'
  BY <1>1 DEF TranscodeInv, WaitersOn
<1>6. JoinedCount'
  BY <1>1, JoinedStays DEF TranscodeInv
<1> QED BY <1>2, <1>3, <1>4, <1>5, <1>6 DEF TranscodeInv

(* The caller the map names goes on building.                              *)
LEMMA BuilderMoves ==
  ASSUME TranscodeInv, NEW c \in Callers, NEW p \in BuildPlaces, SetPc(c, p),
         caller[c].pc \in BuildPlaces,
         p \in {"sendOk", "deleteOk"} => Cached',
         tmp' = (IF p = "ffmpeg" THEN tmp \cup {c} ELSE tmp \ {c}),
         wait' \in [Callers -> {"empty", "ok", "err"}],
         \A d \in Callers : wait'[d] = "ok" => wait[d] = "ok" \/ Cached',
         fragment' \in {"none", "good"}, Cached => Cached',
         UNCHANGED <<inflight, joined, evicts>>
  PROVE  TranscodeInv'
<1>1. /\ caller' \in [Callers -> CallerStates]
      /\ caller'[c].pc = p /\ caller'[c].on = caller[c].on
      /\ \A d \in Callers : d # c => caller'[d] = caller[d]
      /\ \A d \in Callers : caller'[d].on = caller[d].on
  BY CallerMoves DEF BuildPlaces
<1>2. TranscodeTypes'
  BY <1>1 DEF TranscodeInv, TranscodeTypes
<1>3. BuilderInflight'
  <2> SUFFICES ASSUME NEW d \in Callers
               PROVE  /\ caller'[d].pc \in BuildPlaces <=> inflight' = d
                      /\ d \in tmp' <=> caller'[d].pc = "ffmpeg"
    BY DEF BuilderInflight
  <2>1. /\ caller[d].pc \in BuildPlaces <=> inflight = d
        /\ d \in tmp <=> caller[d].pc = "ffmpeg"
    BY DEF TranscodeInv, BuilderInflight
  <2>2. CASE d = c
    BY <1>1, <2>1, <2>2
  <2>3. CASE d # c
    BY <1>1, <2>1, <2>3
  <2> QED BY <2>2, <2>3
<1>4. OkCached'
  <2> SUFFICES ASSUME NEW d \in Callers,
                      caller'[d].pc \in {"sendOk", "deleteOk", "ok"} \/ wait'[d] = "ok"
               PROVE  Cached'
    BY DEF OkCached
  <2>1. caller[d].pc \in {"sendOk", "deleteOk", "ok"} \/ wait[d] = "ok" => Cached
    BY DEF TranscodeInv, OkCached
  <2>2. d # c => caller'[d] = caller[d]
    BY <1>1
  <2>3. caller'[c].pc \in {"sendOk", "deleteOk", "ok"} => Cached'
    BY <1>1 DEF BuildPlaces
  <2> QED BY <2>1, <2>2, <2>3
<1>5. WaitersOn'
  BY <1>1 DEF TranscodeInv, WaitersOn, BuildPlaces
<1>6. JoinedCount'
  BY <1>1, JoinedStays DEF TranscodeInv
<1> QED BY <1>2, <1>3, <1>4, <1>5, <1>6 DEF TranscodeInv

LEMMA BuildingKeeps ==
  ASSUME TranscodeInv, NEW c \in Callers, BuildStarts(c) \/ BuildFails(c) \/ BuildDone(c) \/ SendResult(c)
  PROVE  TranscodeInv'
<1>1. /\ wait \in [Callers -> {"empty", "ok", "err"}] /\ fragment \in {"none", "good"}
      /\ c \in tmp <=> caller[c].pc = "ffmpeg"
      /\ caller[c].pc \in {"sendOk", "deleteOk"} => Cached
  BY DEF TranscodeInv, TranscodeTypes, BuilderInflight, OkCached
<1>2. CASE BuildStarts(c)
  BY <1>1, <1>2, BuilderMoves DEF BuildStarts, BuildPlaces, Cached
<1>3. CASE BuildFails(c)
  BY <1>1, <1>3, BuilderMoves DEF BuildFails, BuildPlaces, Cached
<1>4. CASE BuildDone(c)
  <2>1. caller[c].pc = "ffmpeg" /\ tmp' = tmp \ {c} /\ SetPc(c, "sendOk")
        /\ UNCHANGED <<inflight, wait, joined, evicts>>
    BY <1>4 DEF BuildDone
  <2>2. tmp = {c}
    <3>1. \A d \in tmp : d \in Callers /\ caller[d].pc = "ffmpeg"
      BY DEF TranscodeInv, TranscodeTypes, BuilderInflight
    <3>2. \A d \in tmp : inflight = d
      BY <3>1 DEF TranscodeInv, BuilderInflight, BuildPlaces
    <3>3. c \in tmp
      BY <1>1, <2>1
    <3> QED BY <3>2, <3>3
  <2>3. fragment' = "good"
    BY <1>4, <2>2 DEF BuildDone
  <2> QED BY <1>1, <2>1, <2>3, BuilderMoves DEF BuildPlaces, Cached
<1>5. CASE SendResult(c)
  <2> DEFINE p == IF caller[c].pc = "sendOk" THEN "deleteOk" ELSE "deleteErr"
  <2>1. /\ caller[c].pc \in {"sendOk", "sendErr"} /\ SetPc(c, p)
        /\ wait' = [wait EXCEPT ![c] = IF caller[c].pc = "sendOk" THEN "ok" ELSE "err"]
        /\ UNCHANGED <<fragment, tmp, inflight, joined, evicts>>
    BY <1>5 DEF SendResult
  <2>2. /\ wait' \in [Callers -> {"empty", "ok", "err"}]
        /\ \A d \in Callers : wait'[d] = "ok" => wait[d] = "ok" \/ Cached
    BY <1>1, <2>1
  <2>3. Cached' <=> Cached
    BY <2>1 DEF Cached
  <2>4. c \notin tmp /\ p \in BuildPlaces /\ p # "ffmpeg" /\ (p = "deleteOk" => Cached) /\ p # "sendOk"
        /\ caller[c].pc \in BuildPlaces
    BY <1>1, <2>1 DEF BuildPlaces
  <2> HIDE DEF p
  <2> QED BY <1>1, <2>1, <2>2, <2>3, <2>4, BuilderMoves
<1> QED BY <1>2, <1>3, <1>4, <1>5

(* The build is over: the map has no entry any more.                       *)
LEMMA DeleteKeeps ==
  ASSUME TranscodeInv, NEW c \in Callers, DeleteEntry(c)
  PROVE  TranscodeInv'
<1> DEFINE p == IF caller[c].pc = "deleteOk" THEN "ok" ELSE "failed"
<1>1. /\ caller[c].pc \in {"deleteOk", "deleteErr"} /\ inflight' = Nobody /\ SetPc(c, p)
      /\ UNCHANGED <<fragment, tmp, wait, joined, evicts>>
  BY DEF DeleteEntry
<1>2. p \in {"ok", "failed"} /\ (p = "ok" => caller[c].pc = "deleteOk")
  OBVIOUS
<1> HIDE DEF p
<1>3. /\ caller' \in [Callers -> CallerStates]
      /\ caller'[c].pc = p /\ caller'[c].on = caller[c].on
      /\ \A d \in Callers : d # c => caller'[d] = caller[d]
      /\ \A d \in Callers : caller'[d].on = caller[d].on
  BY <1>1, <1>2, CallerMoves
<1>4. TranscodeTypes'
  BY <1>1, <1>3 DEF TranscodeInv, TranscodeTypes
<1>5. BuilderInflight'
  <2> SUFFICES ASSUME NEW d \in Callers
               PROVE  /\ caller'[d].pc \notin BuildPlaces /\ inflight' # d
                      /\ d \in tmp <=> caller'[d].pc = "ffmpeg"
    BY <1>1 DEF BuilderInflight
  <2>1. /\ caller[d].pc \in BuildPlaces <=> inflight = d
        /\ d \in tmp <=> caller[d].pc = "ffmpeg"
    BY DEF TranscodeInv, BuilderInflight
  <2>2. inflight = c /\ inflight' # d
    BY <1>1, TranscodeAssumption DEF TranscodeInv, BuilderInflight, BuildPlaces
  <2>3. CASE d = c
    BY <1>1, <1>2, <1>3, <2>1, <2>2, <2>3 DEF BuildPlaces
  <2>4. CASE d # c
    BY <1>3, <2>1, <2>2, <2>4
  <2> QED BY <2>3, <2>4
<1>6. OkCached'
  <2> SUFFICES ASSUME NEW d \in Callers,
                      caller'[d].pc \in {"sendOk", "deleteOk", "ok"} \/ wait'[d] = "ok"
               PROVE  Cached
    BY <1>1 DEF OkCached, Cached
  <2>1. caller[d].pc \in {"sendOk", "deleteOk", "ok"} \/ wait[d] = "ok" => Cached
    BY DEF TranscodeInv, OkCached
  <2> QED BY <1>1, <1>2, <1>3, <2>1
<1>7. WaitersOn'
  BY <1>2, <1>3 DEF TranscodeInv, WaitersOn
<1>8. JoinedCount'
  BY <1>1, <1>3, JoinedStays DEF TranscodeInv
<1> QED BY <1>4, <1>5, <1>6, <1>7, <1>8 DEF TranscodeInv

(* A miss becomes the build, or joins it.                                  *)
LEMMA LookupKeeps ==
  ASSUME TranscodeInv, NEW c \in Callers, Lookup(c)
  PROVE  TranscodeInv'
<1>0. caller[c].pc = "lock" /\ UNCHANGED <<fragment, tmp, wait, evicts>>
      /\ caller \in [Callers -> CallerStates] /\ caller[c].on = Nobody
  BY DEF Lookup, TranscodeInv, TranscodeTypes, WaitersOn
<1>1. CASE inflight = Nobody /\ inflight' = c /\ SetPc(c, "slot") /\ UNCHANGED joined
  <2>1. /\ caller' \in [Callers -> CallerStates]
        /\ caller'[c].pc = "slot" /\ caller'[c].on = caller[c].on
        /\ \A d \in Callers : d # c => caller'[d] = caller[d]
        /\ \A d \in Callers : caller'[d].on = caller[d].on
    BY <1>1, CallerMoves
  <2>2. TranscodeTypes'
    BY <1>0, <1>1, <2>1 DEF TranscodeInv, TranscodeTypes
  <2>3. \A d \in Callers : caller[d].pc \notin BuildPlaces
    BY <1>1, TranscodeAssumption DEF TranscodeInv, BuilderInflight
  <2>4. BuilderInflight'
    BY <1>0, <1>1, <2>1, <2>3 DEF TranscodeInv, BuilderInflight, BuildPlaces
  <2>5. OkCached'
    BY <1>0, <2>1 DEF TranscodeInv, OkCached, Cached
  <2>6. WaitersOn'
    BY <2>1 DEF TranscodeInv, WaitersOn
  <2>7. JoinedCount'
    BY <1>1, <2>1, JoinedStays DEF TranscodeInv
  <2> QED BY <2>2, <2>4, <2>5, <2>6, <2>7 DEF TranscodeInv
<1>2. CASE /\ inflight # Nobody
           /\ caller' = [caller EXCEPT ![c] = [@ EXCEPT !.pc = "wait", !.on = inflight]]
           /\ joined' = [joined EXCEPT ![inflight] = @ + 1]
           /\ UNCHANGED inflight
  <2>1. inflight \in Callers /\ inflight # Nobody
    BY <1>2 DEF TranscodeInv, TranscodeTypes
  <2>2. /\ caller' \in [Callers -> CallerStates]
        /\ caller'[c].pc = "wait" /\ caller'[c].on = inflight
        /\ \A d \in Callers : d # c => caller'[d] = caller[d]
    BY <1>0, <1>2, <2>1 DEF CallerStates
  <2>3. TranscodeTypes'
    BY <1>0, <1>2, <2>2 DEF TranscodeInv, TranscodeTypes
  <2>4. BuilderInflight'
    BY <1>0, <1>2, <2>2 DEF TranscodeInv, BuilderInflight, BuildPlaces
  <2>5. OkCached'
    BY <1>0, <2>2 DEF TranscodeInv, OkCached, Cached
  <2>6. WaitersOn'
    BY <2>1, <2>2 DEF TranscodeInv, WaitersOn
  <2>7. JoinedCount'
    <3>1. joined \in [Callers \cup {Nobody} -> Nat] /\ joined[Nobody] = 0
          /\ \A x \in Callers : joined[x] = Cardinality(WaitsFor(x))
      BY DEF TranscodeInv, JoinedCount
    <3>2. joined' \in [Callers \cup {Nobody} -> Nat] /\ joined'[Nobody] = 0
      BY <1>2, <2>1, <3>1
    <3>3. ASSUME NEW x \in Callers PROVE joined'[x] = Cardinality(WaitsFor(x)')
      <4>1. CASE x = inflight
        <5>1. WaitsFor(x)' = WaitsFor(x) \cup {c} /\ c \notin WaitsFor(x)
          BY <1>0, <2>1, <2>2, <4>1 DEF WaitsFor
        <5>2. IsFiniteSet(WaitsFor(x))
          BY TranscodeAssumption, FS_Subset DEF WaitsFor
        <5>3. Cardinality(WaitsFor(x)') = Cardinality(WaitsFor(x)) + 1
          BY <5>1, <5>2, FS_AddElement
        <5> QED BY <1>2, <3>1, <4>1, <5>3
      <4>2. CASE x # inflight
        <5>1. WaitsFor(x)' = WaitsFor(x)
          BY <1>0, <2>2, <4>2, TranscodeAssumption DEF WaitsFor
        <5> QED BY <1>2, <3>1, <4>2, <5>1
      <4> QED BY <4>1, <4>2
    <3> QED BY <3>2, <3>3 DEF JoinedCount
  <2> QED BY <2>3, <2>4, <2>5, <2>6, <2>7 DEF TranscodeInv
<1> QED BY <1>1, <1>2 DEF Lookup

LEMMA RequestEndsKeeps ==
  ASSUME TranscodeInv, NEW c \in Callers, RequestEnds(c)
  PROVE  TranscodeInv'
<1>1. /\ caller' = [caller EXCEPT ![c].cancelled = TRUE] /\ caller \in [Callers -> CallerStates]
      /\ UNCHANGED <<fragment, tmp, inflight, wait, joined, evicts>>
  BY DEF RequestEnds, TranscodeInv, TranscodeTypes
<1>2. /\ caller' \in [Callers -> CallerStates]
      /\ \A d \in Callers : caller'[d].pc = caller[d].pc /\ caller'[d].on = caller[d].on
  BY <1>1 DEF CallerStates
<1>3. TranscodeTypes' /\ BuilderInflight' /\ OkCached' /\ WaitersOn'
  BY <1>1, <1>2 DEF TranscodeInv, TranscodeTypes, BuilderInflight, OkCached, Cached, WaitersOn
<1>4. JoinedCount'
  BY <1>1, <1>2, JoinedStays DEF TranscodeInv
<1> QED BY <1>3, <1>4 DEF TranscodeInv

LEMMA TranscodeSteps == TranscodeInv /\ [TranscodeNext]_transcodeVars => TranscodeInv'
<1> SUFFICES ASSUME TranscodeInv, [TranscodeNext]_transcodeVars PROVE TranscodeInv'
  OBVIOUS
<1>0. wait \in [Callers -> {"empty", "ok", "err"}]
  BY DEF TranscodeInv, TranscodeTypes
<1>1. ASSUME NEW c \in Callers, Stat(c) PROVE TranscodeInv'
  <2>1. fragment # "none" => Cached
    BY DEF TranscodeInv, TranscodeTypes, Cached
  <2> QED BY <1>0, <1>1, <2>1, NonBuilderMoves DEF Stat
<1>2. ASSUME NEW c \in Callers, Awaiting(c) PROVE TranscodeInv'
  <2>1. CASE WaitCancelled(c)
    BY <1>0, <2>1, NonBuilderMoves DEF WaitCancelled
  <2>2. CASE ReceiveResult(c)
    <3> DEFINE o == caller[c].on
               p == IF wait[o] = "ok" THEN "ok" ELSE "failed"
    <3>1. /\ caller[c].pc = "wait" /\ SetPc(c, p) /\ wait' = [wait EXCEPT ![o] = "empty"]
          /\ UNCHANGED <<fragment, tmp, inflight, joined, evicts>>
      BY <2>2 DEF ReceiveResult
    <3>2. o \in Callers
      BY <3>1 DEF TranscodeInv, WaitersOn
    <3>3. p \in {"ok", "failed"} /\ (p = "ok" => Cached)
      BY <3>2 DEF TranscodeInv, OkCached
    <3>4. wait' \in [Callers -> {"empty", "ok", "err"}]
          /\ \A d \in Callers : wait'[d] = "ok" => wait[d] = "ok"
      BY <1>0, <3>1
    <3> HIDE DEF p, o
    <3> QED BY <3>1, <3>3, <3>4, NonBuilderMoves
  <2> QED BY <1>2, <2>1, <2>2 DEF Awaiting
<1>3. ASSUME Evict PROVE TranscodeInv'
  <2>1. /\ fragment' = "none" /\ evicts' \in 0 .. MaxEvicts /\ evicts' > 0
        /\ UNCHANGED <<tmp, inflight, wait, caller, joined>>
    BY <1>3, TranscodeAssumption DEF Evict, TranscodeInv, TranscodeTypes
  <2> QED BY <2>1 DEF TranscodeInv, TranscodeTypes, BuilderInflight, OkCached, Cached, WaitersOn,
                      JoinedCount, WaitsFor
<1>4. CASE UNCHANGED transcodeVars
  BY <1>4 DEF transcodeVars, TranscodeInv, TranscodeTypes, BuilderInflight, OkCached, Cached,
              WaitersOn, JoinedCount, WaitsFor
<1> QED BY <1>1, <1>2, <1>3, <1>4, LookupKeeps, BuildingKeeps, DeleteKeeps, RequestEndsKeeps
        DEF TranscodeNext, CallerStep, Building

(* However many requests miss the cache at once, are cancelled or fail:    *)
(* one build at a time, nothing damaged is cached, and success is reported *)
(* for a fragment that is there or was evicted since.                      *)
THEOREM TranscodeIsSafe == TranscodeSpec => []TranscodeSafe
<1>1. TranscodeInv => TranscodeSafe
  <2> SUFFICES ASSUME TranscodeInv PROVE TranscodeSafe
    OBVIOUS
  <2>1. joined \in [Callers \cup {Nobody} -> 0 .. Cardinality(Callers)]
    <3>1. joined \in [Callers \cup {Nobody} -> Nat] /\ joined[Nobody] = 0
          /\ \A x \in Callers : joined[x] = Cardinality(WaitsFor(x))
      BY DEF TranscodeInv, JoinedCount
    <3>2. Cardinality(Callers) \in Nat
      BY TranscodeAssumption, FS_CardinalityType
    <3>3. ASSUME NEW x \in Callers PROVE Cardinality(WaitsFor(x)) <= Cardinality(Callers)
      BY TranscodeAssumption, FS_Subset DEF WaitsFor
    <3> QED BY <3>1, <3>2, <3>3
  <2>2. inflight # Nobody => caller[inflight].pc \in BuildPlaces
    BY DEF TranscodeInv, TranscodeTypes, BuilderInflight
  <2>3. TranscodeTypeOK
    BY <2>1, <2>2 DEF TranscodeInv, TranscodeTypes, TranscodeTypeOK, CallerStates, BuildPlaces
  <2>4. Cardinality(tmp) <= 1
    <3>1. tmp \subseteq {inflight}
      BY DEF TranscodeInv, TranscodeTypes, BuilderInflight, BuildPlaces
    <3>2. IsFiniteSet({inflight}) /\ Cardinality({inflight}) = 1
      BY FS_Singleton
    <3> QED BY <3>1, <3>2, FS_Subset
  <2>5. TranscodeOneBuild /\ TranscodeOkIsCached
    BY <2>4 DEF TranscodeInv, TranscodeTypes, OkCached, Cached, TranscodeOneBuild, TranscodeOkIsCached
  <2> QED BY <2>3, <2>5 DEF TranscodeSafe
<1>2. TranscodeSpec => []TranscodeInv
  BY TranscodeInitially, TranscodeSteps, PTL DEF TranscodeSpec
<1> QED BY <1>1, <1>2, PTL

----------------------------------------------------------------------------
(* The pull-point clients. Clients are started one after the other, one by *)
(* each call at most, so that there is always one left to start. What the  *)
(* last notification says is the camera's state if nothing was missed.     *)

PullCallStates == [op : {"none", "on", "off", "edit", "delete"},
                   pc : {"idle", "remove", "get", "add", "erase", "done"}]
ClientStates == [pc : {"none", "subscribe", "pull", "backoff", "gone"}, stop : BOOLEAN,
                 active : BOOLEAN, inbox : Seq(BOOLEAN), told : BOOLEAN]
PullDone == {c \in PullCalls : pullCall[c].pc = "done"}
StartedUpTo(n) == \A k \in Clients : client[k].pc # "none" <=> k <= n

(* A call that does not overlap another: what it has done so far.          *)
OneAtWork ==
    ~pullOverlapped =>
        /\ \A c, d \in PullCalls : PullCalling(c) /\ PullCalling(d) => c = d
        /\ \A c \in PullCalls : /\ pullCall[c].pc \in {"get", "add", "erase"} => clients = 0
                                /\ pullCall[c].pc = "add" => pullRow = "on"

(* The end of what a client was told is the state the camera is in.        *)
ToldLast(x) ==
    x.told /\ x.pc # "gone" =>
        /\ x.inbox = <<>> => x.active = onMotion
        /\ x.inbox # <<>> => x.inbox[Len(x.inbox)] = onMotion

PullInv ==
    /\ PullTypeOK /\ PullSequential /\ PullStoppable /\ OneAtWork
    /\ \A k \in Clients : ToldLast(client[k])
    /\ \E n \in Nat : StartedUpTo(n) /\ n <= Cardinality(PullDone) + 1

LEMMA PullFinite ==
  /\ IsFiniteSet(PullCalls) /\ Cardinality(PullCalls) \in Nat
  /\ Clients = 1 .. Cardinality(PullCalls) + 1 /\ Clients \subseteq Nat /\ 1 \in Clients
<1>1. IsFiniteSet(PullCalls) /\ Cardinality(PullCalls) \in Nat
  BY PullAssumption, FS_CardinalityType
<1> QED BY <1>1 DEF Clients

(* A client just started.                                                  *)
LEMMA StartedStates ==
  /\ NoClient \in ClientStates
  /\ \A x \in Started : /\ x \in ClientStates /\ x.pc # "none" /\ ~x.stop /\ ~x.told /\ x.inbox = <<>>
<1>1. <<>> \in Seq(BOOLEAN)
  OBVIOUS
<1>2. NoClient \in ClientStates /\ ~NoClient.stop /\ ~NoClient.told /\ NoClient.inbox = <<>>
  BY <1>1 DEF NoClient, ClientStates
<1> QED BY <1>2 DEF Started, ClientStates

LEMMA PullInitially == PullInit => PullInv
<1> SUFFICES ASSUME PullInit PROVE PullInv
  OBVIOUS
<1>1. Clients \subseteq Nat /\ 1 \in Clients /\ 0 \notin Clients /\ \A k \in Clients : k >= 1
  BY PullFinite
<1>2. <<>> \in Seq(BOOLEAN) /\ 0 \in 0 .. MaxChanges
  BY PullAssumption
<1>0. PICK x \in Started : client = [k \in Clients |-> IF pullRow = "on" /\ k = 1 THEN x ELSE NoClient]
  BY DEF PullInit
<1>3. \A k \in Clients : /\ client[k] \in ClientStates /\ client[k].inbox = <<>> /\ ~client[k].told
                         /\ ~client[k].stop
                         /\ client[k].pc = "none" <=> ~(pullRow = "on" /\ k = 1)
  BY <1>0, <1>2, StartedStates DEF NoClient, ClientStates
<1>4. client \in [Clients -> ClientStates]
  BY <1>0, <1>3
<1>5. PullTypeOK
  BY <1>1, <1>2, <1>3, <1>4 DEF PullInit, PullTypeOK, ClientStates
<1>6. PullSequential /\ PullStoppable /\ OneAtWork
  BY <1>1, <1>3 DEF PullInit, PullSequential, PullStoppable, OneAtWork, Live, PullCalling
<1>7. \A k \in Clients : ToldLast(client[k])
  BY <1>3 DEF ToldLast
<1>8. \E n \in Nat : StartedUpTo(n) /\ n <= Cardinality(PullDone) + 1
  <2>1. PullDone = {}
    BY DEF PullInit, PullDone
  <2>2. Cardinality(PullDone) = 0
    BY <2>1, FS_EmptySet
  <2>3. CASE pullRow = "on"
    <3>1. ASSUME NEW k \in Clients PROVE client[k].pc # "none" <=> k <= 1
      <4>1. k \in Nat /\ k >= 1
        BY <1>1
      <4>2. client[k].pc = "none" <=> k # 1
        BY <1>3, <2>3
      <4> QED BY <4>1, <4>2
    <3>2. StartedUpTo(1)
      BY <3>1 DEF StartedUpTo
    <3> QED BY <2>2, <3>2
  <2>4. CASE pullRow # "on"
    <3>1. ASSUME NEW k \in Clients PROVE client[k].pc # "none" <=> k <= 0
      <4>1. k \in Nat /\ k >= 1
        BY <1>1
      <4>2. client[k].pc = "none"
        BY <1>3, <2>4
      <4> QED BY <4>1, <4>2
    <3>2. StartedUpTo(0)
      BY <3>1 DEF StartedUpTo
    <3> QED BY <2>2, <3>2
  <2> QED BY <2>3, <2>4
<1> QED BY <1>5, <1>6, <1>7, <1>8 DEF PullInv

(* Nobody starts a client: the ones started are started, and no fewer      *)
(* calls are done.                                                         *)
LEMMA StartedStays ==
  ASSUME PullInv, \A k \in Clients : client'[k].pc = "none" <=> client[k].pc = "none",
         \A c \in PullCalls : pullCall[c].pc = "done" => pullCall'[c].pc = "done"
  PROVE  (\E n \in Nat : StartedUpTo(n) /\ n <= Cardinality(PullDone) + 1)'
<1>1. PICK n \in Nat : StartedUpTo(n) /\ n <= Cardinality(PullDone) + 1
  BY DEF PullInv
<1>2. StartedUpTo(n)'
  BY <1>1 DEF StartedUpTo
<1>3. /\ IsFiniteSet(PullDone') /\ IsFiniteSet(PullDone)
      /\ Cardinality(PullDone) <= Cardinality(PullDone')
      /\ Cardinality(PullDone) \in Nat /\ Cardinality(PullDone') \in Nat
  <2>1. IsFiniteSet(PullDone') /\ IsFiniteSet(PullDone)
    BY PullFinite, FS_Subset DEF PullDone
  <2>2. PullDone \subseteq PullDone'
    BY DEF PullDone
  <2> QED BY <2>1, <2>2, FS_Subset, FS_CardinalityType
<1>4. n <= Cardinality(PullDone') + 1
  BY <1>1, <1>3
<1> QED BY <1>2, <1>4

LEMMA PullBeginKeeps ==
  ASSUME PullInv, NEW c \in PullCalls, NEW op \in {"on", "off", "edit", "delete"}, PullBegin(c, op)
  PROVE  PullInv'
<1> DEFINE row == IF op \in {"on", "off"} THEN op ELSE pullRow
<1>1. /\ pullCall[c].pc = "idle" /\ pullRow # "gone"
      /\ pullOverlapped' = (pullOverlapped \/ \E d \in PullCalls : PullCalling(d))
      /\ UNCHANGED <<clients, client, onMotion, changes>>
  BY DEF PullBegin
<1>2. /\ PullTypeOK /\ pullCall \in [PullCalls -> PullCallStates]
  BY DEF PullInv, PullTypeOK, PullCallStates
<1>10. \/ /\ pullCall' = [pullCall EXCEPT ![c] = [op |-> op, pc |-> "remove"]]
          /\ pullRow' = row /\ pullFailed' = pullFailed
       \/ /\ pullCall' = [pullCall EXCEPT ![c] = [op |-> op, pc |-> "done"]]
          /\ \/ pullRow' = row /\ pullFailed' = "lost"
             \/ pullRow' = pullRow /\ pullFailed' = pullFailed
  BY DEF PullBegin
<1>11. pullRow' \in {"on", "off", "gone"} /\ pullFailed' \in {"none", "missed", "lost"}
  <2>1. row \in {"on", "off", "gone"}
    BY <1>2 DEF PullTypeOK
  <2> HIDE DEF row
  <2> QED BY <1>2, <1>10, <2>1 DEF PullTypeOK
<1> HIDE DEF row
<1>3. /\ pullCall' \in [PullCalls -> PullCallStates] /\ pullCall'[c].pc \in {"remove", "done"}
      /\ pullCall'[c].pc = "done" => pullFailed' = "lost" \/ (pullRow' = pullRow /\ pullFailed' = pullFailed)
      /\ \A d \in PullCalls : d # c => pullCall'[d] = pullCall[d]
  BY <1>2, <1>10 DEF PullCallStates
<1>4. pullOverlapped' \in BOOLEAN
  BY <1>1, <1>2 DEF PullTypeOK
<1>5. PullTypeOK'
  BY <1>1, <1>2, <1>3, <1>4, <1>11 DEF PullTypeOK, PullCallStates
<1>6. PullSequential'
  <2>1. \A k \in Clients : Live(k)' <=> Live(k)
    BY <1>1 DEF Live
  <2> SUFFICES ASSUME ~pullOverlapped', \A d \in PullCalls : ~PullCalling(d)'
               PROVE  /\ pullFailed' = "none" => (clients' # 0 <=> pullRow' = "on")
                      /\ pullFailed' = "missed" => clients' = 0
    BY <1>1, <2>1 DEF PullInv, PullSequential
  <2>2. ~pullOverlapped /\ \A d \in PullCalls : ~PullCalling(d)
    BY <1>1
  <2>3. /\ pullFailed = "none" => (clients # 0 <=> pullRow = "on")
        /\ pullFailed = "missed" => clients = 0
    BY <2>2 DEF PullInv, PullSequential
  <2>4. pullCall'[c].pc = "done"
    BY <1>3 DEF PullCalling
  <2> QED BY <1>1, <1>3, <2>3, <2>4
<1>12. PullStoppable'
  BY <1>1 DEF PullInv, PullStoppable
<1>7. OneAtWork'
  BY <1>1, <1>3 DEF PullInv, OneAtWork, PullCalling
<1>8. (\A k \in Clients : ToldLast(client[k]))'
  BY <1>1 DEF PullInv, ToldLast
<1>9. (\E n \in Nat : StartedUpTo(n) /\ n <= Cardinality(PullDone) + 1)'
  <2>1. \A d \in PullCalls : pullCall[d].pc = "done" => pullCall'[d].pc = "done"
    BY <1>1, <1>3
  <2> QED BY <1>1, <2>1, StartedStays
<1> QED BY <1>5, <1>6, <1>7, <1>8, <1>9, <1>12 DEF PullInv

(* A call goes from one place to another.                                  *)
LEMMA CallMoves ==
  ASSUME PullInv, NEW c \in PullCalls, NEW p \in {"get", "add", "erase", "done"},
         pullCall' = [pullCall EXCEPT ![c].pc = p]
  PROVE  /\ pullCall' \in [PullCalls -> PullCallStates]
         /\ pullCall'[c].pc = p /\ pullCall'[c].op = pullCall[c].op
         /\ \A d \in PullCalls : d # c => pullCall'[d] = pullCall[d]
<1>1. pullCall \in [PullCalls -> PullCallStates]
  BY DEF PullInv, PullTypeOK, PullCallStates
<1> QED BY <1>1 DEF PullCallStates

LEMMA PullRemoveKeeps ==
  ASSUME PullInv, NEW c \in PullCalls, PullRemove(c)
  PROVE  PullInv'
<1> DEFINE p == IF pullCall[c].op = "delete" THEN "erase" ELSE "get"
<1>1. /\ pullCall[c].pc = "remove" /\ clients' = 0
      /\ client' = IF clients = 0 THEN client ELSE [client EXCEPT ![clients].stop = TRUE]
      /\ pullCall' = [pullCall EXCEPT ![c].pc = p]
      /\ UNCHANGED <<pullRow, onMotion, changes, pullOverlapped, pullFailed>>
  BY DEF PullRemove
<1>2. p \in {"erase", "get"}
  OBVIOUS
<1> HIDE DEF p
<1>3. /\ pullCall' \in [PullCalls -> PullCallStates] /\ pullCall'[c].pc = p
      /\ \A d \in PullCalls : d # c => pullCall'[d] = pullCall[d]
  BY <1>1, <1>2, CallMoves
<1>4. client \in [Clients -> ClientStates] /\ clients \in Clients \cup {0} /\ PullTypeOK
  BY DEF PullInv, PullTypeOK, ClientStates
<1>5. /\ client' \in [Clients -> ClientStates]
      /\ \A k \in Clients : /\ client'[k].pc = client[k].pc /\ client'[k].inbox = client[k].inbox
                            /\ client'[k].told = client[k].told /\ client'[k].active = client[k].active
                            /\ client'[k].stop = (client[k].stop \/ k = clients)
  <2>1. 0 \notin Clients
    BY PullFinite DEF Clients
  <2>2. CASE clients = 0
    BY <1>1, <1>4, <2>1, <2>2 DEF ClientStates
  <2>3. CASE clients # 0
    BY <1>1, <1>4, <2>3 DEF ClientStates
  <2> QED BY <2>2, <2>3
<1>6. PullTypeOK'
  BY <1>1, <1>3, <1>4, <1>5 DEF PullTypeOK, PullCallStates, ClientStates
<1>7. PullSequential'
  <2> SUFFICES ASSUME ~pullOverlapped
               PROVE  /\ \A k \in Clients : ~Live(k)'
                      /\ \E d \in PullCalls : PullCalling(d)'
    BY <1>1 DEF PullSequential
  <2>1. \A k \in Clients : Live(k) => k = clients
    BY DEF PullInv, PullSequential
  <2>2. \A k \in Clients : ~Live(k)'
    BY <1>5, <2>1 DEF Live
  <2>3. PullCalling(c)'
    BY <1>2, <1>3 DEF PullCalling
  <2> QED BY <2>2, <2>3
<1>8. PullStoppable'
  BY <1>1 DEF PullStoppable
<1>9. OneAtWork'
  <2> SUFFICES ASSUME ~pullOverlapped
               PROVE  /\ \A a, d \in PullCalls : PullCalling(a)' /\ PullCalling(d)' => a = d
                      /\ \A d \in PullCalls : pullCall'[d].pc = "add" => pullRow' = "on"
    BY <1>1 DEF OneAtWork
  <2>1. \A d \in PullCalls : PullCalling(d)' => PullCalling(d)
    BY <1>1, <1>3 DEF PullCalling
  <2>2. /\ \A a, d \in PullCalls : PullCalling(a) /\ PullCalling(d) => a = d
        /\ \A d \in PullCalls : pullCall[d].pc = "add" => pullRow = "on"
    BY DEF PullInv, OneAtWork
  <2> QED BY <1>1, <1>2, <1>3, <2>1, <2>2
<1>10. (\A k \in Clients : ToldLast(client[k]))'
  BY <1>1, <1>5 DEF PullInv, ToldLast
<1>11. (\E n \in Nat : StartedUpTo(n) /\ n <= Cardinality(PullDone) + 1)'
  <2>1. \A d \in PullCalls : pullCall[d].pc = "done" => pullCall'[d].pc = "done"
    BY <1>1, <1>3
  <2> QED BY <1>5, <2>1, StartedStays
<1> QED BY <1>6, <1>7, <1>8, <1>9, <1>10, <1>11 DEF PullInv

LEMMA PullGetKeeps ==
  ASSUME PullInv, NEW c \in PullCalls, PullGet(c)
  PROVE  PullInv'
<1>1. /\ pullCall[c].pc = "get"
      /\ UNCHANGED <<pullRow, clients, client, onMotion, changes, pullOverlapped>>
  BY DEF PullGet
<1>2. PICK p \in {"add", "done"} :
         /\ pullCall' = [pullCall EXCEPT ![c].pc = p]
         /\ \/ pullRow = "on" /\ p = "add" /\ pullFailed' = pullFailed
            \/ pullRow # "on" /\ p = "done" /\ pullFailed' = "none"
            \/ p = "done" /\ pullFailed' = "missed"
  BY DEF PullGet
<1>3. /\ pullCall' \in [PullCalls -> PullCallStates] /\ pullCall'[c].pc = p
      /\ \A d \in PullCalls : d # c => pullCall'[d] = pullCall[d]
  BY <1>2, CallMoves
<1>4. PullTypeOK'
  BY <1>1, <1>2, <1>3 DEF PullInv, PullTypeOK, PullCallStates
<1>5. \A d \in PullCalls : PullCalling(d)' => PullCalling(d)
  BY <1>1, <1>3 DEF PullCalling
<1>6. PullSequential'
  <2> SUFFICES ASSUME ~pullOverlapped
               PROVE  (\A d \in PullCalls : ~PullCalling(d)') =>
                         /\ pullFailed' = "none" => (clients # 0 <=> pullRow = "on")
                         /\ pullFailed' = "missed" => clients = 0
    BY <1>1 DEF PullInv, PullSequential, Live
  <2>1. clients = 0
    BY <1>1 DEF PullInv, OneAtWork
  <2>2. (\A d \in PullCalls : ~PullCalling(d)') => p = "done"
    BY <1>2, <1>3 DEF PullCalling
  <2> QED BY <1>2, <2>1, <2>2
<1>7. PullStoppable'
  BY <1>1 DEF PullInv, PullStoppable, Live
<1>8. OneAtWork'
  BY <1>1, <1>2, <1>3, <1>5 DEF PullInv, OneAtWork
<1>9. (\A k \in Clients : ToldLast(client[k]))'
  BY <1>1 DEF PullInv, ToldLast
<1>10. (\E n \in Nat : StartedUpTo(n) /\ n <= Cardinality(PullDone) + 1)'
  <2>1. \A d \in PullCalls : pullCall[d].pc = "done" => pullCall'[d].pc = "done"
    BY <1>1, <1>3
  <2> QED BY <1>1, <2>1, StartedStays
<1> QED BY <1>4, <1>6, <1>7, <1>8, <1>9, <1>10 DEF PullInv

(* The client a call starts is the next one.                               *)
LEMMA NextClient ==
  ASSUME PullInv, NEW c \in PullCalls, pullCall[c].pc # "done",
         NEW n \in Nat, StartedUpTo(n), n <= Cardinality(PullDone) + 1
  PROVE  /\ n + 1 \in Clients
         /\ n + 1 = CHOOSE k \in Clients :
                      client[k].pc = "none" /\ \A d \in 1 .. k - 1 : client[d].pc # "none"
<1>1. n + 1 \in Clients
  <2>1. IsFiniteSet(PullCalls) /\ Cardinality(PullCalls) \in Nat
    BY PullFinite
  <2>2. PullDone \subseteq PullCalls \ {c}
    BY DEF PullDone
  <2>3. IsFiniteSet(PullCalls \ {c}) /\ Cardinality(PullCalls \ {c}) = Cardinality(PullCalls) - 1
    BY <2>1, FS_RemoveElement
  <2>4. Cardinality(PullDone) <= Cardinality(PullCalls) - 1 /\ Cardinality(PullDone) \in Nat
    BY <2>2, <2>3, FS_Subset, FS_CardinalityType
  <2> QED BY <2>1, <2>4 DEF Clients
<1> DEFINE Next(k) == client[k].pc = "none" /\ \A d \in 1 .. k - 1 : client[d].pc # "none"
<1>2. Clients = 1 .. Cardinality(PullCalls) + 1 /\ Cardinality(PullCalls) \in Nat
  BY PullFinite
<1>3. Next(n + 1)
  <2>1. client[n + 1].pc = "none"
    BY <1>1 DEF StartedUpTo
  <2>2. ASSUME NEW d \in 1 .. (n + 1) - 1 PROVE client[d].pc # "none"
    <3>1. d \in Clients /\ d <= n
      BY <1>1, <1>2
    <3> QED BY <3>1 DEF StartedUpTo
  <2> QED BY <2>1, <2>2
<1>4. ASSUME NEW k \in Clients, Next(k) PROVE k = n + 1
  <2>1. ~(k <= n) /\ k \in Nat
    BY <1>2, <1>4 DEF StartedUpTo
  <2>2. ASSUME k > n + 1 PROVE FALSE
    <3>1. n + 1 \in 1 .. k - 1
      BY <2>1, <2>2
    <3> QED BY <1>3, <1>4, <3>1
  <2> QED BY <2>1, <2>2
<1> HIDE DEF Next
<1>5. n + 1 = CHOOSE k \in Clients : Next(k)
  BY <1>1, <1>3, <1>4
<1> QED BY <1>1, <1>5 DEF Next

LEMMA PullAddKeeps ==
  ASSUME PullInv, NEW c \in PullCalls, PullAdd(c)
  PROVE  PullInv'
<1>1. PICK n \in Nat : StartedUpTo(n) /\ n <= Cardinality(PullDone) + 1
  BY DEF PullInv
<1> DEFINE k == n + 1
<1>2. /\ pullCall[c].pc = "add" /\ k \in Clients
      /\ clients' = k /\ \E x \in Started : client' = [client EXCEPT ![k] = x]
      /\ pullCall' = [pullCall EXCEPT ![c].pc = "done"] /\ pullFailed' = "none"
      /\ UNCHANGED <<pullRow, onMotion, changes, pullOverlapped>>
  <2>1. pullCall[c].pc = "add"
    BY DEF PullAdd
  <2> QED BY <1>1, <2>1, NextClient DEF PullAdd
<1>0. PICK x \in Started : client' = [client EXCEPT ![k] = x]
  BY <1>2
<1>3. x \in ClientStates /\ x.pc # "none" /\ ~x.stop /\ ~x.told /\ x.inbox = <<>>
  BY StartedStates
<1>4. /\ pullCall' \in [PullCalls -> PullCallStates] /\ pullCall'[c].pc = "done"
      /\ \A d \in PullCalls : d # c => pullCall'[d] = pullCall[d]
  BY <1>2, CallMoves
<1>5. client \in [Clients -> ClientStates] /\ PullTypeOK
  BY DEF PullInv, PullTypeOK, ClientStates
<1>6. /\ client' \in [Clients -> ClientStates] /\ client'[k] = x
      /\ \A j \in Clients : j # k => client'[j] = client[j]
  BY <1>0, <1>2, <1>3, <1>5
<1>7. k # 0 /\ 0 \notin Clients
  BY <1>2, PullFinite DEF Clients
<1>8. PullTypeOK'
  BY <1>2, <1>3, <1>4, <1>5, <1>6 DEF PullTypeOK, PullCallStates, ClientStates
<1>9. PullStoppable'
  BY <1>2, <1>3, <1>6 DEF PullStoppable
<1>10. ASSUME ~pullOverlapped
       PROVE  /\ \A j \in Clients : ~Live(j)
              /\ pullRow = "on" /\ \A d \in PullCalls : ~PullCalling(d)'
  <2>1. clients = 0 /\ pullRow = "on"
    BY <1>2, <1>10 DEF PullInv, OneAtWork
  <2>2. \A j \in Clients : ~Live(j)
    BY <1>7, <1>10, <2>1 DEF PullInv, PullSequential
  <2>3. \A d \in PullCalls : PullCalling(d) => d = c
    BY <1>2, <1>10 DEF PullInv, OneAtWork, PullCalling
  <2> QED BY <1>4, <2>1, <2>2, <2>3 DEF PullCalling
<1>11. PullSequential'
  <2> SUFFICES ASSUME ~pullOverlapped
               PROVE  (\A j \in Clients : Live(j)' => j = k) /\ pullRow = "on"
    BY <1>2, <1>7 DEF PullSequential
  <2> QED BY <1>6, <1>10 DEF Live
<1>12. OneAtWork'
  <2> SUFFICES ASSUME ~pullOverlapped
               PROVE  \A d \in PullCalls : pullCall'[d].pc \notin {"get", "add", "erase"} /\ ~PullCalling(d)'
    BY <1>2 DEF OneAtWork
  <2>1. \A d \in PullCalls : ~PullCalling(d)'
    BY <1>10
  <2> QED BY <2>1 DEF PullCalling
<1>13. (\A j \in Clients : ToldLast(client[j]))'
  <2> SUFFICES ASSUME NEW j \in Clients PROVE ToldLast(client[j])'
    OBVIOUS
  <2>1. CASE j = k
    BY <1>3, <1>6, <2>1 DEF ToldLast
  <2>2. CASE j # k
    <3>1. client'[j] = client[j] /\ onMotion' = onMotion
      BY <1>2, <1>6, <2>2
    <3> QED BY <3>1 DEF PullInv, ToldLast
  <2> QED BY <2>1, <2>2
<1>14. (\E m \in Nat : StartedUpTo(m) /\ m <= Cardinality(PullDone) + 1)'
  <2>1. PullDone' = PullDone \cup {c} /\ c \notin PullDone
    BY <1>2, <1>4 DEF PullDone
  <2>2. IsFiniteSet(PullDone) /\ Cardinality(PullDone) \in Nat
    BY PullFinite, FS_Subset, FS_CardinalityType DEF PullDone
  <2>3. Cardinality(PullDone') = Cardinality(PullDone) + 1
    BY <2>1, <2>2, FS_AddElement
  <2>4. StartedUpTo(k)'
    <3>1. ASSUME NEW j \in Clients PROVE client'[j].pc # "none" <=> j <= k
      <4>1. j \in Nat
        BY PullFinite
      <4>2. CASE j = k
        BY <1>3, <1>6, <4>1, <4>2
      <4>3. CASE j # k
        BY <1>1, <1>6, <4>1, <4>3 DEF StartedUpTo
      <4> QED BY <4>2, <4>3
    <3> QED BY <3>1 DEF StartedUpTo
  <2>5. k \in Nat /\ k <= Cardinality(PullDone') + 1
    BY <1>1, <2>2, <2>3
  <2> QED BY <2>4, <2>5
<1> QED BY <1>8, <1>9, <1>11, <1>12, <1>13, <1>14 DEF PullInv

LEMMA PullEraseKeeps ==
  ASSUME PullInv, NEW c \in PullCalls, PullErase(c)
  PROVE  PullInv'
<1>1. /\ pullCall[c].pc = "erase"
      /\ \/ pullRow' = "gone" /\ pullFailed' = "none"
         \/ pullRow' = pullRow /\ pullFailed' = "missed"
      /\ pullCall' = [pullCall EXCEPT ![c].pc = "done"]
      /\ UNCHANGED <<clients, client, onMotion, changes, pullOverlapped>>
  BY DEF PullErase
<1>2. /\ pullCall' \in [PullCalls -> PullCallStates] /\ pullCall'[c].pc = "done"
      /\ \A d \in PullCalls : d # c => pullCall'[d] = pullCall[d]
  BY <1>1, CallMoves
<1>3. PullTypeOK'
  BY <1>1, <1>2 DEF PullInv, PullTypeOK, PullCallStates
<1>4. PullStoppable'
  BY <1>1 DEF PullInv, PullStoppable
<1>5. ASSUME ~pullOverlapped
      PROVE  clients = 0 /\ \A d \in PullCalls : ~PullCalling(d)'
  <2>1. clients = 0
    BY <1>1, <1>5 DEF PullInv, OneAtWork
  <2>2. \A d \in PullCalls : PullCalling(d) => d = c
    BY <1>1, <1>5 DEF PullInv, OneAtWork, PullCalling
  <2> QED BY <1>2, <2>1, <2>2 DEF PullCalling
<1>6. PullSequential'
  BY <1>1, <1>5 DEF PullInv, PullSequential, Live
<1>7. OneAtWork'
  <2> SUFFICES ASSUME ~pullOverlapped
               PROVE  \A d \in PullCalls : pullCall'[d].pc \notin {"get", "add", "erase"} /\ ~PullCalling(d)'
    BY <1>1 DEF OneAtWork
  <2>1. \A d \in PullCalls : ~PullCalling(d)'
    BY <1>5
  <2> QED BY <2>1 DEF PullCalling
<1>8. (\A k \in Clients : ToldLast(client[k]))'
  BY <1>1 DEF PullInv, ToldLast
<1>9. (\E n \in Nat : StartedUpTo(n) /\ n <= Cardinality(PullDone) + 1)'
  <2>1. \A d \in PullCalls : pullCall[d].pc = "done" => pullCall'[d].pc = "done"
    BY <1>1, <1>2
  <2> QED BY <1>1, <2>1, StartedStays
<1> QED BY <1>3, <1>4, <1>6, <1>7, <1>8, <1>9 DEF PullInv

(* A step of one client: it does not start, does not stop being stopped,   *)
(* and what it was told still holds.                                       *)
LEMMA ClientKeeps ==
  ASSUME PullInv, NEW k \in Clients, NEW x \in ClientStates, SetClient(k, x),
         x.inbox # <<>> => x.pc = "pull", x.pc # "none", client[k].pc # "none",
         x.stop = client[k].stop, ~x.stop => x.pc # "gone", ~x.stop => client[k].pc # "gone",
         ToldLast(x)
  PROVE  PullInv'
<1>1. /\ client' = [client EXCEPT ![k] = x]
      /\ UNCHANGED <<pullRow, pullCall, clients, onMotion, changes, pullOverlapped, pullFailed>>
  BY DEF SetClient
<1>2. client \in [Clients -> ClientStates] /\ PullTypeOK
  BY DEF PullInv, PullTypeOK, ClientStates
<1>3. /\ client' \in [Clients -> ClientStates] /\ client'[k] = x
      /\ \A j \in Clients : j # k => client'[j] = client[j]
  BY <1>1, <1>2
<1>4. \A j \in Clients : Live(j)' <=> Live(j)
  <2> SUFFICES ASSUME NEW j \in Clients PROVE Live(j)' <=> Live(j)
    OBVIOUS
  <2>1. CASE j = k
    BY <1>3, <2>1 DEF Live
  <2>2. CASE j # k
    BY <1>3, <2>2 DEF Live
  <2> QED BY <2>1, <2>2
<1>5. PullTypeOK'
  BY <1>1, <1>2, <1>3 DEF PullTypeOK, ClientStates
<1>6. PullSequential'
  BY <1>1, <1>4 DEF PullInv, PullSequential, PullCalling
<1>7. PullStoppable'
  <2>1. clients \in Clients \cup {0}
    BY <1>2 DEF PullTypeOK
  <2>2. \A j \in Clients : client'[j].stop = client[j].stop /\ (client[j].pc # "none" => client'[j].pc # "none")
    BY <1>3
  <2> QED BY <1>1, <2>1, <2>2 DEF PullInv, PullStoppable
<1>8. OneAtWork'
  BY <1>1 DEF PullInv, OneAtWork, PullCalling
<1>9. (\A j \in Clients : ToldLast(client[j]))'
  <2> SUFFICES ASSUME NEW j \in Clients PROVE ToldLast(client[j])'
    OBVIOUS
  <2>1. CASE j = k
    BY <1>1, <1>3, <2>1 DEF ToldLast
  <2>2. CASE j # k
    BY <1>1, <1>3, <2>2 DEF PullInv, ToldLast
  <2> QED BY <2>1, <2>2
<1>10. (\E n \in Nat : StartedUpTo(n) /\ n <= Cardinality(PullDone) + 1)'
  <2>1. \A j \in Clients : client'[j].pc = "none" <=> client[j].pc = "none"
    BY <1>3
  <2> QED BY <1>1, <2>1, StartedStays
<1> QED BY <1>5, <1>6, <1>7, <1>8, <1>9, <1>10 DEF PullInv

(* The end of a sequence is the end of its tail, if that is not empty.     *)
LEMMA LastOfTail ==
  ASSUME NEW S, NEW s \in Seq(S), s # <<>>
  PROVE  /\ Head(s) \in S /\ Tail(s) \in Seq(S)
         /\ Tail(s) = <<>> => s[Len(s)] = Head(s)
         /\ Tail(s) # <<>> => s[Len(s)] = Tail(s)[Len(Tail(s))]
<1> DEFINE t == Tail(s)
<1>1. /\ Head(s) \in S /\ t \in Seq(S) /\ Len(t) = Len(s) - 1 /\ Len(s) \in Nat
      /\ \A i \in 1 .. Len(t) : t[i] = s[i + 1]
  BY HeadTailProperties
<1>2. Head(s) = s[1]
  OBVIOUS
<1> HIDE DEF t
<1>3. CASE t = <<>>
  <2>1. Len(s) = 1
    BY <1>1, <1>3
  <2> QED BY <1>1, <1>2, <1>3, <2>1 DEF t
<1>4. CASE t # <<>>
  <2>1. Len(t) \in 1 .. Len(t) /\ Len(t) + 1 = Len(s)
    BY <1>1, <1>4, EmptySeq
  <2> QED BY <1>1, <1>4, <2>1 DEF t
<1> QED BY <1>3, <1>4

LEMMA ClientStepKeeps ==
  ASSUME PullInv, NEW k \in Clients,
         PullSubscribe(k) \/ PullMessage(k) \/ PullFails(k) \/ PullBackoff(k) \/ PullEnds(k)
  PROVE  PullInv'
<1> DEFINE x == client[k]
<1>1. /\ x \in ClientStates /\ x.inbox \in Seq(BOOLEAN) /\ (x.inbox # <<>> => x.pc = "pull")
      /\ ToldLast(x) /\ <<>> \in Seq(BOOLEAN) /\ x.told \in BOOLEAN
  BY DEF PullInv, PullTypeOK, ClientStates
<1>2. CASE PullSubscribe(k)
  <2> DEFINE y == [x EXCEPT !.pc = "pull", !.inbox = <<>>]
  <2>1. x.pc = "subscribe" /\ SetClient(k, y) /\ x.inbox = <<>>
    BY <1>1, <1>2 DEF PullSubscribe
  <2>2. /\ y \in ClientStates /\ y.pc = "pull" /\ y.inbox = <<>> /\ y.stop = x.stop
        /\ y.told = x.told /\ y.active = x.active
    BY <1>1 DEF ClientStates
  <2> HIDE DEF y
  <2>3. ToldLast(y)
    BY <1>1, <2>1, <2>2 DEF ToldLast
  <2> QED BY <2>1, <2>2, <2>3, ClientKeeps
<1>3. CASE PullMessage(k)
  <2> DEFINE h == Head(x.inbox)
             t == Tail(x.inbox)
             y == [x EXCEPT !.active = h, !.inbox = t]
  <2>1. x.pc = "pull" /\ SetClient(k, y) /\ x.inbox # <<>>
    BY <1>3 DEF PullMessage
  <2>2. /\ h \in BOOLEAN /\ t \in Seq(BOOLEAN)
        /\ t = <<>> => x.inbox[Len(x.inbox)] = h
        /\ t # <<>> => x.inbox[Len(x.inbox)] = t[Len(t)]
    BY <1>1, <2>1, LastOfTail
  <2>3. /\ y \in ClientStates /\ y.pc = "pull" /\ y.inbox = t /\ y.stop = x.stop
        /\ y.told = x.told /\ y.active = h
    BY <1>1, <2>1, <2>2 DEF ClientStates
  <2>4. x.told => x.inbox[Len(x.inbox)] = onMotion
    BY <1>1, <2>1 DEF ToldLast
  <2> HIDE DEF y, t, h
  <2>5. ToldLast(y)
    BY <2>2, <2>3, <2>4 DEF ToldLast
  <2> QED BY <2>1, <2>3, <2>5, ClientKeeps
<1>4. CASE PullFails(k)
  <2> DEFINE b == x.told /\ x.inbox = <<>>
             y == [x EXCEPT !.pc = "backoff", !.inbox = <<>>, !.told = b]
  <2>1. x.pc \in {"subscribe", "pull"} /\ SetClient(k, y)
    BY <1>4 DEF PullFails
  <2>2. b \in BOOLEAN
    OBVIOUS
  <2>3. b => x.active = onMotion
    BY <1>1, <2>1 DEF ToldLast
  <2> HIDE DEF b
  <2>4. /\ y \in ClientStates /\ y.pc = "backoff" /\ y.inbox = <<>> /\ y.stop = x.stop
        /\ y.told = b /\ y.active = x.active
    BY <1>1, <2>2 DEF ClientStates
  <2> HIDE DEF y
  <2>5. ToldLast(y)
    BY <2>3, <2>4 DEF ToldLast
  <2> QED BY <2>1, <2>4, <2>5, ClientKeeps
<1>5. CASE PullBackoff(k)
  <2> DEFINE y == [x EXCEPT !.pc = "subscribe"]
  <2>1. x.pc = "backoff" /\ SetClient(k, y) /\ x.inbox = <<>>
    BY <1>1, <1>5 DEF PullBackoff
  <2>2. /\ y \in ClientStates /\ y.pc = "subscribe" /\ y.inbox = <<>> /\ y.stop = x.stop
        /\ y.told = x.told /\ y.active = x.active
    BY <1>1, <2>1 DEF ClientStates
  <2> HIDE DEF y
  <2>3. ToldLast(y)
    BY <1>1, <2>1, <2>2 DEF ToldLast
  <2> QED BY <2>1, <2>2, <2>3, ClientKeeps
<1>6. CASE PullEnds(k)
  <2> DEFINE y == [x EXCEPT !.pc = "gone", !.inbox = <<>>]
  <2>1. x.stop /\ x.pc \in {"subscribe", "pull", "backoff"} /\ SetClient(k, y)
    BY <1>6 DEF PullEnds
  <2>2. y \in ClientStates /\ y.pc = "gone" /\ y.inbox = <<>> /\ y.stop = x.stop
    BY <1>1 DEF ClientStates
  <2> HIDE DEF y
  <2>3. ToldLast(y)
    BY <2>2 DEF ToldLast
  <2> QED BY <2>1, <2>2, <2>3, ClientKeeps
<1> QED BY <1>2, <1>3, <1>4, <1>5, <1>6

LEMMA MotionChangesKeeps ==
  ASSUME PullInv, MotionChanges
  PROVE  PullInv'
<1>1. /\ changes < MaxChanges /\ changes' = changes + 1 /\ onMotion' = ~onMotion
      /\ client' = [k \in Clients |->
                      IF client[k].pc = "pull"
                      THEN [client[k] EXCEPT !.inbox = Append(@, ~onMotion), !.told = TRUE]
                      ELSE [client[k] EXCEPT !.told = FALSE]]
      /\ UNCHANGED <<pullRow, pullCall, clients, pullOverlapped, pullFailed>>
  BY DEF MotionChanges
<1>2. PullTypeOK /\ onMotion \in BOOLEAN
  BY DEF PullInv, PullTypeOK
<1>3. ASSUME NEW k \in Clients
      PROVE  /\ client'[k] \in ClientStates
             /\ client'[k].pc = client[k].pc /\ client'[k].stop = client[k].stop
             /\ client'[k].inbox # <<>> => client[k].pc = "pull"
             /\ ToldLast(client[k])'
  <2> DEFINE x == client[k]
  <2>1. x \in ClientStates /\ x.inbox \in Seq(BOOLEAN) /\ (x.inbox # <<>> => x.pc = "pull")
    BY <1>2 DEF PullTypeOK, ClientStates
  <2>2. CASE x.pc = "pull"
    <3> DEFINE a == Append(x.inbox, ~onMotion)
               y == [x EXCEPT !.inbox = a, !.told = TRUE]
    <3>1. client'[k] = y
      BY <1>1, <2>2
    <3>2. (~onMotion) \in BOOLEAN
      BY <1>2
    <3>3. /\ a \in Seq(BOOLEAN) /\ Len(a) = Len(x.inbox) + 1 /\ a[Len(x.inbox) + 1] = (~onMotion)
          /\ Len(x.inbox) \in Nat
      BY <2>1, <3>2, AppendProperties
    <3>4. a # <<>> /\ a[Len(a)] = (~onMotion)
      BY <3>3
    <3> HIDE DEF a
    <3>5. /\ y \in ClientStates /\ y.inbox = a /\ y.pc = x.pc /\ y.stop = x.stop
      BY <2>1, <3>3 DEF ClientStates
    <3> HIDE DEF y
    <3>6. ToldLast(client[k])'
      <4>1. y.inbox # <<>> /\ y.inbox[Len(y.inbox)] = onMotion'
        BY <1>1, <3>4, <3>5
      <4>2. client'[k].inbox # <<>> /\ client'[k].inbox[Len(client'[k].inbox)] = onMotion'
        BY <3>1, <4>1
      <4> QED BY <4>2 DEF ToldLast
    <3> QED BY <2>2, <3>1, <3>5, <3>6
  <2>3. CASE x.pc # "pull"
    <3> DEFINE y == [x EXCEPT !.told = FALSE]
    <3>1. client'[k] = y
      BY <1>1, <2>3
    <3>2. y \in ClientStates /\ y.told = FALSE /\ y.pc = x.pc /\ y.stop = x.stop /\ y.inbox = x.inbox
      BY <2>1 DEF ClientStates
    <3> HIDE DEF y
    <3>3. ToldLast(client[k])'
      BY <3>1, <3>2 DEF ToldLast
    <3> QED BY <2>1, <3>1, <3>2, <3>3
  <2> QED BY <2>2, <2>3
<1>4. \A k \in Clients : Live(k)' <=> Live(k)
  BY <1>3 DEF Live
<1>5. PullTypeOK'
  <2>1. changes' \in 0 .. MaxChanges
    <3>1. changes \in 0 .. MaxChanges
      BY <1>2 DEF PullTypeOK
    <3>2. changes < MaxChanges /\ changes' = changes + 1 /\ MaxChanges \in Nat
      BY <1>1, PullAssumption
    <3> QED BY <3>1, <3>2
  <2>2. client' \in [Clients -> ClientStates]
    BY <1>1, <1>3
  <2> QED BY <1>1, <1>2, <1>3, <2>1, <2>2 DEF PullTypeOK, ClientStates
<1>6. PullSequential'
  BY <1>1, <1>4 DEF PullInv, PullSequential, PullCalling
<1>7. PullStoppable'
  <2>1. clients \in Clients \cup {0}
    BY <1>2 DEF PullTypeOK
  <2> QED BY <1>1, <1>3, <2>1 DEF PullInv, PullStoppable
<1>8. OneAtWork'
  BY <1>1 DEF PullInv, OneAtWork, PullCalling
<1>9. (\E n \in Nat : StartedUpTo(n) /\ n <= Cardinality(PullDone) + 1)'
  <2>1. \A j \in Clients : client'[j].pc = "none" <=> client[j].pc = "none"
    BY <1>3
  <2> QED BY <1>1, <2>1, StartedStays
<1> QED BY <1>3, <1>5, <1>6, <1>7, <1>8, <1>9 DEF PullInv

LEMMA PullSteps == PullInv /\ [PullNext]_pullVars => PullInv'
<1> SUFFICES ASSUME PullInv, [PullNext]_pullVars PROVE PullInv'
  OBVIOUS
<1>1. CASE UNCHANGED pullVars
  BY <1>1 DEF pullVars, PullInv, PullTypeOK, PullSequential, PullStoppable, OneAtWork, ToldLast,
              StartedUpTo, PullDone, Live, PullCalling
<1>2. CASE MotionChanges
  BY <1>2, MotionChangesKeeps
<1>3. ASSUME NEW k \in Clients,
             PullSubscribe(k) \/ PullMessage(k) \/ PullFails(k) \/ PullBackoff(k) \/ PullEnds(k)
      PROVE  PullInv'
  BY <1>3, ClientStepKeeps
<1>4. ASSUME NEW c \in PullCalls,
             (\E op \in {"on", "off", "edit", "delete"} : PullBegin(c, op)) \/ PullStep(c)
      PROVE  PullInv'
  BY <1>4, PullBeginKeeps, PullRemoveKeeps, PullGetKeeps, PullAddKeeps, PullEraseKeeps DEF PullStep
<1> QED BY <1>1, <1>2, <1>3, <1>4 DEF PullNext

(* For any number of API calls: the registered client can be stopped,      *)
(* calls that do not overlap leave the one client the row asks for, or     *)
(* none after one that failed half-way, until the next gets through, and   *)
(* what a client takes for the motion state is the camera's, across        *)
(* reconnects, unless the last change fell between two subscriptions.      *)
THEOREM PullIsSafe == PullSpec => []PullSafe
<1>1. PullInv => PullSafe
  <2> SUFFICES ASSUME PullInv PROVE PullSafe
    OBVIOUS
  <2>1. PullFollows
    BY DEF PullInv, PullFollows, ToldLast, Live
  <2> QED BY <2>1 DEF PullInv, PullSafe
<1>2. PullSpec => []PullInv
  BY PullInitially, PullSteps, PTL DEF PullSpec
<1> QED BY <1>1, <1>2, PTL

----------------------------------------------------------------------------
(* Clip exports. A user whose requests never overlapped has one request    *)
(* between its count and its insert, or one active row, and never both.    *)

RequestStates == [pc : {"idle", "count", "insert", "accepted", "refused"}, user : Users]
RowStates == {"none", "pending", "processing", "done", "failed"}
JobPlaces == {"none", "queued", "load", "mark", "copy", "remux", "finish", "fail", "gone"}

RowsFollow ==
    \A r \in Requests :
        /\ request[r].pc \in {"idle", "count", "insert"} => job[r] = "none"
        /\ job[r] = "none" => exports[r] = "none"
        /\ job[r] \notin {"none", "gone"} => Active(r)
        /\ job[r] = "finish" => file[r] = "complete"
SameUser(q, r) == request[q].user = request[r].user /\ request[q].user \notin raced
OneAtATimePerUser ==
    \A q, r \in Requests :
        SameUser(q, r) => /\ Enqueuing(q) /\ Enqueuing(r) => q = r
                          /\ request[r].pc = "insert" => ~Active(q)
                          /\ Active(q) /\ Active(r) => q = r

ExportInv == ExportTypeOK /\ ExportDoneIsComplete /\ RowsFollow /\ OneAtATimePerUser

LEMMA AtMostOne ==
  ASSUME NEW S, \A x, y \in S : x = y
  PROVE  Cardinality(S) <= 1
<1>1. CASE S = {}
  BY <1>1, FS_EmptySet
<1>2. CASE S # {}
  <2>1. PICK x \in S : S = {x}
    BY <1>2
  <2> QED BY <2>1, FS_Singleton
<1> QED BY <1>1, <1>2

LEMMA ExportInitially == ExportInit => ExportInv
<1> SUFFICES ASSUME ExportInit PROVE ExportInv
  OBVIOUS
<1>1. Cardinality({}) = 0 /\ Slots \in Nat /\ 0 \in 0 .. MaxTroubles
  BY FS_EmptySet, ExportAssumption
<1>2. {r \in Requests : InSlot(r)} = {}
  BY DEF ExportInit, InSlot
<1>3. ExportTypeOK
  BY <1>1, <1>2 DEF ExportInit, ExportTypeOK
<1>4. ExportDoneIsComplete /\ RowsFollow /\ OneAtATimePerUser
  BY DEF ExportInit, ExportDoneIsComplete, RowsFollow, OneAtATimePerUser, Active, Enqueuing
<1> QED BY <1>3, <1>4 DEF ExportInv

LEMMA CreateKeeps ==
  ASSUME ExportInv, NEW r \in Requests, CreateExport(r, request[r].user)
  PROVE  ExportInv'
<1> DEFINE u == request[r].user
           clash == \E q \in Requests : Enqueuing(q) /\ request[q].user = u
<1>1. /\ request[r].pc = "idle" /\ request' = [request EXCEPT ![r] = [pc |-> "count", user |-> u]]
      /\ raced' = IF clash THEN raced \cup {u} ELSE raced
      /\ UNCHANGED <<exports, job, expired, sem, file, excused, troubles>>
  BY DEF CreateExport
<1>2. ExportTypeOK /\ request \in [Requests -> RequestStates] /\ u \in Users
  BY DEF ExportInv, ExportTypeOK, RequestStates
<1>3. /\ request' \in [Requests -> RequestStates] /\ request'[r].pc = "count" /\ request'[r].user = u
      /\ \A q \in Requests : q # r => request'[q] = request[q]
      /\ \A q \in Requests : request'[q].user = request[q].user
  BY <1>1, <1>2 DEF RequestStates
<1>4. ExportTypeOK'
  <2>1. {q \in Requests : InSlot(q)}' = {q \in Requests : InSlot(q)}
    BY <1>1 DEF InSlot
  <2>2. raced' \subseteq Users
    BY <1>1, <1>2 DEF ExportTypeOK
  <2> QED BY <1>1, <1>2, <1>3, <2>1, <2>2 DEF ExportTypeOK, RequestStates
<1>5. ExportDoneIsComplete' /\ RowsFollow'
  BY <1>1, <1>3 DEF ExportInv, ExportDoneIsComplete, RowsFollow, Active
<1>6. OneAtATimePerUser'
  <2> SUFFICES ASSUME NEW q \in Requests, NEW s \in Requests, SameUser(q, s)'
               PROVE  /\ Enqueuing(q)' /\ Enqueuing(s)' => q = s
                      /\ request'[s].pc = "insert" => ~Active(q)'
                      /\ Active(q)' /\ Active(s)' => q = s
    BY DEF OneAtATimePerUser
  <2>1. SameUser(q, s)
    BY <1>1, <1>3 DEF SameUser
  <2>2. /\ Enqueuing(q) /\ Enqueuing(s) => q = s
        /\ request[s].pc = "insert" => ~Active(q)
        /\ Active(q) /\ Active(s) => q = s
    BY <2>1 DEF ExportInv, OneAtATimePerUser
  <2>3. (Active(q)' <=> Active(q)) /\ (Active(s)' <=> Active(s))
    BY <1>1 DEF Active
  <2>4. request'[s].pc = "insert" => request[s].pc = "insert"
    BY <1>3
  <2>5. ASSUME Enqueuing(q)', Enqueuing(s)', q # s PROVE FALSE
    <3>1. (q # r => Enqueuing(q)) /\ (s # r => Enqueuing(s))
      BY <1>3, <2>5 DEF Enqueuing
    <3>2. q = r \/ s = r
      BY <2>2, <2>5, <3>1
    <3>3. clash
      BY <2>1, <2>5, <3>1, <3>2 DEF SameUser
    <3>4. u \in raced'
      BY <1>1, <3>3
    <3> QED BY <1>3, <2>1, <3>2, <3>4 DEF SameUser
  <2> QED BY <2>2, <2>3, <2>4, <2>5
<1> QED BY <1>4, <1>5, <1>6 DEF ExportInv

LEMMA CountKeeps ==
  ASSUME ExportInv, NEW r \in Requests, CountActive(r)
  PROVE  ExportInv'
<1> DEFINE busy == \E q \in Requests : request[q].user = request[r].user /\ Active(q)
<1>1. /\ request[r].pc = "count"
      /\ UNCHANGED <<exports, job, expired, sem, file, excused, raced, troubles>>
  BY DEF CountActive
<1>2. ExportTypeOK /\ request \in [Requests -> RequestStates]
  BY DEF ExportInv, ExportTypeOK, RequestStates
<1>3. PICK p \in {"refused", "insert"} : /\ request' = [request EXCEPT ![r].pc = p]
                                         /\ p = "insert" => ~busy
  BY DEF CountActive
<1>4. /\ request' \in [Requests -> RequestStates] /\ request'[r].pc = p
      /\ \A q \in Requests : q # r => request'[q] = request[q]
      /\ \A q \in Requests : request'[q].user = request[q].user
  BY <1>2, <1>3 DEF RequestStates
<1>5. ExportTypeOK'
  <2>1. {q \in Requests : InSlot(q)}' = {q \in Requests : InSlot(q)}
    BY <1>1 DEF InSlot
  <2> QED BY <1>1, <1>2, <1>4, <2>1 DEF ExportTypeOK, RequestStates
<1>6. ExportDoneIsComplete' /\ RowsFollow'
  BY <1>1, <1>3, <1>4 DEF ExportInv, ExportDoneIsComplete, RowsFollow, Active
<1>7. OneAtATimePerUser'
  <2> SUFFICES ASSUME NEW q \in Requests, NEW s \in Requests, SameUser(q, s)'
               PROVE  /\ Enqueuing(q)' /\ Enqueuing(s)' => q = s
                      /\ request'[s].pc = "insert" => ~Active(q)'
                      /\ Active(q)' /\ Active(s)' => q = s
    BY DEF OneAtATimePerUser
  <2>1. SameUser(q, s)
    BY <1>1, <1>4 DEF SameUser
  <2>2. /\ Enqueuing(q) /\ Enqueuing(s) => q = s
        /\ request[s].pc = "insert" => ~Active(q)
        /\ Active(q) /\ Active(s) => q = s
    BY <2>1 DEF ExportInv, OneAtATimePerUser
  <2>3. (Active(q)' <=> Active(q)) /\ (Active(s)' <=> Active(s))
    BY <1>1 DEF Active
  <2>4. (Enqueuing(q)' => Enqueuing(q)) /\ (Enqueuing(s)' => Enqueuing(s))
    BY <1>1, <1>4 DEF Enqueuing
  <2>5. ASSUME request'[s].pc = "insert" PROVE ~Active(q)
    <3>1. CASE s = r
      BY <1>3, <1>4, <2>1, <2>5, <3>1 DEF SameUser
    <3>2. CASE s # r
      BY <1>4, <2>2, <2>5, <3>2
    <3> QED BY <3>1, <3>2
  <2> QED BY <2>2, <2>3, <2>4, <2>5
<1> QED BY <1>5, <1>6, <1>7 DEF ExportInv

LEMMA InsertKeeps ==
  ASSUME ExportInv, NEW r \in Requests, InsertExport(r)
  PROVE  ExportInv'
<1>1. /\ request[r].pc = "insert"
      /\ UNCHANGED <<expired, sem, file, raced>>
  BY DEF InsertExport
<1>2. /\ ExportTypeOK /\ request \in [Requests -> RequestStates]
      /\ exports \in [Requests -> RowStates] /\ job \in [Requests -> JobPlaces]
  BY DEF ExportInv, ExportTypeOK, RequestStates, RowStates, JobPlaces
<1>3. job[r] = "none" /\ exports[r] = "none"
  BY <1>1 DEF ExportInv, RowsFollow
<1>a. PICK p \in {"accepted", "refused"}, row \in {"pending", "none"}, j \in {"queued", "gone", "none"} :
        /\ request' = [request EXCEPT ![r].pc = p]
        /\ exports' = [exports EXCEPT ![r] = row] /\ job' = [job EXCEPT ![r] = j]
        /\ row = "none" <=> j = "none"
        /\ j = "gone" => r \in excused'
        /\ excused \subseteq excused' /\ excused' \subseteq Requests
        /\ troubles' \in 0 .. MaxTroubles
  <2>1. excused \subseteq Requests /\ troubles \in 0 .. MaxTroubles
    BY <1>2 DEF ExportTypeOK
  <2>2. CASE /\ request' = [request EXCEPT ![r].pc = "accepted"]
             /\ exports' = [exports EXCEPT ![r] = "pending"]
             /\ job' = [job EXCEPT ![r] = "queued"]
             /\ UNCHANGED <<excused, troubles>>
    BY <2>1, <2>2
  <2>3. CASE /\ request' = [request EXCEPT ![r].pc = "refused"]
             /\ UNCHANGED <<exports, job, excused, troubles>>
    <3>1. exports' = [exports EXCEPT ![r] = "none"]
      BY <1>2, <1>3, <2>3 DEF RowStates
    <3>2. job' = [job EXCEPT ![r] = "none"]
      BY <1>2, <1>3, <2>3 DEF JobPlaces
    <3> QED BY <2>1, <2>3, <3>1, <3>2
  <2>4. CASE /\ troubles < MaxTroubles /\ troubles' = troubles + 1
             /\ request' = [request EXCEPT ![r].pc = "refused"]
             /\ exports' = [exports EXCEPT ![r] = "pending"]
             /\ job' = [job EXCEPT ![r] = "gone"]
             /\ excused' = excused \cup {r}
    <3>1. troubles' \in 0 .. MaxTroubles
      BY <2>1, <2>4, ExportAssumption
    <3> QED BY <2>1, <2>4, <3>1
  <2> QED BY <2>2, <2>3, <2>4 DEF InsertExport
<1>4. /\ request' \in [Requests -> RequestStates] /\ request'[r].pc \in {"accepted", "refused"}
      /\ \A q \in Requests : q # r => request'[q] = request[q]
      /\ \A q \in Requests : request'[q].user = request[q].user
  BY <1>2, <1>a DEF RequestStates
<1>5. /\ exports' \in [Requests -> RowStates] /\ job' \in [Requests -> JobPlaces]
      /\ exports'[r] = row /\ job'[r] = j
      /\ \A q \in Requests : q # r => exports'[q] = exports[q] /\ job'[q] = job[q]
  BY <1>2, <1>a DEF RowStates, JobPlaces
<1>6. ExportTypeOK'
  <2>1. {q \in Requests : InSlot(q)}' = {q \in Requests : InSlot(q)}
    BY <1>3, <1>5 DEF InSlot
  <2> QED BY <1>1, <1>2, <1>a, <1>4, <1>5, <2>1 DEF ExportTypeOK, RequestStates, RowStates, JobPlaces
<1>7. ExportDoneIsComplete'
  <2> SUFFICES ASSUME NEW q \in Requests
               PROVE  /\ exports'[q] = "done" => file'[q] = "complete"
                      /\ Active(q)' /\ job'[q] = "gone" => q \in excused'
    BY DEF ExportDoneIsComplete
  <2>1. CASE q = r
    BY <1>a, <1>5, <2>1
  <2>2. CASE q # r
    BY <1>1, <1>a, <1>5, <2>2 DEF ExportInv, ExportDoneIsComplete, Active
  <2> QED BY <2>1, <2>2
<1>8. RowsFollow'
  <2> SUFFICES ASSUME NEW q \in Requests
               PROVE  /\ request'[q].pc \in {"idle", "count", "insert"} => job'[q] = "none"
                      /\ job'[q] = "none" => exports'[q] = "none"
                      /\ job'[q] \notin {"none", "gone"} => Active(q)'
                      /\ job'[q] = "finish" => file'[q] = "complete"
    BY DEF RowsFollow
  <2>1. CASE q = r
    BY <1>a, <1>4, <1>5, <2>1 DEF Active
  <2>2. CASE q # r
    BY <1>1, <1>4, <1>5, <2>2 DEF ExportInv, RowsFollow, Active
  <2> QED BY <2>1, <2>2
<1>9. OneAtATimePerUser'
  <2> SUFFICES ASSUME NEW q \in Requests, NEW s \in Requests, SameUser(q, s)'
               PROVE  /\ Enqueuing(q)' /\ Enqueuing(s)' => q = s
                      /\ request'[s].pc = "insert" => ~Active(q)'
                      /\ Active(q)' /\ Active(s)' => q = s
    BY DEF OneAtATimePerUser
  <2>1. SameUser(q, s) /\ SameUser(s, q)
    BY <1>1, <1>4 DEF SameUser
  <2>2. \A a, b \in Requests : SameUser(a, b) =>
          /\ Enqueuing(a) /\ Enqueuing(b) => a = b
          /\ request[b].pc = "insert" => ~Active(a)
          /\ Active(a) /\ Active(b) => a = b
    BY DEF ExportInv, OneAtATimePerUser
  <2>3. \A a \in Requests : /\ Enqueuing(a)' => Enqueuing(a) /\ a # r
                            /\ a # r => (Active(a)' <=> Active(a))
    BY <1>4, <1>5 DEF Enqueuing, Active
  <2>4. Enqueuing(q)' /\ Enqueuing(s)' => q = s
    BY <2>1, <2>2, <2>3
  <2>5. ASSUME request'[s].pc = "insert" PROVE ~Active(q)'
    <3>1. s # r /\ request[s].pc = "insert" /\ Enqueuing(s)
      BY <1>4, <2>5 DEF Enqueuing
    <3>2. Enqueuing(r)
      BY <1>1 DEF Enqueuing
    <3>3. q # r
      BY <2>1, <2>2, <3>1, <3>2
    <3> QED BY <2>1, <2>2, <2>3, <3>1, <3>3
  <2>6. ASSUME Active(q)', Active(s)', q # s PROVE FALSE
    <3>1. CASE q = r
      BY <1>1, <2>1, <2>2, <2>3, <2>6, <3>1
    <3>2. CASE s = r
      BY <1>1, <2>1, <2>2, <2>3, <2>6, <3>2
    <3>3. CASE q # r /\ s # r
      BY <2>1, <2>2, <2>3, <2>6, <3>3
    <3> QED BY <3>1, <3>2, <3>3
  <2> QED BY <2>4, <2>5, <2>6
<1> QED BY <1>6, <1>7, <1>8, <1>9 DEF ExportInv

(* A running job goes to another place, or ends. Its row is active until   *)
(* then, and stays active after it only if that is excused.                *)
LEMMA JobMoves ==
  ASSUME ExportInv, NEW r \in Requests, NEW p \in JobPlaces \ {"none", "queued"},
         job' = [job EXCEPT ![r] = p], job[r] \notin {"none", "gone"},
         sem' = (IF p = "gone" THEN sem \ {r} ELSE sem \cup {r}), Cardinality(sem') <= Slots,
         exports' \in [Requests -> RowStates], file' \in [Requests -> {"none", "partial", "complete"}],
         \A q \in Requests : q # r => exports'[q] = exports[q] /\ file'[q] = file[q],
         exports'[r] # "none",
         p # "gone" => Active(r)',
         p = "gone" /\ Active(r)' => r \in excused',
         p = "finish" \/ exports'[r] = "done" => file'[r] = "complete",
         excused \subseteq excused', excused' \subseteq Requests, troubles' \in 0 .. MaxTroubles,
         UNCHANGED <<request, expired, raced>>
  PROVE  ExportInv'
<1>1. ExportTypeOK /\ job \in [Requests -> JobPlaces]
  BY DEF ExportInv, ExportTypeOK, JobPlaces
<1>2. /\ job' \in [Requests -> JobPlaces] /\ job'[r] = p
      /\ \A q \in Requests : q # r => job'[q] = job[q]
  BY <1>1
<1>3. ExportTypeOK'
  <2>1. sem' = {q \in Requests : InSlot(q)}'
    <3>1. sem = {q \in Requests : InSlot(q)}
      BY <1>1 DEF ExportTypeOK
    <3>2. InSlot(r)' <=> p # "gone"
      BY <1>2 DEF InSlot, JobPlaces
    <3>3. \A q \in Requests : q # r => (InSlot(q)' <=> InSlot(q))
      BY <1>2 DEF InSlot
    <3>4. \A q : q \in sem' <=> q \in Requests /\ InSlot(q)'
      BY <3>1, <3>2, <3>3
    <3> QED BY <3>4
  <2> QED BY <1>1, <1>2, <2>1 DEF ExportTypeOK, RowStates, JobPlaces
<1>4. ExportDoneIsComplete'
  <2> SUFFICES ASSUME NEW q \in Requests
               PROVE  /\ exports'[q] = "done" => file'[q] = "complete"
                      /\ Active(q)' /\ job'[q] = "gone" => q \in excused'
    BY DEF ExportDoneIsComplete
  <2>1. CASE q = r
    BY <1>2, <2>1
  <2>2. CASE q # r
    BY <1>2, <2>2 DEF ExportInv, ExportDoneIsComplete, Active
  <2> QED BY <2>1, <2>2
<1>5. RowsFollow'
  <2> SUFFICES ASSUME NEW q \in Requests
               PROVE  /\ request'[q].pc \in {"idle", "count", "insert"} => job'[q] = "none"
                      /\ job'[q] = "none" => exports'[q] = "none"
                      /\ job'[q] \notin {"none", "gone"} => Active(q)'
                      /\ job'[q] = "finish" => file'[q] = "complete"
    BY DEF RowsFollow
  <2>1. CASE q = r
    <3>1. request[r].pc \notin {"idle", "count", "insert"}
      BY DEF ExportInv, RowsFollow
    <3> QED BY <1>2, <2>1, <3>1
  <2>2. CASE q # r
    BY <1>2, <2>2 DEF ExportInv, RowsFollow, Active
  <2> QED BY <2>1, <2>2
<1>6. OneAtATimePerUser'
  <2>1. \A q \in Requests : Active(q)' => Active(q)
    <3>1. Active(r)
      BY DEF ExportInv, RowsFollow
    <3> QED BY <3>1 DEF Active
  <2>2. \A q \in Requests : Enqueuing(q)' <=> Enqueuing(q)
    BY DEF Enqueuing
  <2>3. \A q, s \in Requests : SameUser(q, s)' <=> SameUser(q, s)
    BY DEF SameUser
  <2> QED BY <2>1, <2>2, <2>3 DEF ExportInv, OneAtATimePerUser
<1> QED BY <1>3, <1>4, <1>5, <1>6 DEF ExportInv

LEMMA JobStepKeeps ==
  ASSUME ExportInv, NEW r \in Requests, JobStep(r)
  PROVE  ExportInv'
<1>1. /\ exports \in [Requests -> RowStates] /\ job \in [Requests -> JobPlaces]
      /\ file \in [Requests -> {"none", "partial", "complete"}] /\ excused \subseteq Requests
      /\ sem = {q \in Requests : InSlot(q)} /\ Cardinality(sem) <= Slots
      /\ troubles \in 0 .. MaxTroubles
  BY DEF ExportInv, ExportTypeOK, RowStates, JobPlaces
<1>2. IsFiniteSet(sem) /\ Cardinality(sem) \in Nat /\ Slots \in Nat
  <2>1. IsFiniteSet(sem)
    BY <1>1, ExportAssumption, FS_Subset
  <2> QED BY <2>1, ExportAssumption, FS_CardinalityType
<1>3. ASSUME sem \cup {r} = sem \/ Cardinality(sem) < Slots
      PROVE  Cardinality(sem \cup {r}) <= Slots
  <2>1. CASE r \in sem
    <3>1. sem \cup {r} = sem
      BY <2>1
    <3> QED BY <1>1, <3>1
  <2>2. CASE r \notin sem
    <3>1. Cardinality(sem \cup {r}) = Cardinality(sem) + 1
      BY <1>2, <2>2, FS_AddElement
    <3>2. sem \cup {r} # sem
      BY <2>2
    <3>3. Cardinality(sem) < Slots
      BY <1>3, <3>2
    <3> QED BY <1>2, <3>1, <3>3
  <2> QED BY <2>1, <2>2
<1>4. Cardinality(sem \ {r}) <= Slots
  <2>1. Cardinality(sem \ {r}) <= Cardinality(sem) /\ Cardinality(sem \ {r}) \in Nat
    BY <1>2, FS_Subset, FS_CardinalityType
  <2> QED BY <1>1, <1>2, <2>1
<1>5. CallFails(r) => troubles' \in 0 .. MaxTroubles
  BY <1>1, ExportAssumption DEF CallFails
<1>6. /\ job[r] \notin {"none", "gone"} => Active(r)
      /\ job[r] = "finish" => file[r] = "complete"
      /\ exports[r] = "done" => file[r] = "complete"
      /\ InSlot(r) => sem \cup {r} = sem
  BY <1>1 DEF ExportInv, RowsFollow, ExportDoneIsComplete
<1>7. CASE Acquire(r)
  <2>1. /\ job' = [job EXCEPT ![r] = "load"] /\ job[r] = "queued"
        /\ sem' = sem \cup {r} /\ Cardinality(sem') <= Slots
        /\ UNCHANGED <<request, exports, expired, file, excused, raced, troubles>>
    BY <1>3, <1>7 DEF Acquire
  <2>2. Active(r) /\ Active(r)'
    BY <1>6, <2>1 DEF Active
  <2> QED BY <1>1, <1>6, <2>1, <2>2, JobMoves DEF JobPlaces, Active
<1>8. CASE Load(r)
  <2>1. /\ job' = [job EXCEPT ![r] = "mark"] /\ job[r] = "load" /\ sem' = sem
        /\ UNCHANGED <<request, exports, expired, file, excused, raced, troubles>>
    BY <1>8 DEF Load
  <2>2. Active(r) /\ Active(r)' /\ sem \cup {r} = sem
    BY <1>6, <2>1 DEF Active, InSlot
  <2> QED BY <1>1, <1>6, <2>1, <2>2, JobMoves DEF JobPlaces, Active
<1>9. CASE LoadFails(r)
  <2>1. /\ job' = [job EXCEPT ![r] = "gone"] /\ job[r] = "load" /\ sem' = sem \ {r}
        /\ excused' = excused \cup {r} /\ troubles' \in 0 .. MaxTroubles
        /\ UNCHANGED <<request, exports, expired, file, raced>>
    BY <1>5, <1>9 DEF LoadFails, JobEnds
  <2>2. Active(r)
    BY <1>6, <2>1
  <2> QED BY <1>1, <1>4, <1>6, <2>1, <2>2, JobMoves DEF JobPlaces, Active
<1>10. CASE MarkProcessing(r)
  <2>1. /\ job' = [job EXCEPT ![r] = "copy"] /\ job[r] = "mark" /\ sem' = sem
        /\ exports' = [exports EXCEPT ![r] = "processing"] \/ exports' = exports
        /\ troubles' \in 0 .. MaxTroubles
        /\ UNCHANGED <<request, expired, file, excused, raced>>
    BY <1>1, <1>5, <1>10 DEF MarkProcessing
  <2>2. Active(r) /\ sem \cup {r} = sem
    BY <1>6, <2>1 DEF InSlot
  <2>3. /\ exports' \in [Requests -> RowStates] /\ exports'[r] \in {"pending", "processing"}
        /\ \A q \in Requests : q # r => exports'[q] = exports[q]
    BY <1>1, <2>1, <2>2 DEF RowStates, Active
  <2> QED BY <1>1, <2>1, <2>2, <2>3, JobMoves DEF JobPlaces, Active
<1>11. CASE CopySegments(r)
  <2>1. /\ job[r] = "copy" /\ sem' = sem
        /\ UNCHANGED <<request, exports, expired, file, excused, raced, troubles>>
    BY <1>11 DEF CopySegments
  <2>2. PICK p \in {"remux", "fail"} : job' = [job EXCEPT ![r] = p]
    BY <1>11 DEF CopySegments
  <2>3. Active(r) /\ Active(r)' /\ sem \cup {r} = sem
    BY <1>6, <2>1 DEF Active, InSlot
  <2> QED BY <1>1, <1>6, <2>1, <2>2, <2>3, JobMoves DEF JobPlaces, Active
<1>12. CASE Remux(r)
  <2>1. /\ job[r] = "remux" /\ sem' = sem
        /\ UNCHANGED <<request, exports, expired, excused, raced, troubles>>
    BY <1>12 DEF Remux
  <2>2. PICK p \in {"finish", "fail"}, a \in {"complete", "partial"} :
          /\ job' = [job EXCEPT ![r] = p] /\ file' = [file EXCEPT ![r] = a]
          /\ p = "finish" => a = "complete"
    BY <1>12 DEF Remux
  <2>3. Active(r) /\ Active(r)' /\ sem \cup {r} = sem /\ exports'[r] # "done"
    BY <1>6, <2>1 DEF Active, InSlot
  <2>4. /\ file' \in [Requests -> {"none", "partial", "complete"}] /\ file'[r] = a
        /\ \A q \in Requests : q # r => file'[q] = file[q]
    BY <1>1, <2>2
  <2> QED BY <1>1, <2>1, <2>2, <2>3, <2>4, JobMoves DEF JobPlaces, Active
<1>13. CASE SetOutcome(r)
  <2>1. /\ job' = [job EXCEPT ![r] = "gone"] /\ job[r] \in {"finish", "fail"} /\ sem' = sem \ {r}
        /\ UNCHANGED <<request, expired, file, raced>>
    BY <1>13 DEF SetOutcome, JobEnds
  <2>2. Active(r)
    BY <1>6, <2>1
  <2>3. CASE exports' = [exports EXCEPT ![r] = Outcome(r)] /\ UNCHANGED <<excused, troubles>>
    <3>1. /\ Outcome(r) \in {"done", "failed"} /\ (Outcome(r) = "done" => file[r] = "complete")
      BY <1>6, <2>1 DEF Outcome
    <3>2. /\ exports' \in [Requests -> RowStates] /\ exports'[r] = Outcome(r)
          /\ \A q \in Requests : q # r => exports'[q] = exports[q]
      BY <1>1, <2>3, <3>1 DEF RowStates
    <3>3. ~Active(r)'
      BY <3>1, <3>2 DEF Active
    <3> QED BY <1>1, <1>4, <2>1, <2>3, <3>1, <3>2, <3>3, JobMoves DEF JobPlaces
  <2>4. CASE CallFails(r) /\ excused' = excused \cup {r} /\ UNCHANGED exports
    BY <1>1, <1>4, <1>5, <1>6, <2>1, <2>2, <2>4, JobMoves DEF JobPlaces, Active
  <2> QED BY <1>13, <2>3, <2>4 DEF SetOutcome
<1> QED BY <1>7, <1>8, <1>9, <1>10, <1>11, <1>12, <1>13 DEF JobStep

LEMMA RestartKeeps ==
  ASSUME ExportInv, ExportRestart
  PROVE  ExportInv'
<1>1. /\ excused' = excused \cup {r \in Requests : Active(r)}
      /\ request' = [r \in Requests |-> IF Enqueuing(r) THEN [request[r] EXCEPT !.pc = "refused"]
                                        ELSE request[r]]
      /\ job' = [r \in Requests |-> IF job[r] = "none" THEN "none" ELSE "gone"]
      /\ sem' = {} /\ troubles < MaxTroubles /\ troubles' = troubles + 1
      /\ UNCHANGED <<exports, expired, file, raced>>
  BY DEF ExportRestart
<1>2. /\ ExportTypeOK /\ request \in [Requests -> RequestStates] /\ job \in [Requests -> JobPlaces]
  BY DEF ExportInv, ExportTypeOK, RequestStates, JobPlaces
<1>3. ASSUME NEW r \in Requests
      PROVE  /\ request'[r] \in RequestStates /\ request'[r].user = request[r].user
             /\ request'[r].pc = request[r].pc \/ request'[r].pc = "refused"
             /\ ~Enqueuing(r)'
             /\ job'[r] = IF job[r] = "none" THEN "none" ELSE "gone"
  BY <1>1, <1>2 DEF RequestStates, Enqueuing
<1>4. ExportTypeOK'
  <2>1. {r \in Requests : InSlot(r)}' = {}
    BY <1>3 DEF InSlot
  <2>2. Cardinality(sem') <= Slots
    BY <1>1, FS_EmptySet, ExportAssumption
  <2>3. troubles' \in 0 .. MaxTroubles
    <3>1. troubles \in 0 .. MaxTroubles
      BY <1>2 DEF ExportTypeOK
    <3> QED BY <1>1, <3>1, ExportAssumption
  <2>4. request' \in [Requests -> RequestStates] /\ job' \in [Requests -> JobPlaces]
    BY <1>1, <1>3 DEF JobPlaces
  <2> QED BY <1>1, <1>2, <2>1, <2>2, <2>3, <2>4 DEF ExportTypeOK, RequestStates, JobPlaces
<1>5. ExportDoneIsComplete' /\ RowsFollow'
  BY <1>1, <1>3 DEF ExportInv, ExportDoneIsComplete, RowsFollow, Active
<1>6. OneAtATimePerUser'
  <2>1. \A q \in Requests : Active(q)' <=> Active(q)
    BY <1>1 DEF Active
  <2>2. \A q \in Requests : ~Enqueuing(q)' /\ request'[q].pc # "insert"
    BY <1>3 DEF Enqueuing
  <2>3. \A q, s \in Requests : SameUser(q, s)' <=> SameUser(q, s)
    BY <1>1, <1>3 DEF SameUser
  <2> QED BY <2>1, <2>2, <2>3 DEF ExportInv, OneAtATimePerUser
<1> QED BY <1>4, <1>5, <1>6 DEF ExportInv

LEMMA ExportSteps == ExportInv /\ [ExportNext]_exportVars => ExportInv'
<1> SUFFICES ASSUME ExportInv, [ExportNext]_exportVars PROVE ExportInv'
  OBVIOUS
<1>1. ASSUME NEW r \in Requests, Deadline(r) PROVE ExportInv'
  <2>1. /\ expired' = expired \cup {r} /\ troubles < MaxTroubles /\ troubles' = troubles + 1
        /\ UNCHANGED <<request, exports, job, sem, file, excused, raced>>
    BY <1>1 DEF Deadline
  <2>2. troubles \in 0 .. MaxTroubles /\ expired' \subseteq Requests
    BY <2>1 DEF ExportInv, ExportTypeOK
  <2>3. troubles' \in 0 .. MaxTroubles
    BY <2>1, <2>2, ExportAssumption
  <2>4. ExportTypeOK'
    BY <2>1, <2>2, <2>3 DEF ExportInv, ExportTypeOK, InSlot
  <2> QED BY <2>1, <2>4 DEF ExportInv, ExportDoneIsComplete, RowsFollow, OneAtATimePerUser, Active,
                            SameUser, Enqueuing
<1>2. CASE UNCHANGED exportVars
  BY <1>2 DEF exportVars, ExportInv, ExportTypeOK, ExportDoneIsComplete, RowsFollow,
              OneAtATimePerUser, Active, SameUser, Enqueuing, InSlot
<1> QED BY <1>1, <1>2, CreateKeeps, CountKeeps, InsertKeeps, JobStepKeeps, RestartKeeps DEF ExportNext

(* Whatever fails and whenever the daemon restarts, for any number of      *)
(* requests, users and slots: a user whose requests do not overlap has one *)
(* active export, no slot is lost, and a row is done only when its file is *)
(* complete.                                                               *)
THEOREM ExportIsSafe == ExportSpec => []ExportSafe
<1>1. ExportInv => ExportSafe
  <2> SUFFICES ASSUME ExportInv PROVE ExportSafe
    OBVIOUS
  <2>1. ASSUME NEW u \in Users \ raced
        PROVE  Cardinality({r \in Requests : request[r].user = u /\ Active(r)}) <= 1
    <3>1. \A x, y \in {r \in Requests : request[r].user = u /\ Active(r)} : x = y
      BY DEF ExportInv, OneAtATimePerUser, SameUser
    <3> QED BY <3>1, AtMostOne
  <2> QED BY <2>1 DEF ExportInv, ExportSafe, ExportOnePerUser
<1>2. ExportSpec => []ExportInv
  BY ExportInitially, ExportSteps, PTL DEF ExportSpec
<1> QED BY <1>1, <1>2, PTL


----------------------------------------------------------------------------
(* Notify. The worker takes the events in the order in which they were     *)
(* created, each once, so a delivery starts at most once and its log is    *)
(* empty until it ends; how far a delivery has come bounds how often it    *)
(* can have arrived.                                                       *)

Phases == {"none", "open", "wait", "send", "logSent", "logFailed", "done"}
Entries == {"sent", "failed", "cooldown_skip"}
Progress == [pc : Phases, attempt : 0 .. Backoffs, late : BOOLEAN]

InboxInOrder == \A i, j \in 1 .. Len(inbox) : i < j => inbox[i] < inbox[j]

Waiting(ev) == ev > created \/ \E i \in 1 .. Len(inbox) : inbox[i] = ev

NotBegun(d) == delivery[d].pc = "none" /\ arrived[d] = 0 /\ log[d] = <<>>

(* What a delivery's phase says of its attempts, arrivals and log.         *)
Course(d) ==
    /\ delivery[d].pc = "none" => arrived[d] = 0 /\ log[d] \in {<<>>, <<"cooldown_skip">>}
    /\ InDelivery(d) => log[d] = <<>>
    /\ delivery[d].pc = "open" => arrived[d] = 0 /\ delivery[d].attempt = 0
    /\ delivery[d].pc \in {"wait", "send"} =>
          delivery[d].attempt < Backoffs /\ arrived[d] <= delivery[d].attempt
    /\ delivery[d].pc = "logSent" => arrived[d] >= 1
    /\ delivery[d].pc = "done" => log[d] \in {<<>>, <<"sent">>, <<"failed">>}
    /\ log[d] = <<"sent">> => arrived[d] >= 1

(* Without a lost acknowledgement, what is still being sent or has failed  *)
(* has not arrived.                                                        *)
Exactly(d) ==
    mishaps.uncertain = FALSE =>
        /\ arrived[d] <= 1
        /\ delivery[d].pc \in {"open", "wait", "send", "logFailed"} => arrived[d] = 0
        /\ log[d] = <<"failed">> => arrived[d] = 0

NotifyTypes ==
    /\ created \in 0 .. MaxEvents /\ inbox \in Seq(1 .. created) /\ Len(inbox) <= InboxSize
    /\ cooling \subseteq Rules /\ enabled \subseteq Channels /\ unlogged \subseteq Deliveries
    /\ notified \subseteq 1 .. created
    /\ delivery \in [Deliveries -> Progress]
    /\ arrived \in [Deliveries -> 0 .. Backoffs]
    /\ mishaps \in [count : 0 .. MaxMishaps, uncertain : BOOLEAN]
    /\ log \in [Deliveries -> Seq(Entries)]

NotifyInv ==
    /\ NotifyTypes
    /\ InboxInOrder
    /\ \A d \in Deliveries : Waiting(d[3]) => NotBegun(d)
    /\ \A d \in Deliveries : Course(d) /\ Exactly(d)
    /\ \A ev \in notified : \E d \in Deliveries : d[3] = ev /\ arrived[d] >= 1

LEMMA NotifyInitially == NotifyInit => NotifyInv
<1> SUFFICES ASSUME NotifyInit PROVE NotifyInv
  OBVIOUS
<1>1. NotifyTypes
  BY NotifyAssumption DEF NotifyInit, NotifyTypes, Progress, Phases, Backoffs, Entries
<1>2. InboxInOrder
  BY DEF NotifyInit, InboxInOrder
<1>3. \A d \in Deliveries : NotBegun(d) /\ Course(d) /\ Exactly(d)
  BY DEF NotifyInit, NotBegun, Course, Exactly, InDelivery, Backoffs
<1> QED BY <1>1, <1>2, <1>3 DEF NotifyInv, NotifyInit

LEMMA MishapCounts ==
  ASSUME NotifyTypes, NEW kind, Mishap(kind)
  PROVE  /\ mishaps' \in [count : 0 .. MaxMishaps, uncertain : BOOLEAN]
         /\ mishaps'.uncertain = FALSE => mishaps.uncertain = FALSE /\ kind # "uncertain"
<1>1. mishaps.count \in 0 .. MaxMishaps /\ mishaps.uncertain \in BOOLEAN
  BY DEF NotifyTypes
<1>2. mishaps.count + 1 \in 0 .. MaxMishaps
  BY <1>1, NotifyAssumption DEF Mishap
<1>3. (mishaps.uncertain \/ kind = "uncertain") \in BOOLEAN
  OBVIOUS
<1>4. mishaps' = [count |-> mishaps.count + 1, uncertain |-> mishaps.uncertain \/ kind = "uncertain"]
  BY DEF Mishap
<1>5. mishaps'.uncertain = (mishaps.uncertain \/ kind = "uncertain")
  BY <1>4
<1> QED BY <1>1, <1>2, <1>3, <1>4, <1>5

(* The delivery d goes on to progress p, with n arrivals and log l.        *)
Moves(d, p, n, l) ==
    /\ delivery' = [delivery EXCEPT ![d] = p]
    /\ arrived' = [arrived EXCEPT ![d] = n]
    /\ log' = [log EXCEPT ![d] = l]
    /\ mishaps' \in [count : 0 .. MaxMishaps, uncertain : BOOLEAN]
    /\ mishaps'.uncertain = FALSE => mishaps.uncertain = FALSE
    /\ unlogged' \subseteq unlogged \cup {d}
    /\ notified' = notified \/ (n >= 1 /\ notified' = notified \cup {d[3]})
    /\ UNCHANGED <<created, inbox, cooling, enabled>>

(* A step of one delivery under way keeps the invariant when it keeps the  *)
(* course of that delivery.                                                *)
LEMMA DeliveryMoves ==
  ASSUME NotifyInv, NEW d \in Deliveries, InDelivery(d),
         NEW p \in Progress, NEW n \in 0 .. Backoffs, NEW l \in Seq(Entries),
         Moves(d, p, n, l), n >= arrived[d],
         Course(d)', Exactly(d)'
  PROVE  NotifyInv'
<1>1. d[3] \in 1 .. MaxEvents
  BY DEF Deliveries
<1>2. ~Waiting(d[3])
  BY DEF NotifyInv, NotBegun, InDelivery
<1>3. d[3] \in 1 .. created
  BY <1>1, <1>2 DEF NotifyInv, NotifyTypes, Waiting
<1>4. NotifyTypes'
  BY <1>3 DEF NotifyInv, NotifyTypes, Moves
<1>5. InboxInOrder'
  BY DEF NotifyInv, InboxInOrder, Moves
<1>6. ASSUME NEW e \in Deliveries, e # d
      PROVE  delivery'[e] = delivery[e] /\ arrived'[e] = arrived[e] /\ log'[e] = log[e]
  BY <1>6 DEF NotifyInv, NotifyTypes, Moves
<1>7. ASSUME NEW e \in Deliveries PROVE (Course(e) /\ Exactly(e))'
  <2>1. CASE e = d
    BY <2>1
  <2>2. CASE e # d
    BY <1>6, <2>2 DEF NotifyInv, Course, Exactly, InDelivery, Moves
  <2> QED BY <2>1, <2>2
<1>8. ASSUME NEW e \in Deliveries, Waiting(e[3])' PROVE NotBegun(e)'
  <2>1. Waiting(e[3])
    BY <1>8 DEF Waiting, Moves
  <2>2. e # d
    BY <1>2, <2>1
  <2> QED BY <1>6, <2>1, <2>2 DEF NotifyInv, NotBegun
<1>9. arrived'[d] = n
  BY DEF NotifyInv, NotifyTypes, Moves
<1>10. ASSUME NEW ev \in notified'
       PROVE  \E e \in Deliveries : e[3] = ev /\ arrived'[e] >= 1
  <2>1. CASE ev \in notified
    <3>1. PICK e \in Deliveries : e[3] = ev /\ arrived[e] >= 1
      BY <2>1 DEF NotifyInv
    <3>2. arrived'[e] >= 1
      <4>1. CASE e = d
        <5>1. arrived[d] \in Nat
          BY DEF NotifyInv, NotifyTypes, Backoffs
        <5>2. arrived[d] >= 1
          BY <3>1, <4>1
        <5>3. n >= 1
          BY <5>1, <5>2 DEF Backoffs
        <5> QED BY <1>9, <4>1, <5>3
      <4>2. CASE e # d
        BY <1>6, <3>1, <4>2
      <4> QED BY <4>1, <4>2
    <3> QED BY <3>1, <3>2
  <2>2. CASE ev \notin notified
    <3>1. ev = d[3] /\ n >= 1
      BY <1>10, <2>2 DEF Moves
    <3> QED BY <1>9, <3>1
  <2> QED BY <2>1, <2>2
<1> QED BY <1>4, <1>5, <1>7, <1>8, <1>10 DEF NotifyInv


LEMMA EventCreatedKeeps == NotifyInv /\ EventCreated => NotifyInv'
<1> SUFFICES ASSUME NotifyInv, EventCreated PROVE NotifyInv'
  OBVIOUS
<1>1. /\ created' = created + 1 /\ created < MaxEvents
      /\ UNCHANGED <<cooling, enabled, delivery, arrived, log, unlogged, mishaps, notified>>
  BY DEF EventCreated
<1>2. created \in 0 .. MaxEvents /\ inbox \in Seq(1 .. created) /\ notified \subseteq 1 .. created
  BY DEF NotifyInv, NotifyTypes
<1>3. created' \in 0 .. MaxEvents /\ 1 .. created \subseteq 1 .. created' /\ created + 1 \in 1 .. created'
  BY <1>1, <1>2, NotifyAssumption
<1>4. CASE inbox' = inbox
  <2>1. inbox \in Seq(1 .. created')
    BY <1>2, <1>3
  <2>2. \A d \in Deliveries : Waiting(d[3])' => Waiting(d[3])
    <3> SUFFICES ASSUME NEW d \in Deliveries, Waiting(d[3])' PROVE Waiting(d[3])
      OBVIOUS
    <3>1. d[3] \in Nat
      BY DEF Deliveries
    <3> QED BY <1>1, <1>2, <1>4, <3>1 DEF Waiting
  <2>3. NotifyTypes'
    BY <1>1, <1>2, <1>3, <1>4, <2>1 DEF NotifyInv, NotifyTypes
  <2> QED BY <1>1, <1>4, <2>2, <2>3 DEF NotifyInv, InboxInOrder, NotBegun, Course, Exactly, InDelivery
<1>5. CASE inbox' = Append(inbox, created + 1) /\ Len(inbox) < InboxSize
  <2>1. inbox \in Seq(1 .. created') /\ Len(inbox) \in Nat
    BY <1>2, <1>3
  <2>2. /\ inbox' \in Seq(1 .. created') /\ Len(inbox') = Len(inbox) + 1
        /\ \A i \in 1 .. Len(inbox) : inbox'[i] = inbox[i]
        /\ inbox'[Len(inbox) + 1] = created + 1
    BY <1>3, <1>5, <2>1
  <2>3. Len(inbox') <= InboxSize
    BY <1>5, <2>1, <2>2, NotifyAssumption
  <2>4. \A i \in 1 .. Len(inbox) : inbox[i] \in 1 .. created
    BY <1>2
  <2>5. InboxInOrder'
    <3> SUFFICES ASSUME NEW i \in 1 .. Len(inbox'), NEW j \in 1 .. Len(inbox'), i < j
                 PROVE  inbox'[i] < inbox'[j]
      BY DEF InboxInOrder
    <3>1. i \in 1 .. Len(inbox)
      BY <2>1, <2>2
    <3>2. CASE j \in 1 .. Len(inbox)
      BY <2>2, <3>1, <3>2 DEF NotifyInv, InboxInOrder
    <3>3. CASE j = Len(inbox) + 1
      BY <1>2, <2>2, <2>4, <3>1, <3>3
    <3> QED BY <2>1, <2>2, <3>2, <3>3
  <2>6. \A d \in Deliveries : Waiting(d[3])' => Waiting(d[3])
    <3> SUFFICES ASSUME NEW d \in Deliveries, Waiting(d[3])', ~Waiting(d[3]) PROVE FALSE
      OBVIOUS
    <3>1. d[3] \in Nat
      BY DEF Deliveries
    <3>2. ~(d[3] > created + 1) /\ d[3] # created + 1
      BY <1>2, <3>1 DEF Waiting
    <3>3. PICK i \in 1 .. Len(inbox') : inbox'[i] = d[3]
      BY <1>1, <3>2 DEF Waiting
    <3>4. i \in 1 .. Len(inbox)
      BY <2>1, <2>2, <3>2, <3>3
    <3> QED BY <2>2, <3>3, <3>4 DEF Waiting
  <2>7. NotifyTypes'
    BY <1>1, <1>2, <1>3, <2>2, <2>3 DEF NotifyInv, NotifyTypes
  <2> QED BY <1>1, <2>5, <2>6, <2>7 DEF NotifyInv, NotBegun, Course, Exactly, InDelivery
<1> QED BY <1>4, <1>5 DEF EventCreated

(* Taking the head off the inbox: it was waiting, and it waits no longer.  *)
LEMMA TakingOne ==
  ASSUME NotifyInv, inbox # <<>>, inbox' = Tail(inbox), created' = created
  PROVE  /\ inbox' \in Seq(1 .. created) /\ Len(inbox') <= InboxSize /\ InboxInOrder'
         /\ Head(inbox) \in 1 .. created /\ Waiting(Head(inbox))
         /\ \A ev : Waiting(ev)' => Waiting(ev)
         /\ \A ev : ev = Head(inbox) => ~Waiting(ev)'
<1>1. created \in 0 .. MaxEvents /\ inbox \in Seq(1 .. created) /\ Len(inbox) <= InboxSize
  BY DEF NotifyInv, NotifyTypes
<1>2. /\ inbox' \in Seq(1 .. created) /\ Len(inbox) \in Nat /\ Len(inbox) >= 1
      /\ Len(inbox') = Len(inbox) - 1
      /\ \A i \in 1 .. Len(inbox') : inbox'[i] = inbox[i + 1]
      /\ Head(inbox) = inbox[1]
  BY <1>1
<1>3. Len(inbox') <= InboxSize
  BY <1>1, <1>2, NotifyAssumption
<1>4. \A i \in 1 .. Len(inbox') : i + 1 \in 1 .. Len(inbox)
  BY <1>2
<1>5. 1 \in 1 .. Len(inbox) /\ inbox[1] \in 1 .. created
  BY <1>1, <1>2
<1>6. InboxInOrder'
  <2> SUFFICES ASSUME NEW i \in 1 .. Len(inbox'), NEW j \in 1 .. Len(inbox'), i < j
               PROVE  inbox'[i] < inbox'[j]
    BY DEF InboxInOrder
  <2>1. i + 1 \in 1 .. Len(inbox) /\ j + 1 \in 1 .. Len(inbox) /\ i + 1 < j + 1
    BY <1>2, <1>4
  <2> QED BY <1>2, <2>1 DEF NotifyInv, InboxInOrder
<1>7. ASSUME NEW ev, Waiting(ev)' PROVE Waiting(ev)
  BY <1>2, <1>4, <1>7 DEF Waiting
<1>8. ASSUME NEW ev, ev = Head(inbox), Waiting(ev)' PROVE FALSE
  <2>1. ~(ev > created)
    BY <1>1, <1>2, <1>5, <1>8
  <2>2. PICK i \in 1 .. Len(inbox') : inbox'[i] = ev
    BY <1>8, <2>1 DEF Waiting
  <2>3. i + 1 \in 1 .. Len(inbox) /\ 1 < i + 1
    BY <1>2, <1>4
  <2>4. inbox[1] < inbox[i + 1]
    BY <1>5, <2>3 DEF NotifyInv, InboxInOrder
  <2> QED BY <1>2, <1>5, <1>8, <2>2, <2>4
<1> QED BY <1>2, <1>3, <1>5, <1>6, <1>7, <1>8 DEF Waiting


LEMMA DispatchKeeps == NotifyInv /\ Dispatch => NotifyInv'
<1> SUFFICES ASSUME NotifyInv, Dispatch PROVE NotifyInv'
  OBVIOUS
<1>1. PICK matching \in SUBSET Rules :
        /\ cooling' = cooling \cup (matching \ cooling)
        /\ delivery' = [d \in Deliveries |->
              IF d[3] = Head(inbox) /\ d[1] \in matching \ cooling
              THEN [pc |-> "open", attempt |-> 0, late |-> FALSE] ELSE delivery[d]]
        /\ log' = [d \in Deliveries |->
              IF d[3] = Head(inbox) /\ d[1] \in matching \cap cooling
              THEN Append(log[d], "cooldown_skip") ELSE log[d]]
  BY DEF Dispatch
<1>2. /\ inbox # <<>> /\ inbox' = Tail(inbox)
      /\ UNCHANGED <<created, enabled, arrived, unlogged, mishaps, notified>>
  BY DEF Dispatch
<1>3. /\ inbox' \in Seq(1 .. created) /\ Len(inbox') <= InboxSize /\ InboxInOrder'
      /\ Waiting(Head(inbox))
      /\ \A ev : Waiting(ev)' => Waiting(ev)
      /\ \A ev : ev = Head(inbox) => ~Waiting(ev)'
  BY <1>2, TakingOne
<1>4. NotifyTypes
  BY DEF NotifyInv
<1>5. [pc |-> "open", attempt |-> 0, late |-> FALSE] \in Progress
  BY DEF Progress, Phases, Backoffs
<1>6. ASSUME NEW d \in Deliveries
      PROVE  delivery'[d] \in Progress /\ log'[d] \in Seq(Entries) /\ (Course(d) /\ Exactly(d))'
  <2>1. CASE d[3] = Head(inbox) /\ d[1] \in matching
    <3>1. NotBegun(d)
      BY <1>3, <2>1 DEF NotifyInv
    <3>2. CASE d[1] \notin cooling
      <4>1. delivery'[d] = [pc |-> "open", attempt |-> 0, late |-> FALSE] /\ log'[d] = log[d]
            /\ arrived'[d] = arrived[d]
        BY <1>1, <1>2, <2>1, <3>2
      <4>2. log'[d] = <<>> /\ arrived'[d] = 0
        BY <3>1, <4>1 DEF NotBegun
      <4>3. <<>> \in Seq(Entries) /\ <<>> # <<"sent">> /\ <<>> # <<"failed">>
        OBVIOUS
      <4> QED BY <1>5, <4>1, <4>2, <4>3 DEF Course, Exactly, InDelivery, Backoffs
    <3>3. CASE d[1] \in cooling
      <4>1. delivery'[d] = delivery[d] /\ log'[d] = Append(log[d], "cooldown_skip")
            /\ arrived'[d] = arrived[d]
        BY <1>1, <1>2, <2>1, <3>3
      <4>2. log'[d] = <<"cooldown_skip">> /\ arrived'[d] = 0 /\ delivery'[d].pc = "none"
        BY <3>1, <4>1 DEF NotBegun
      <4>3. <<"cooldown_skip">> \in Seq(Entries) /\ <<"cooldown_skip">> # <<"sent">>
            /\ <<"cooldown_skip">> # <<"failed">>
        BY DEF Entries
      <4>4. delivery'[d] \in Progress
        BY <1>4, <4>1 DEF NotifyTypes
      <4> QED BY <4>2, <4>3, <4>4 DEF Course, Exactly, InDelivery, Backoffs
    <3> QED BY <3>2, <3>3
  <2>2. CASE ~(d[3] = Head(inbox) /\ d[1] \in matching)
    <3>1. delivery'[d] = delivery[d] /\ log'[d] = log[d] /\ arrived'[d] = arrived[d]
      BY <1>1, <1>2, <2>2
    <3> QED BY <1>2, <1>4, <3>1 DEF NotifyInv, NotifyTypes, Course, Exactly, InDelivery
  <2> QED BY <2>1, <2>2
<1>7. ASSUME NEW d \in Deliveries, Waiting(d[3])' PROVE NotBegun(d)'
  <2>1. Waiting(d[3]) /\ d[3] # Head(inbox)
    BY <1>3, <1>7
  <2>2. delivery'[d] = delivery[d] /\ log'[d] = log[d] /\ arrived'[d] = arrived[d]
    BY <1>1, <1>2, <2>1
  <2> QED BY <2>1, <2>2 DEF NotifyInv, NotBegun
<1>8. delivery' \in [Deliveries -> Progress] /\ log' \in [Deliveries -> Seq(Entries)]
  <2>1. DOMAIN delivery' = Deliveries /\ DOMAIN log' = Deliveries
    BY <1>1
  <2>2. delivery' = [d \in Deliveries |-> delivery'[d]] /\ log' = [d \in Deliveries |-> log'[d]]
    BY <1>1
  <2> QED BY <1>6, <2>2
<1>9. NotifyTypes'
  BY <1>1, <1>2, <1>3, <1>4, <1>8 DEF NotifyTypes
<1> QED BY <1>2, <1>3, <1>6, <1>7, <1>9 DEF NotifyInv

LEMMA DispatchFailsKeeps == NotifyInv /\ DispatchFails => NotifyInv'
<1> SUFFICES ASSUME NotifyInv, DispatchFails PROVE NotifyInv'
  OBVIOUS
<1>1. /\ inbox # <<>> /\ inbox' = Tail(inbox) /\ Mishap("database")
      /\ UNCHANGED <<created, cooling, enabled, delivery, arrived, log, unlogged, notified>>
  BY DEF DispatchFails
<1>2. /\ inbox' \in Seq(1 .. created) /\ Len(inbox') <= InboxSize /\ InboxInOrder'
      /\ \A ev : Waiting(ev)' => Waiting(ev)
  BY <1>1, TakingOne
<1>3. /\ mishaps' \in [count : 0 .. MaxMishaps, uncertain : BOOLEAN]
      /\ mishaps'.uncertain = FALSE => mishaps.uncertain = FALSE
  BY <1>1, MishapCounts DEF NotifyInv
<1>4. NotifyTypes'
  BY <1>1, <1>2, <1>3 DEF NotifyInv, NotifyTypes
<1> QED BY <1>1, <1>2, <1>3, <1>4 DEF NotifyInv, NotBegun, Course, Exactly, InDelivery

LEMMA NotifyRestartKeeps == NotifyInv /\ NotifyRestart => NotifyInv'
<1> SUFFICES ASSUME NotifyInv, NotifyRestart PROVE NotifyInv'
  OBVIOUS
<1>1. /\ inbox' = <<>> /\ cooling' = {} /\ Mishap("restart")
      /\ unlogged' = unlogged \cup {d \in Deliveries : InDelivery(d)}
      /\ delivery' = [d \in Deliveries |->
            IF InDelivery(d) THEN [delivery[d] EXCEPT !.pc = "done"] ELSE delivery[d]]
      /\ UNCHANGED <<created, enabled, arrived, log, notified>>
  BY DEF NotifyRestart
<1>2. /\ mishaps' \in [count : 0 .. MaxMishaps, uncertain : BOOLEAN]
      /\ mishaps'.uncertain = FALSE => mishaps.uncertain = FALSE
  BY <1>1, MishapCounts DEF NotifyInv
<1>3. NotifyTypes
  BY DEF NotifyInv
<1>4. ASSUME NEW d \in Deliveries
      PROVE  delivery'[d] \in Progress /\ (Course(d) /\ Exactly(d))'
  <2>1. delivery[d] \in Progress /\ Course(d) /\ Exactly(d)
    BY <1>3 DEF NotifyInv, NotifyTypes
  <2>2. CASE InDelivery(d)
    <3>1. delivery'[d] \in Progress /\ delivery'[d].pc = "done" /\ log'[d] = <<>>
          /\ arrived'[d] = arrived[d]
      BY <1>1, <2>1, <2>2 DEF Course, Progress, Phases
    <3>2. <<>> # <<"sent">> /\ <<>> # <<"failed">>
      OBVIOUS
    <3> QED BY <1>2, <2>1, <3>1, <3>2 DEF Course, Exactly, InDelivery
  <2>3. CASE ~InDelivery(d)
    <3>1. delivery'[d] = delivery[d] /\ log'[d] = log[d] /\ arrived'[d] = arrived[d]
      BY <1>1, <2>3
    <3> QED BY <1>2, <2>1, <3>1 DEF Course, Exactly, InDelivery
  <2> QED BY <2>2, <2>3
<1>5. delivery' \in [Deliveries -> Progress]
  <2>1. delivery' = [d \in Deliveries |-> delivery'[d]]
    BY <1>1
  <2> QED BY <1>4, <2>1
<1>6. inbox' \in Seq(1 .. created') /\ Len(inbox') <= InboxSize /\ InboxInOrder'
  BY <1>1, NotifyAssumption DEF InboxInOrder
<1>7. NotifyTypes'
  BY <1>1, <1>2, <1>3, <1>5, <1>6 DEF NotifyTypes
<1>8. ASSUME NEW d \in Deliveries, Waiting(d[3])' PROVE NotBegun(d)'
  <2>1. d[3] > created
    BY <1>1, <1>8 DEF Waiting
  <2>2. NotBegun(d)
    BY <2>1 DEF NotifyInv, Waiting
  <2>3. ~InDelivery(d)
    BY <2>2 DEF NotBegun, InDelivery
  <2>4. delivery'[d] = delivery[d]
    BY <1>1, <2>3
  <2> QED BY <1>1, <2>2, <2>4 DEF NotBegun
<1> QED BY <1>1, <1>4, <1>6, <1>7, <1>8 DEF NotifyInv


(* What the invariant says of one delivery.                                *)
LEMMA AboutOne ==
  ASSUME NotifyInv, NEW d \in Deliveries
  PROVE  /\ delivery[d] \in Progress /\ delivery[d].attempt \in 0 .. Backoffs
         /\ delivery[d].late \in BOOLEAN
         /\ arrived[d] \in 0 .. Backoffs /\ log[d] \in Seq(Entries)
         /\ arrived[d] >= arrived[d]
         /\ Course(d) /\ Exactly(d)
<1>1. NotifyTypes
  BY DEF NotifyInv
<1>2. delivery[d] \in Progress /\ arrived[d] \in 0 .. Backoffs /\ log[d] \in Seq(Entries)
  BY <1>1 DEF NotifyTypes
<1>3. delivery[d].attempt \in 0 .. Backoffs /\ delivery[d].late \in BOOLEAN
  BY <1>2 DEF Progress
<1>4. arrived[d] >= arrived[d]
  BY <1>2 DEF Backoffs
<1> QED BY <1>1, <1>2, <1>3, <1>4 DEF NotifyInv

(* Leaving arrivals, log or mishaps alone is a case of writing them.       *)
LEMMA LeftAlone ==
  ASSUME NotifyInv, NEW d \in Deliveries
  PROVE  /\ arrived' = arrived => arrived' = [arrived EXCEPT ![d] = arrived[d]]
         /\ log' = log => log' = [log EXCEPT ![d] = log[d]]
         /\ mishaps' = mishaps =>
               /\ mishaps' \in [count : 0 .. MaxMishaps, uncertain : BOOLEAN]
               /\ mishaps'.uncertain = FALSE => mishaps.uncertain = FALSE
<1>1. arrived' = arrived => arrived' = [arrived EXCEPT ![d] = arrived[d]]
  BY DEF NotifyInv, NotifyTypes
<1>2. log' = log => log' = [log EXCEPT ![d] = log[d]]
  BY DEF NotifyInv, NotifyTypes
<1> QED BY <1>1, <1>2 DEF NotifyInv, NotifyTypes

LEMMA OpenKeeps ==
  ASSUME NotifyInv, NEW d \in Deliveries, OpenChannel(d)
  PROVE  NotifyInv'
<1>1. PICK next \in {"send", "logFailed"} :
        delivery' = [delivery EXCEPT ![d] = [delivery[d] EXCEPT !.pc = next]]
  BY DEF OpenChannel, GoOn
<1> DEFINE p == [delivery[d] EXCEPT !.pc = next]
<1>2. /\ delivery[d].pc = "open"
      /\ UNCHANGED <<created, inbox, cooling, enabled, arrived, log, unlogged, mishaps, notified>>
  BY DEF OpenChannel
<1>3. p \in Progress /\ p.pc = next /\ p.attempt = delivery[d].attempt
  BY AboutOne DEF Progress, Phases
<1>4. delivery'[d] = p
  BY <1>1 DEF NotifyInv, NotifyTypes
<1>0. delivery' = [delivery EXCEPT ![d] = p] /\ unlogged' \subseteq unlogged \cup {d}
  BY <1>1, <1>2
<1> HIDE DEF p
<1>5. Moves(d, p, arrived[d], log[d])
  <2>1. /\ arrived' = [arrived EXCEPT ![d] = arrived[d]] /\ log' = [log EXCEPT ![d] = log[d]]
        /\ mishaps' \in [count : 0 .. MaxMishaps, uncertain : BOOLEAN]
        /\ mishaps'.uncertain = FALSE => mishaps.uncertain = FALSE
    BY <1>2, LeftAlone
  <2> QED BY <1>0, <1>2, <2>1 DEF Moves
<1>6. Course(d) /\ Exactly(d) /\ InDelivery(d)
  BY <1>2, AboutOne DEF InDelivery
<1>7. <<>> # <<"failed">> /\ <<>> # <<"sent">>
  OBVIOUS
<1>8. arrived[d] = 0 /\ log[d] = <<>> /\ delivery[d].attempt = 0
  BY <1>2, <1>6 DEF Course
<1>9. Course(d)'
  BY <1>2, <1>3, <1>4, <1>7, <1>8 DEF Course, InDelivery, Backoffs
<1>10. Exactly(d)'
  BY <1>2, <1>8 DEF Exactly
<1>11. arrived[d] \in 0 .. Backoffs /\ log[d] \in Seq(Entries) /\ arrived[d] >= arrived[d]
  BY AboutOne
<1> QED BY <1>3, <1>5, <1>6, <1>9, <1>10, <1>11, DeliveryMoves

LEMMA SendSucceedsKeeps ==
  ASSUME NotifyInv, NEW d \in Deliveries, SendSucceeds(d)
  PROVE  NotifyInv'
<1> DEFINE p == [delivery[d] EXCEPT !.pc = "logSent"]
           n == arrived[d] + 1
<1>1. /\ delivery[d].pc = "send" /\ delivery' = [delivery EXCEPT ![d] = p]
      /\ arrived' = [arrived EXCEPT ![d] = n]
      /\ UNCHANGED <<created, inbox, cooling, enabled, log, unlogged, mishaps, notified>>
  BY DEF SendSucceeds, GoOn
<1>2. p \in Progress /\ p.pc = "logSent"
  BY AboutOne DEF Progress, Phases
<1>3. delivery'[d] = p /\ arrived'[d] = n
  BY <1>1 DEF NotifyInv, NotifyTypes
<1> HIDE DEF p
<1>4. Moves(d, p, n, log[d])
  <2>1. /\ log' = [log EXCEPT ![d] = log[d]]
        /\ mishaps' \in [count : 0 .. MaxMishaps, uncertain : BOOLEAN]
        /\ mishaps'.uncertain = FALSE => mishaps.uncertain = FALSE
    BY <1>1, LeftAlone
  <2> HIDE DEF n
  <2> QED BY <1>1, <2>1 DEF Moves
<1>5. Course(d) /\ Exactly(d) /\ InDelivery(d) /\ log[d] \in Seq(Entries)
  BY <1>1, AboutOne DEF InDelivery
<1>6. log[d] = <<>> /\ arrived[d] <= delivery[d].attempt /\ delivery[d].attempt < Backoffs
  BY <1>1, <1>5 DEF Course
<1>7. n \in 0 .. Backoffs /\ n >= arrived[d] /\ n >= 1
  <2>1. arrived[d] \in 0 .. 3 /\ delivery[d].attempt \in 0 .. 3
    BY AboutOne DEF Backoffs
  <2> QED BY <1>6, <2>1 DEF Backoffs
<1>8. <<>> # <<"failed">> /\ <<>> # <<"sent">>
  OBVIOUS
<1>9. mishaps.uncertain = FALSE => n = 1
  BY <1>1, <1>5 DEF Exactly
<1> HIDE DEF n
<1>10. Course(d)'
  BY <1>1, <1>2, <1>3, <1>6, <1>7, <1>8 DEF Course, InDelivery
<1>11. Exactly(d)'
  BY <1>1, <1>2, <1>3, <1>6, <1>8, <1>9 DEF Exactly
<1> QED BY <1>2, <1>4, <1>5, <1>7, <1>10, <1>11, DeliveryMoves

LEMMA SendFailsKeeps ==
  ASSUME NotifyInv, NEW d \in Deliveries, SendFails(d)
  PROVE  NotifyInv'
<1>1. PICK next \in {"wait", "logFailed"} :
        /\ delivery[d].attempt + 1 < Backoffs \/ next = "logFailed"
        /\ delivery' = [delivery EXCEPT ![d] =
              [delivery[d] EXCEPT !.attempt = delivery[d].attempt + 1, !.pc = next]]
  <2>1. delivery' = [delivery EXCEPT ![d] =
           [delivery[d] EXCEPT !.attempt = delivery[d].attempt + 1,
                               !.pc = IF delivery[d].attempt + 1 < Backoffs THEN "wait" ELSE "logFailed"]]
    BY DEF SendFails
  <2>2. CASE delivery[d].attempt + 1 < Backoffs
    BY <2>1, <2>2
  <2>3. CASE ~(delivery[d].attempt + 1 < Backoffs)
    BY <2>1, <2>3
  <2> QED BY <2>2, <2>3
<1> DEFINE p == [delivery[d] EXCEPT !.attempt = delivery[d].attempt + 1, !.pc = next]
<1>2. /\ delivery[d].pc = "send"
      /\ \/ UNCHANGED <<arrived, mishaps>>
         \/ Mishap("uncertain") /\ arrived' = [arrived EXCEPT ![d] = arrived[d] + 1]
      /\ UNCHANGED <<created, inbox, cooling, enabled, log, unlogged, notified>>
  BY DEF SendFails
<1>3. Course(d) /\ Exactly(d) /\ InDelivery(d) /\ log[d] \in Seq(Entries)
  BY <1>2, AboutOne DEF InDelivery
<1>4. log[d] = <<>> /\ arrived[d] <= delivery[d].attempt /\ delivery[d].attempt < Backoffs
  BY <1>2, <1>3 DEF Course
<1>5. arrived[d] \in 0 .. 3 /\ delivery[d].attempt \in 0 .. 3
  BY AboutOne DEF Backoffs
<1>6. /\ delivery[d].attempt + 1 \in 0 .. Backoffs /\ arrived[d] + 1 \in 0 .. Backoffs
      /\ arrived[d] + 1 <= delivery[d].attempt + 1 /\ arrived[d] <= delivery[d].attempt + 1
      /\ arrived[d] + 1 >= arrived[d] /\ arrived[d] + 1 >= 1 /\ arrived[d] >= arrived[d]
      /\ arrived[d] \in 0 .. Backoffs
  BY <1>4, <1>5 DEF Backoffs
<1>7. p \in Progress /\ p.attempt = delivery[d].attempt + 1 /\ p.pc = next
  <2>1. delivery[d] \in Progress
    BY AboutOne
  <2> QED BY <1>6, <2>1 DEF Progress, Phases
<1>8. delivery'[d] = p
  BY <1>1 DEF NotifyInv, NotifyTypes
<1>9. <<>> # <<"failed">> /\ <<>> # <<"sent">>
  OBVIOUS
<1>10. delivery' = [delivery EXCEPT ![d] = p]
  BY <1>1
<1> HIDE DEF p
<1>11. CASE UNCHANGED <<arrived, mishaps>>
  <2>5. /\ arrived' = [arrived EXCEPT ![d] = arrived[d]] /\ log' = [log EXCEPT ![d] = log[d]]
        /\ mishaps' \in [count : 0 .. MaxMishaps, uncertain : BOOLEAN]
        /\ mishaps'.uncertain = FALSE => mishaps.uncertain = FALSE
    BY <1>2, <1>11, LeftAlone
  <2>1. Moves(d, p, arrived[d], log[d])
    BY <1>2, <1>10, <2>5 DEF Moves
  <2>2. Course(d)'
    BY <1>1, <1>2, <1>4, <1>6, <1>7, <1>8, <1>9, <1>11 DEF Course, InDelivery
  <2>3. mishaps.uncertain = FALSE => arrived[d] = 0
    BY <1>2, <1>3 DEF Exactly
  <2>4. Exactly(d)'
    BY <1>2, <1>4, <1>9, <1>11, <2>3 DEF Exactly
  <2> QED BY <1>3, <1>6, <1>7, <2>1, <2>2, <2>4, DeliveryMoves
<1>12. CASE Mishap("uncertain") /\ arrived' = [arrived EXCEPT ![d] = arrived[d] + 1]
  <2>1. arrived'[d] = arrived[d] + 1
    BY <1>12 DEF NotifyInv, NotifyTypes
  <2>2. /\ mishaps' \in [count : 0 .. MaxMishaps, uncertain : BOOLEAN]
        /\ mishaps'.uncertain # FALSE
    BY <1>12, MishapCounts DEF NotifyInv
  <2>6. log' = [log EXCEPT ![d] = log[d]]
    BY <1>2, LeftAlone
  <2>3. Moves(d, p, arrived[d] + 1, log[d])
    BY <1>2, <1>10, <1>12, <2>2, <2>6 DEF Moves
  <2>4. Course(d)'
    BY <1>1, <1>2, <1>4, <1>6, <1>7, <1>8, <1>9, <2>1 DEF Course, InDelivery
  <2>5. Exactly(d)'
    BY <2>2 DEF Exactly
  <2> QED BY <1>3, <1>6, <1>7, <2>3, <2>4, <2>5, DeliveryMoves
<1> QED BY <1>2, <1>11, <1>12

LEMMA RetryDelayKeeps ==
  ASSUME NotifyInv, NEW d \in Deliveries, RetryDelay(d)
  PROVE  NotifyInv'
<1>1. PICK next \in {"send", "done"} :
        /\ delivery' = [delivery EXCEPT ![d] = [delivery[d] EXCEPT !.pc = next]]
        /\ unlogged' \subseteq unlogged \cup {d}
  BY DEF RetryDelay, GoOn
<1> DEFINE p == [delivery[d] EXCEPT !.pc = next]
<1>2. /\ delivery[d].pc = "wait"
      /\ UNCHANGED <<created, inbox, cooling, enabled, arrived, log, mishaps, notified>>
  BY DEF RetryDelay
<1>3. p \in Progress /\ p.pc = next /\ p.attempt = delivery[d].attempt
  BY AboutOne DEF Progress, Phases
<1>4. delivery'[d] = p
  BY <1>1 DEF NotifyInv, NotifyTypes
<1>0. delivery' = [delivery EXCEPT ![d] = p] /\ unlogged' \subseteq unlogged \cup {d}
  BY <1>1, <1>2
<1> HIDE DEF p
<1>5. Moves(d, p, arrived[d], log[d])
  <2>1. /\ arrived' = [arrived EXCEPT ![d] = arrived[d]] /\ log' = [log EXCEPT ![d] = log[d]]
        /\ mishaps' \in [count : 0 .. MaxMishaps, uncertain : BOOLEAN]
        /\ mishaps'.uncertain = FALSE => mishaps.uncertain = FALSE
    BY <1>2, LeftAlone
  <2> QED BY <1>0, <1>2, <2>1 DEF Moves
<1>6. Course(d) /\ Exactly(d) /\ InDelivery(d)
  BY <1>2, AboutOne DEF InDelivery
<1>7. <<>> # <<"failed">> /\ <<>> # <<"sent">>
  OBVIOUS
<1>8. log[d] = <<>> /\ arrived[d] <= delivery[d].attempt /\ delivery[d].attempt < Backoffs
  BY <1>2, <1>6 DEF Course
<1>9. Course(d)'
  BY <1>2, <1>3, <1>4, <1>7, <1>8 DEF Course, InDelivery
<1>10. Exactly(d)'
  BY <1>2, <1>6, <1>7, <1>8 DEF Exactly
<1>11. arrived[d] \in 0 .. Backoffs /\ log[d] \in Seq(Entries) /\ arrived[d] >= arrived[d]
  BY AboutOne
<1> QED BY <1>3, <1>5, <1>6, <1>9, <1>10, <1>11, DeliveryMoves


LEMMA LogOutcomeKeeps ==
  ASSUME NotifyInv, NEW d \in Deliveries, LogOutcome(d)
  PROVE  NotifyInv'
<1>1. /\ delivery[d].pc \in {"logSent", "logFailed"}
      /\ delivery' = [delivery EXCEPT ![d] = [delivery[d] EXCEPT !.pc = "done"]]
      /\ UNCHANGED <<created, inbox, cooling, enabled, arrived>>
  BY DEF LogOutcome, GoOn
<1>2. /\ log' = log \/ log' = [log EXCEPT ![d] = Append(log[d], Entry(d))]
      /\ unlogged' \subseteq unlogged \cup {d}
      /\ notified' = notified \/ (delivery[d].pc = "logSent" /\ notified' = notified \cup {d[3]})
      /\ mishaps' = mishaps \/ Mishap("database")
  BY DEF LogOutcome
<1> DEFINE p == [delivery[d] EXCEPT !.pc = "done"]
<1>3. p \in Progress /\ p.pc = "done"
  BY AboutOne DEF Progress, Phases
<1>4. delivery'[d] = p /\ delivery' = [delivery EXCEPT ![d] = p]
  BY <1>1 DEF NotifyInv, NotifyTypes
<1> HIDE DEF p
<1>5. Course(d) /\ Exactly(d) /\ InDelivery(d) /\ arrived[d] \in 0 .. Backoffs
      /\ arrived[d] >= arrived[d]
  BY <1>1, AboutOne DEF InDelivery
<1>6. log[d] = <<>> /\ (delivery[d].pc = "logSent" => arrived[d] >= 1)
  BY <1>1, <1>5 DEF Course
<1>7. /\ mishaps' \in [count : 0 .. MaxMishaps, uncertain : BOOLEAN]
      /\ mishaps'.uncertain = FALSE => mishaps.uncertain = FALSE
  <2>1. CASE mishaps' = mishaps
    BY <2>1, LeftAlone
  <2>2. CASE Mishap("database")
    BY <2>2, MishapCounts DEF NotifyInv
  <2> QED BY <1>2, <2>1, <2>2
<1>8. arrived' = [arrived EXCEPT ![d] = arrived[d]]
  BY <1>1, LeftAlone
<1>9. ASSUME NEW l \in Seq(Entries), log' = [log EXCEPT ![d] = l],
             l = <<>> \/ l = <<Entry(d)>>
      PROVE  NotifyInv'
  <2>1. Moves(d, p, arrived[d], l)
    BY <1>1, <1>2, <1>4, <1>6, <1>7, <1>8, <1>9 DEF Moves
  <2>2. log'[d] = l
    BY <1>9 DEF NotifyInv, NotifyTypes
  <2>3. /\ <<>> # <<"failed">> /\ <<>> # <<"sent">> /\ <<"sent">> # <<"failed">>
        /\ <<"sent">> # <<>> /\ <<"failed">> # <<"sent">>
    OBVIOUS
  <2>4. l \in {<<>>, <<"sent">>, <<"failed">>}
    BY <1>9 DEF Entry
  <2>5. l = <<"sent">> => delivery[d].pc = "logSent"
    BY <1>1, <1>9, <2>3 DEF Entry
  <2>6. l = <<"failed">> => delivery[d].pc = "logFailed"
    BY <1>1, <1>9, <2>3 DEF Entry
  <2>7. Course(d)'
    BY <1>1, <1>3, <1>4, <1>6, <2>2, <2>4, <2>5 DEF Course, InDelivery
  <2>8. Exactly(d)'
    BY <1>1, <1>3, <1>4, <1>5, <1>7, <2>2, <2>6 DEF Exactly
  <2> QED BY <1>3, <1>5, <1>9, <2>1, <2>7, <2>8, DeliveryMoves
<1>10. CASE log' = log
  <2>1. log' = [log EXCEPT ![d] = log[d]]
    BY <1>10, LeftAlone
  <2> QED BY <1>6, <1>9, <2>1, AboutOne
<1>11. CASE log' = [log EXCEPT ![d] = Append(log[d], Entry(d))]
  <2>1. Append(log[d], Entry(d)) = <<Entry(d)>>
    BY <1>6
  <2>2. <<Entry(d)>> \in Seq(Entries)
    BY DEF Entry, Entries
  <2> QED BY <1>9, <1>11, <2>1, <2>2
<1> QED BY <1>2, <1>10, <1>11

LEMMA TwoMinutesKeeps ==
  ASSUME NotifyInv, NEW d \in Deliveries, TwoMinutes(d)
  PROVE  NotifyInv'
<1> DEFINE p == [delivery[d] EXCEPT !.late = TRUE]
<1>1. /\ InDelivery(d) /\ Mishap("timeout") /\ delivery' = [delivery EXCEPT ![d] = p]
      /\ UNCHANGED <<created, inbox, cooling, enabled, arrived, log, unlogged, notified>>
  BY DEF TwoMinutes
<1>2. p \in Progress /\ p.pc = delivery[d].pc /\ p.attempt = delivery[d].attempt
  BY AboutOne DEF Progress
<1>3. delivery'[d] = p
  BY <1>1 DEF NotifyInv, NotifyTypes
<1> HIDE DEF p
<1>4. /\ mishaps' \in [count : 0 .. MaxMishaps, uncertain : BOOLEAN]
      /\ mishaps'.uncertain = FALSE => mishaps.uncertain = FALSE
  BY <1>1, MishapCounts DEF NotifyInv
<1>5. arrived' = [arrived EXCEPT ![d] = arrived[d]] /\ log' = [log EXCEPT ![d] = log[d]]
  BY <1>1, LeftAlone
<1>6. Moves(d, p, arrived[d], log[d])
  BY <1>1, <1>4, <1>5 DEF Moves
<1>7. Course(d)' /\ Exactly(d)'
  BY <1>1, <1>2, <1>3, <1>4, AboutOne DEF Course, Exactly, InDelivery
<1>8. arrived[d] \in 0 .. Backoffs /\ log[d] \in Seq(Entries) /\ arrived[d] >= arrived[d]
  BY AboutOne
<1> QED BY <1>1, <1>2, <1>6, <1>7, <1>8, DeliveryMoves

LEMMA NotifySteps == NotifyInv /\ [NotifyNext]_notifyVars => NotifyInv'
<1> SUFFICES ASSUME NotifyInv, [NotifyNext]_notifyVars PROVE NotifyInv'
  OBVIOUS
<1>1. ASSUME NEW r \in Rules, CooldownOver(r) PROVE NotifyInv'
  <2>1. /\ cooling' \subseteq cooling
        /\ UNCHANGED <<created, inbox, enabled, delivery, arrived, log, unlogged, mishaps, notified>>
    BY <1>1 DEF CooldownOver
  <2>2. NotifyTypes'
    BY <2>1 DEF NotifyInv, NotifyTypes
  <2> QED BY <2>1, <2>2 DEF NotifyInv, InboxInOrder, Waiting, NotBegun, Course, Exactly, InDelivery
<1>2. ASSUME NEW ch \in Channels, SwitchChannel(ch) PROVE NotifyInv'
  <2>1. /\ enabled' \subseteq enabled \cup {ch} /\ Mishap("switch")
        /\ UNCHANGED <<created, inbox, cooling, delivery, arrived, log, unlogged, notified>>
    BY <1>2 DEF SwitchChannel
  <2>2. /\ mishaps' \in [count : 0 .. MaxMishaps, uncertain : BOOLEAN]
        /\ mishaps'.uncertain = FALSE => mishaps.uncertain = FALSE
    BY <2>1, MishapCounts DEF NotifyInv
  <2>3. NotifyTypes'
    BY <2>1, <2>2 DEF NotifyInv, NotifyTypes
  <2> QED BY <2>1, <2>2, <2>3 DEF NotifyInv, InboxInOrder, Waiting, NotBegun, Course, Exactly, InDelivery
<1>3. ASSUME NEW d \in Deliveries, DeliveryStep(d) PROVE NotifyInv'
  BY <1>3, OpenKeeps, SendSucceedsKeeps, SendFailsKeeps, RetryDelayKeeps, LogOutcomeKeeps DEF DeliveryStep
<1>4. CASE UNCHANGED notifyVars
  <2>1. NotifyTypes'
    BY <1>4 DEF notifyVars, NotifyInv, NotifyTypes
  <2> QED BY <1>4, <2>1 DEF notifyVars, NotifyInv, InboxInOrder, Waiting, NotBegun, Course, Exactly,
                            InDelivery
<1> QED BY <1>1, <1>2, <1>3, <1>4, EventCreatedKeeps, DispatchKeeps, DispatchFailsKeeps,
           NotifyRestartKeeps, TwoMinutesKeeps DEF NotifyNext

(* For any number of rules, channels and events and whatever goes wrong:   *)
(* the notification log tells the truth about what the receivers got, a    *)
(* delivery has one entry at most, an event counts as notified only when   *)
(* somebody was, and nobody is notified twice unless an acknowledgement    *)
(* was lost.                                                               *)
THEOREM NotifyIsSafe == NotifySpec => []NotifySafe
<1>1. NotifyInv => NotifySafe
  <2> SUFFICES ASSUME NotifyInv PROVE NotifySafe
    OBVIOUS
  <2>1. NotifyTypeOK
    BY DEF NotifyInv, NotifyTypes, NotifyTypeOK, Progress, Phases, Entries
  <2>2. ASSUME NEW d \in Deliveries
        PROVE  /\ Len(log[d]) <= 1
               /\ log[d] = <<"sent">> => arrived[d] >= 1
               /\ log[d] = <<"cooldown_skip">> => arrived[d] = 0
               /\ log[d] = <<"failed">> /\ ~Uncertain => arrived[d] = 0
               /\ arrived[d] <= 1 \/ Uncertain
    <3>1. Course(d) /\ Exactly(d) /\ delivery[d].pc \in Phases /\ mishaps.uncertain \in BOOLEAN
      BY DEF NotifyInv, NotifyTypes, Progress
    <3>2. log[d] \in {<<>>, <<"cooldown_skip">>, <<"sent">>, <<"failed">>}
      BY <3>1 DEF Course, InDelivery, Phases
    <3>3. \A x : <<x>> # <<>> /\ Len(<<x>>) = 1
      OBVIOUS
    <3>4. <<"cooldown_skip">> # <<"sent">> /\ <<"cooldown_skip">> # <<"failed">>
      OBVIOUS
    <3>5. log[d] = <<"cooldown_skip">> => arrived[d] = 0
      BY <3>1, <3>3, <3>4 DEF Course, InDelivery, Phases
    <3>6. Len(log[d]) <= 1
      <4>1. Len(<<>>) = 0 /\ Len(<<"cooldown_skip">>) = 1 /\ Len(<<"sent">>) = 1 /\ Len(<<"failed">>) = 1
        OBVIOUS
      <4>2. Len(log[d]) = 0 \/ Len(log[d]) = 1
        BY <3>2, <4>1
      <4>3. \A n \in {0, 1} : n <= 1
        OBVIOUS
      <4> QED BY <4>2, <4>3
    <3>7. Uncertain \/ mishaps.uncertain = FALSE
      BY <3>1 DEF Uncertain
    <3> QED BY <3>1, <3>5, <3>6, <3>7 DEF Course, Exactly
  <2>3. NotifyLogTrue
    BY <2>2 DEF NotifyInv, NotifyLogTrue
  <2>4. NotifyNotRepeated
    BY <2>2 DEF NotifyNotRepeated
  <2> QED BY <2>1, <2>3, <2>4 DEF NotifySafe
<1>2. NotifySpec => []NotifyInv
  BY NotifyInitially, NotifySteps, PTL DEF NotifySpec
<1> QED BY <1>1, <1>2, PTL

===============================================================================
