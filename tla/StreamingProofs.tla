---------------------------- MODULE StreamingProofs ----------------------------
(***************************************************************************)
(* Proofs about what follows a camera's stream: the motion detector and    *)
(* the live fan-out, for any number of calls, viewers and frames, and for  *)
(* any post-roll, cooldown and buffer sizes.                               *)
(***************************************************************************)
EXTENDS LiveHub, Detect, FiniteSetTheorems, SequenceTheorems, TLAPS

----------------------------------------------------------------------------
(* The detector: one session.                                              *)

Sessions ==
    [hasBg : BOOLEAN, active : BOOLEAN, armed : BOOLEAN, consec : 0 .. 3,
     cool : -1 .. Cooldown, quiet : 0 .. PostRoll, streak : 0 .. 3]

(* An armed session has no cooldown to wait for and is in no event, and    *)
(* the count of frames above never exceeds those really seen in a row.     *)
Consistent(s) ==
    /\ s \in Sessions
    /\ s.armed => s.cool = -1 /\ ~s.active
    /\ ~s.armed /\ ~s.active => s.consec = 0
    /\ s.consec <= s.streak

LEMMA Bounds ==
  /\ 0 \in 0 .. PostRoll /\ Cooldown \in -1 .. Cooldown /\ -1 \in -1 .. Cooldown
  /\ 0 \in 0 .. 3 /\ 3 \in 0 .. 3
BY DetectAssumption

LEMMA FreshIsConsistent == Consistent(FreshSession)
BY DetectAssumption DEF Consistent, Sessions, FreshSession

LEMMA LaterIsConsistent ==
  ASSUME NEW s, Consistent(s)
  PROVE  /\ Consistent(Later(s))
         /\ Later(s).active = s.active /\ Later(s).armed = s.armed /\ Later(s).hasBg = s.hasBg
         /\ Later(s).consec = s.consec /\ Later(s).streak = s.streak
<1>1. LeastOf(s.quiet + 1, PostRoll) \in 0 .. PostRoll
  BY DetectAssumption DEF LeastOf, Consistent, Sessions
<1>2. (IF s.cool < 0 THEN s.cool ELSE s.cool - 1) \in -1 .. Cooldown
  BY DetectAssumption DEF Consistent, Sessions
<1>3. Later(s) \in Sessions
  <2> DEFINE cool == IF s.cool < 0 THEN s.cool ELSE s.cool - 1
             quiet == IF s.active THEN LeastOf(s.quiet + 1, PostRoll) ELSE 0
  <2>1. cool \in -1 .. Cooldown /\ quiet \in 0 .. PostRoll
    BY <1>1, <1>2, Bounds
  <2>2. Later(s) = [s EXCEPT !.cool = cool, !.quiet = quiet]
    BY DEF Later
  <2> HIDE DEF cool, quiet
  <2> QED BY <2>1, <2>2 DEF Consistent, Sessions
<1>4. /\ Later(s).active = s.active /\ Later(s).armed = s.armed /\ Later(s).hasBg = s.hasBg
      /\ Later(s).consec = s.consec /\ Later(s).streak = s.streak
      /\ s.cool = -1 => Later(s).cool = -1
  BY DEF Later, Consistent, Sessions
<1> QED BY <1>3, <1>4 DEF Consistent

LEMMA LeastCount ==
  ASSUME NEW seen \in 0 .. 3, NEW count \in 0 .. 3, count <= seen
  PROVE  /\ LeastOf(seen + 1, 3) \in 0 .. 3
         /\ count + 1 < 3 => count + 1 <= LeastOf(seen + 1, 3)
         /\ ~(count + 1 < 3) => LeastOf(seen + 1, 3) = 3
BY DEF LeastOf

(* An event is opened by the third frame above in a row, by an armed       *)
(* session.                                                                *)
LEMMA WatchingIsConsistent ==
  ASSUME NEW s, Consistent(s), ~s.active, NEW above \in BOOLEAN,
         NEW n, n = Watching(Counted(s, above), above)
  PROVE  Consistent(n) /\ (n.active => n.streak = 3 /\ n.cool = -1)
<1> DEFINE t == Counted(s, above)
<1>1. /\ LeastOf(s.streak + 1, 3) \in 0 .. 3
      /\ s.consec + 1 < 3 => s.consec + 1 <= LeastOf(s.streak + 1, 3)
      /\ ~(s.consec + 1 < 3) => LeastOf(s.streak + 1, 3) = 3
  BY LeastCount DEF Consistent, Sessions
<1>2. /\ t \in Sessions
      /\ t.active = s.active /\ t.armed = s.armed /\ t.cool = s.cool /\ t.consec = s.consec
      /\ t.streak = IF above THEN LeastOf(s.streak + 1, 3) ELSE 0
  BY <1>1 DEF Counted, Consistent, Sessions
<1>3. /\ s.consec \in 0 .. 3 /\ s.streak \in 0 .. 3 /\ s.consec <= s.streak
      /\ s.armed => s.cool = -1
      /\ ~s.armed => s.consec = 0
      /\ s.cool \in -1 .. Cooldown /\ Cooldown \in Nat /\ PostRoll \in Nat
  BY DetectAssumption DEF Consistent, Sessions
<1> HIDE DEF t
<1>4. CASE ~t.armed
  <2>1. n = [t EXCEPT !.armed = t.cool < 0] /\ (t.cool < 0) \in BOOLEAN
    BY <1>4 DEF Watching, t
  <2>2. n \in Sessions /\ (n.armed <=> t.cool < 0) /\ n.active = t.active /\ n.consec = t.consec
        /\ n.streak = t.streak /\ n.cool = t.cool
    BY <1>2, <2>1, Bounds DEF Sessions
  <2>3. n.consec = 0 /\ n.streak \in 0 .. 3
    BY <1>2, <1>3, <1>4, <2>2 DEF Sessions
  <2>4. n.armed => n.cool = -1
    BY <1>2, <1>3, <2>2
  <2> QED BY <1>2, <2>2, <2>3, <2>4 DEF Consistent
<1>5. CASE t.armed /\ ~above
  <2>1. n = [t EXCEPT !.consec = 0]
    BY <1>5 DEF Watching, t
  <2>2. n \in Sessions /\ n.armed = t.armed /\ n.active = t.active /\ n.consec = 0
        /\ n.streak = t.streak /\ n.cool = t.cool
    BY <1>2, <2>1, Bounds DEF Sessions
  <2> QED BY <1>1, <1>2, <1>3, <1>5, <2>2 DEF Consistent
<1>6. CASE t.armed /\ above /\ t.consec + 1 < 3
  <2>1. n = [t EXCEPT !.consec = @ + 1]
    BY <1>6 DEF Watching, t
  <2>2. n \in Sessions /\ n.armed = t.armed /\ n.active = t.active /\ n.consec = t.consec + 1
        /\ n.streak = t.streak /\ n.cool = t.cool
    <3>1. t.consec + 1 \in 0 .. 3
      BY <1>2, <1>3, <1>6
    <3> QED BY <1>2, <2>1, <3>1 DEF Sessions
  <2>3. n.streak = LeastOf(s.streak + 1, 3) /\ n.consec = s.consec + 1 /\ n.cool = -1
    BY <1>2, <1>3, <1>6, <2>2
  <2>4. n.consec <= n.streak
    BY <1>1, <1>2, <1>6, <2>3
  <2> QED BY <1>2, <1>6, <2>2, <2>3, <2>4 DEF Consistent
<1>7. CASE t.armed /\ above /\ ~(t.consec + 1 < 3)
  <2>1. n = [t EXCEPT !.consec = 3, !.active = TRUE, !.armed = FALSE, !.quiet = 0]
    BY <1>7 DEF Watching, t
  <2>2. n \in Sessions /\ ~n.armed /\ n.active /\ n.consec = 3
        /\ n.streak = t.streak /\ n.cool = t.cool
    BY <1>2, <1>3, <2>1, Bounds DEF Sessions
  <2>3. n.streak = 3 /\ n.cool = -1
    BY <1>1, <1>2, <1>3, <1>7, <2>2
  <2> QED BY <2>2, <2>3 DEF Consistent
<1> QED BY <1>4, <1>5, <1>6, <1>7

LEMMA InEventIsConsistent ==
  ASSUME NEW s, Consistent(s), s.active, NEW above \in BOOLEAN,
         NEW n, n = InEvent(s, above),
         NEW m, m = [n EXCEPT !.streak = IF n.active THEN 3 ELSE 0]
  PROVE  Consistent(m)
<1>1. n \in Sessions /\ ~n.armed /\ (~n.active => n.consec = 0)
  BY Bounds DEF InEvent, Consistent, Sessions
<1>2. (IF n.active THEN 3 ELSE 0) \in 0 .. 3
  OBVIOUS
<1>3. /\ m \in Sessions /\ ~m.armed /\ m.active = n.active /\ m.consec = n.consec
      /\ m.streak = IF n.active THEN 3 ELSE 0
  BY <1>1, <1>2 DEF Sessions
<1>4. m.consec \in 0 .. 3
  BY <1>3 DEF Sessions
<1> QED BY <1>1, <1>3, <1>4 DEF Consistent

(* One analysed frame.                                                     *)
LEMMA AnalysedIsConsistent ==
  ASSUME NEW old, Consistent(old), NEW onHours \in BOOLEAN, NEW above \in BOOLEAN,
         NEW n, n = Analysed(old, onHours, above)
  PROVE  Consistent(n) /\ (n.active /\ ~old.active => n.streak = 3 /\ n.cool = -1)
<1> DEFINE s == Later(old)
<1>1. Consistent(s) /\ s.active = old.active
  BY LaterIsConsistent
<1> HIDE DEF s
<1>2. CASE ~s.hasBg
  <2>1. n = [s EXCEPT !.hasBg = TRUE]
    BY <1>2 DEF Analysed, s
  <2>2. s \in Sessions
    BY <1>1 DEF Consistent
  <2>3. /\ n \in Sessions /\ n.active = s.active /\ n.armed = s.armed /\ n.consec = s.consec
        /\ n.streak = s.streak /\ n.cool = s.cool
    BY <2>1, <2>2 DEF Sessions
  <2> QED BY <1>1, <2>3 DEF Consistent
<1>3. CASE s.hasBg /\ ~onHours
  <2>1. n = [s EXCEPT !.active = FALSE, !.consec = 0, !.streak = 0, !.quiet = 0]
    BY <1>3 DEF Analysed, OffHours, s
  <2>2. s \in Sessions /\ (s.armed => s.cool = -1)
    BY <1>1 DEF Consistent
  <2>3. /\ n \in Sessions /\ ~n.active /\ n.armed = s.armed /\ n.consec = 0 /\ n.streak = 0
        /\ n.cool = s.cool
    BY <2>1, <2>2, Bounds DEF Sessions
  <2> QED BY <2>2, <2>3 DEF Consistent
<1>4. CASE s.hasBg /\ onHours /\ s.cool > 0
  <2>1. n = s
    BY <1>4 DEF Analysed, s
  <2> QED BY <1>1, <2>1
<1>5. CASE s.hasBg /\ onHours /\ ~(s.cool > 0) /\ s.active
  <2>1. n = [InEvent(s, above) EXCEPT !.streak = IF InEvent(s, above).active THEN 3 ELSE 0]
    BY <1>5 DEF Analysed, s
  <2> QED BY <1>1, <1>5, <2>1, InEventIsConsistent
<1>6. CASE s.hasBg /\ onHours /\ ~(s.cool > 0) /\ ~s.active
  <2>1. n = Watching(Counted(s, above), above)
    BY <1>6 DEF Analysed, s
  <2> QED BY <1>1, <1>6, <2>1, WatchingIsConsistent
<1> QED BY <1>2, <1>3, <1>4, <1>5, <1>6

----------------------------------------------------------------------------
(* The detector: calls and engines.                                        *)

EngineStates ==
    [pc : {"none", "dial", "session", "backoff", "done"}, stop : BOOLEAN, s : Sessions]
CallStates ==
    [op : {"none", "on", "off", "edit", "delete"},
     pc : {"idle", "detach", "stop", "wait", "attach", "erase", "done"},
     old : Engines \cup {0}]

DetTypes ==
    /\ detRow \in {"on", "off", "gone"} /\ moving \in BOOLEAN /\ detOverlapped \in BOOLEAN
    /\ detCall \in [DetCalls -> CallStates]
    /\ engines \in Engines \cup {0}
    /\ engine \in [Engines -> EngineStates]
    /\ \A e \in Engines : Consistent(engine[e].s)

(* Engines are created in order, one at the start and one by each call at  *)
(* most: DetAttach finds one that was not created.                         *)
Ended == {c \in DetCalls : detCall[c].pc = "done"}
Created ==
    \E u \in 0 .. Cardinality(Ended) + 1 :
        \A e \in Engines : engine[e].pc = "none" <=> e > u

(* While calls do not overlap, the one under way has the running engine in *)
(* hand, or it is registered.                                              *)
Alone ==
    ~detOverlapped =>
        /\ \A c, d \in DetCalls : Calling(c) /\ Calling(d) => c = d
        /\ \A e \in Engines : Running(e) =>
              \/ engines = e
              \/ \E c \in DetCalls : detCall[c].pc \in {"stop", "wait"} /\ detCall[c].old = e
        /\ \A c \in DetCalls :
              detCall[c].pc \in {"stop", "wait", "attach", "erase"} => engines = 0

DetInv == DetTypes /\ Created /\ Alone /\ DetectPaired /\ DetectNoneForgotten

LEMMA EnginesFinite ==
  /\ Cardinality(DetCalls) \in Nat
  /\ Engines = 1 .. Cardinality(DetCalls) + 1 /\ IsFiniteSet(Engines)
  /\ 1 \in Engines /\ 0 \notin Engines
  /\ Cardinality(Ended) \in Nat /\ Cardinality(Ended) <= Cardinality(DetCalls)
<1>1. Cardinality(DetCalls) \in Nat
  BY DetectAssumption, FS_CardinalityType
<1>2. Engines = 1 .. Cardinality(DetCalls) + 1
  BY DEF Engines
<1>3. IsFiniteSet(1 .. Cardinality(DetCalls) + 1)
  BY <1>1, FS_Interval
<1>4. IsFiniteSet(Ended) /\ Cardinality(Ended) <= Cardinality(DetCalls)
  BY DetectAssumption, FS_Subset DEF Ended
<1> QED BY <1>1, <1>2, <1>3, <1>4, FS_CardinalityType

(* A call that ends makes room for one more engine.                        *)
LEMMA MoreEnded ==
  ASSUME Ended \subseteq Ended'
  PROVE  Cardinality(Ended') \in Nat /\ Cardinality(Ended) <= Cardinality(Ended')
<1>1. Ended' \subseteq DetCalls
  BY DEF Ended
<1>2. IsFiniteSet(Ended')
  BY <1>1, DetectAssumption, FS_Subset
<1> QED BY <1>2, FS_Subset, FS_CardinalityType

LEMMA CreatedStays ==
  ASSUME Created, Ended \subseteq Ended',
         \A e \in Engines : engine'[e].pc = "none" <=> engine[e].pc = "none"
  PROVE  Created'
<1>1. PICK u \in 0 .. Cardinality(Ended) + 1 :
         \A e \in Engines : engine[e].pc = "none" <=> e > u
  BY DEF Created
<1>2. u \in 0 .. Cardinality(Ended') + 1
  BY <1>1, MoreEnded, EnginesFinite
<1> QED BY <1>1, <1>2 DEF Created

(* Publishing: the balance follows the one engine that changes.            *)
LEMMA PairedFollows ==
  ASSUME DetectPaired, engine \in [Engines -> EngineStates],
         NEW e \in Engines, NEW x \in EngineStates, engine' = [engine EXCEPT ![e] = x],
         x.s.active => x.pc = "session",
         balance' = CASE x.s.active /\ ~engine[e].s.active -> balance + 1
                      [] engine[e].s.active /\ ~x.s.active -> balance - 1
                      [] OTHER -> balance
  PROVE  DetectPaired'
<1> DEFINE A == {f \in Engines : engine[f].s.active}
           B == {f \in Engines : engine'[f].s.active}
<1>1. IsFiniteSet(A) /\ Cardinality(A) \in Nat
  BY EnginesFinite, FS_Subset, FS_CardinalityType
<1>2. /\ engine'[e] = x
      /\ \A f \in Engines : f # e => engine'[f] = engine[f]
  OBVIOUS
<1>3. balance = Cardinality(A)
  BY DEF DetectPaired
<1>4. balance' = Cardinality(B)
  <2>1. CASE x.s.active /\ ~engine[e].s.active
    <3>1. B = A \cup {e} /\ e \notin A
      BY <1>2, <2>1
    <3>2. balance' = balance + 1
      BY <2>1
    <3> HIDE DEF A, B
    <3> QED BY <1>1, <1>3, <3>1, <3>2, FS_AddElement
  <2>2. CASE engine[e].s.active /\ ~x.s.active
    <3>1. B = A \ {e} /\ e \in A
      BY <1>2, <2>2
    <3>2. balance' = balance - 1
      BY <2>2
    <3> HIDE DEF A, B
    <3> QED BY <1>1, <1>3, <3>1, <3>2, FS_RemoveElement
  <2>3. CASE x.s.active <=> engine[e].s.active
    <3>1. B = A
      BY <1>2, <2>3
    <3>2. balance' = balance
      BY <2>3
    <3> QED BY <1>3, <3>1, <3>2
  <2> QED BY <2>1, <2>2, <2>3
<1>5. \A f \in Engines : engine'[f].s.active => engine'[f].pc = "session"
  BY <1>2 DEF DetectPaired
<1> QED BY <1>4, <1>5 DEF DetectPaired

(* An engine's own step keeps its stop order.                              *)
LEMMA EngineMoves ==
  ASSUME DetInv, NEW e \in Engines, engine[e].pc # "none",
         NEW x \in EngineStates, Consistent(x.s), x.stop = engine[e].stop, x.pc # "none",
         x.pc # "done" => Running(e),
         SetEngine(e, x), DetectPaired'
  PROVE  DetInv'
<1>1. /\ engine' = [engine EXCEPT ![e] = x] /\ engine \in [Engines -> EngineStates]
      /\ UNCHANGED <<detRow, detCall, engines, moving, detOverlapped>>
  BY DEF SetEngine, DetInv, DetTypes
<1>2. /\ engine'[e] = x
      /\ \A f \in Engines : f # e => engine'[f] = engine[f]
  BY <1>1
<1>3. DetTypes'
  <2>1. engine' \in [Engines -> EngineStates]
    BY <1>1
  <2>2. \A f \in Engines : Consistent(engine'[f].s)
    BY <1>2 DEF DetInv, DetTypes
  <2>3. (\A f \in Engines : Consistent(engine[f].s))'
    BY <2>2 DEF Consistent, Sessions, Engines
  <2> QED BY <1>1, <2>1, <2>3 DEF DetInv, DetTypes, EngineStates, CallStates, Sessions, Engines
<1>4. Created'
  <2>1. Ended \subseteq Ended'
    BY <1>1 DEF Ended
  <2>2. \A f \in Engines : engine'[f].pc = "none" <=> engine[f].pc = "none"
    BY <1>2
  <2> QED BY <2>1, <2>2, CreatedStays DEF DetInv
<1>5. \A f \in Engines : engine'[f].pc \notin {"none", "done"} => Running(f)
  BY <1>2 DEF Running
<1>6. Alone'
  BY <1>1, <1>5 DEF Alone, DetInv, Calling, Running, Engines
<1>7. \A f \in Engines : engine'[f].stop = engine[f].stop
  BY <1>2
<1>8. DetectNoneForgotten'
  BY <1>1, <1>5, <1>7 DEF DetectNoneForgotten, DetInv, Running, Engines
<1> QED BY <1>3, <1>4, <1>6, <1>8 DEF DetInv

(* Dialling, dying and backing off.                                        *)
LEMMA EngineTurns ==
  ASSUME DetInv, NEW e \in Engines, Running(e),
         NEW pc \in {"dial", "session", "backoff", "done"},
         NEW s, s = engine[e].s \/ s = FreshSession,
         NEW x, x = [engine[e] EXCEPT !.pc = pc, !.s = s],
         s.active => pc = "session",
         SetEngine(e, x),
         balance' = IF engine[e].s.active /\ ~s.active THEN balance - 1 ELSE balance
  PROVE  DetInv'
<1>1. engine \in [Engines -> EngineStates] /\ engine[e] \in EngineStates /\ Consistent(engine[e].s)
  BY DEF DetInv, DetTypes
<1>2. Consistent(s) /\ s \in Sessions
  BY <1>1, FreshIsConsistent DEF Consistent
<1>3. x \in EngineStates /\ x.pc = pc /\ x.s = s /\ x.stop = engine[e].stop
  BY <1>1, <1>2 DEF EngineStates
<1>4. engine' = [engine EXCEPT ![e] = x]
  BY DEF SetEngine
<1>5. x.s.active => x.pc = "session"
  BY <1>3
<1>6. s.active => engine[e].s.active
  BY DEF FreshSession
<1>7. balance' = CASE x.s.active /\ ~engine[e].s.active -> balance + 1
                   [] engine[e].s.active /\ ~x.s.active -> balance - 1
                   [] OTHER -> balance
  BY <1>3, <1>6
<1>8. DetectPaired'
  BY <1>1, <1>3, <1>4, <1>5, <1>7, PairedFollows DEF DetInv
<1>9. engine[e].pc # "none"
  BY DEF Running
<1>10. Consistent(x.s) /\ x.pc # "none"
  BY <1>2, <1>3
<1> QED BY <1>3, <1>8, <1>9, <1>10, EngineMoves

LEMMA SessionTurns ==
  ASSUME DetInv, NEW e \in Engines,
         Connect(e) \/ ConnectFails(e) \/ SessionDies(e) \/ EngineBackoff(e)
  PROVE  DetInv'
<1>1. engine[e] \in EngineStates /\ (engine[e].s.active => engine[e].pc = "session")
  BY DEF DetInv, DetTypes, DetectPaired
<1>2. CASE Connect(e)
  <2>1. Running(e) /\ ~FreshSession.active
    BY <1>2 DEF Connect, Running, FreshSession
  <2>2. ~engine[e].s.active /\ balance' = balance
    BY <1>1, <1>2 DEF Connect
  <2>3. SetEngine(e, [engine[e] EXCEPT !.pc = "session", !.s = FreshSession])
    BY <1>2 DEF Connect
  <2> QED BY <2>1, <2>2, <2>3, EngineTurns
<1>3. ASSUME engine[e].pc \in {"dial", "backoff"}, NEW pc \in {"dial", "backoff", "done"},
             SetEngine(e, [engine[e] EXCEPT !.pc = pc]), UNCHANGED balance
      PROVE  DetInv'
  <2>1. Running(e)
    BY <1>3 DEF Running
  <2>2. ~engine[e].s.active
    BY <1>1, <1>3
  <2>3. [engine[e] EXCEPT !.pc = pc] = [engine[e] EXCEPT !.pc = pc, !.s = engine[e].s]
    BY <1>1 DEF EngineStates
  <2> QED BY <1>3, <2>1, <2>2, <2>3, EngineTurns
<1>4. CASE ConnectFails(e)
  BY <1>3, <1>4 DEF ConnectFails, AfterSession
<1>5. CASE EngineBackoff(e)
  BY <1>3, <1>5 DEF EngineBackoff
<1>6. CASE SessionDies(e)
  <2>1. Running(e) /\ ~FreshSession.active
    BY <1>6 DEF SessionDies, Running, FreshSession
  <2>2. AfterSession(e) \in {"dial", "session", "backoff", "done"}
    BY DEF AfterSession
  <2>3. SetEngine(e, [engine[e] EXCEPT !.pc = AfterSession(e), !.s = FreshSession])
    BY <1>6 DEF SessionDies
  <2>4. balance' = IF engine[e].s.active /\ ~FreshSession.active THEN balance - 1 ELSE balance
    BY <1>6, <2>1 DEF SessionDies
  <2> QED BY <2>1, <2>2, <2>3, <2>4, EngineTurns
<1> QED BY <1>2, <1>4, <1>5, <1>6

(* A frame: an event opened has its three frames.                          *)
LEMMA FrameMoves ==
  ASSUME DetInv, NEW e \in Engines,
         NEW onHours \in BOOLEAN, NEW above \in BOOLEAN, NEW resized \in BOOLEAN,
         Frame(e, onHours, above, resized)
  PROVE  /\ DetInv'
         /\ engine'[e].s.active /\ ~engine[e].s.active
              => engine'[e].s.streak = 3 /\ engine'[e].s.cool = -1
         /\ \A f \in Engines : f # e => engine'[f] = engine[f]
<1> DEFINE old == IF resized THEN [engine[e].s EXCEPT !.hasBg = FALSE] ELSE engine[e].s
           new == Analysed(old, onHours, above)
           x == [engine[e] EXCEPT !.s = new]
<1>1. engine \in [Engines -> EngineStates] /\ engine[e] \in EngineStates /\ Consistent(engine[e].s)
  BY DEF DetInv, DetTypes
<1>2. Consistent(old) /\ old.active = engine[e].s.active
  <2>1. engine[e].s \in Sessions
    BY <1>1 DEF Consistent
  <2>2. old \in Sessions /\ old.active = engine[e].s.active /\ old.armed = engine[e].s.armed
        /\ old.cool = engine[e].s.cool /\ old.consec = engine[e].s.consec
        /\ old.streak = engine[e].s.streak
    BY <2>1 DEF Sessions
  <2> HIDE DEF old
  <2> QED BY <1>1, <2>2 DEF Consistent
<1>3. /\ engine[e].pc = "session" /\ SetEngine(e, x)
      /\ balance' = CASE new.active /\ ~old.active -> balance + 1
                      [] old.active /\ ~new.active -> balance - 1
                      [] OTHER -> balance
  BY DEF Frame
<1> HIDE DEF old
<1>4. Consistent(new) /\ (new.active /\ ~old.active => new.streak = 3 /\ new.cool = -1)
  BY <1>2, AnalysedIsConsistent
<1> HIDE DEF new
<1>5. x \in EngineStates /\ x.pc = "session" /\ x.s = new /\ x.stop = engine[e].stop
  BY <1>1, <1>3, <1>4 DEF EngineStates, Consistent
<1> HIDE DEF x
<1>6. engine' = [engine EXCEPT ![e] = x]
  BY <1>3 DEF SetEngine
<1>7. balance' = CASE x.s.active /\ ~engine[e].s.active -> balance + 1
                   [] engine[e].s.active /\ ~x.s.active -> balance - 1
                   [] OTHER -> balance
  BY <1>2, <1>3, <1>5
<1>8. DetectPaired'
  BY <1>1, <1>5, <1>6, <1>7, PairedFollows DEF DetInv
<1>9. Running(e)
  BY <1>3 DEF Running
<1>10. DetInv'
  BY <1>3, <1>4, <1>5, <1>8, <1>9, EngineMoves
<1> QED BY <1>1, <1>2, <1>4, <1>5, <1>6, <1>10

(* The calls. DetBegin: while nobody is calling, what runs is registered.  *)
LEMMA BeginKeeps ==
  ASSUME DetInv, NEW c \in DetCalls, NEW op \in {"on", "off", "edit", "delete"}, DetBegin(c, op)
  PROVE  DetInv'
<1>0. PICK pc \in {"detach", "done"} :
         detCall' = [detCall EXCEPT ![c] = [op |-> op, pc |-> pc, old |-> 0]]
  BY DEF DetBegin
<1>1. /\ detCall[c].pc = "idle" /\ detRow # "gone"
      /\ detCall' = [detCall EXCEPT ![c] = [op |-> op, pc |-> pc, old |-> 0]]
      /\ detRow' = IF op \in {"on", "off"} THEN op ELSE detRow
      /\ detOverlapped' = (detOverlapped \/ \E d \in DetCalls : Calling(d))
      /\ UNCHANGED <<engines, engine, moving, balance>>
  BY <1>0 DEF DetBegin
<1>2. DetTypes
  BY DEF DetInv
<1>3. /\ detCall'[c] = [op |-> op, pc |-> pc, old |-> 0]
      /\ \A d \in DetCalls : d # c => detCall'[d] = detCall[d]
  BY <1>1, <1>2 DEF DetTypes
<1>4. DetTypes'
  <2>1. detCall' \in [DetCalls -> CallStates]
    BY <1>1, <1>2 DEF DetTypes, CallStates
  <2>2. detOverlapped' \in BOOLEAN /\ detRow' \in {"on", "off", "gone"}
    BY <1>1, <1>2 DEF DetTypes
  <2> QED BY <1>1, <1>2, <2>1, <2>2
          DEF DetTypes, CallStates, EngineStates, Consistent, Sessions, Engines
<1>5. Created'
  <2>1. Ended \subseteq Ended'
    BY <1>1, <1>3 DEF Ended
  <2> QED BY <1>1, <2>1, CreatedStays DEF DetInv
<1>6. Alone'
  <2> SUFFICES ASSUME ~detOverlapped' PROVE Alone'
    BY DEF Alone
  <2>1. ~detOverlapped /\ \A d \in DetCalls : ~Calling(d)
    BY <1>1
  <2>2. \A d \in DetCalls : Calling(d)' => d = c
    BY <1>3, <2>1 DEF Calling
  <2>3. \A e \in Engines : Running(e)' => engines' = e
    <3>1. \A d \in DetCalls : detCall[d].pc \notin {"stop", "wait"}
      BY <2>1 DEF Calling
    <3> QED BY <1>1, <2>1, <3>1 DEF Alone, DetInv, Running
  <2>4. \A d \in DetCalls : detCall'[d].pc \notin {"stop", "wait", "attach", "erase"}
    BY <1>0, <1>3, <2>1 DEF Calling
  <2> QED BY <2>2, <2>3, <2>4 DEF Alone, Engines
<1>7. DetectPaired'
  BY <1>1 DEF DetInv, DetectPaired, Engines
<1>8. DetectNoneForgotten'
  <2> SUFFICES ASSUME NEW e \in Engines, Running(e)'
               PROVE  \/ engines' = e \/ engine'[e].stop
                      \/ \E d \in DetCalls : detCall'[d].pc = "stop" /\ detCall'[d].old = e
    BY DEF DetectNoneForgotten, Engines
  <2>1. \/ engines = e \/ engine[e].stop
        \/ \E d \in DetCalls : detCall[d].pc = "stop" /\ detCall[d].old = e
    BY <1>1 DEF Running, DetInv, DetectNoneForgotten
  <2>2. \A d \in DetCalls : detCall[d].pc = "stop" => detCall'[d] = detCall[d]
    BY <1>1, <1>3
  <2> QED BY <1>1, <2>1, <2>2
<1> QED BY <1>4, <1>5, <1>6, <1>7, <1>8 DEF DetInv

LEMMA DetachKeeps ==
  ASSUME DetInv, NEW c \in DetCalls, DetDetach(c)
  PROVE  DetInv'
<1>1. /\ detCall[c].pc = "detach" /\ engines' = 0
      /\ detCall' = [detCall EXCEPT ![c].pc = "stop", ![c].old = engines]
      /\ UNCHANGED <<detRow, engine, moving, balance, detOverlapped>>
  BY DEF DetDetach
<1>2. DetTypes
  BY DEF DetInv
<1>3. /\ detCall'[c].pc = "stop" /\ detCall'[c].old = engines /\ detCall'[c].op = detCall[c].op
      /\ \A d \in DetCalls : d # c => detCall'[d] = detCall[d]
  BY <1>1, <1>2 DEF DetTypes, CallStates
<1>4. DetTypes'
  <2>1. detCall' \in [DetCalls -> CallStates]
    BY <1>1, <1>2 DEF DetTypes, CallStates
  <2> QED BY <1>1, <1>2, <2>1
          DEF DetTypes, CallStates, EngineStates, Consistent, Sessions, Engines
<1>5. Created'
  <2>1. Ended \subseteq Ended'
    BY <1>1, <1>3 DEF Ended
  <2> QED BY <1>1, <2>1, CreatedStays DEF DetInv
<1>6. Alone'
  <2> SUFFICES ASSUME ~detOverlapped PROVE Alone'
    BY <1>1 DEF Alone
  <2>1. Calling(c) /\ \A d \in DetCalls : Calling(d) => d = c
    BY <1>1 DEF Alone, DetInv, Calling
  <2>2. \A d \in DetCalls : Calling(d)' => d = c
    BY <1>3, <2>1 DEF Calling
  <2>3. \A e \in Engines : Running(e)' => detCall'[c].old = e
    <3>1. \A d \in DetCalls : detCall[d].pc \notin {"stop", "wait"}
      BY <1>1, <2>1 DEF Calling
    <3> QED BY <1>1, <1>3, <3>1 DEF Alone, DetInv, Running
  <2> QED BY <1>1, <1>3, <2>2, <2>3 DEF Alone, Engines
<1>7. DetectPaired'
  BY <1>1 DEF DetInv, DetectPaired, Engines
<1>8. DetectNoneForgotten'
  <2> SUFFICES ASSUME NEW e \in Engines, Running(e)'
               PROVE  \/ engines' = e \/ engine'[e].stop
                      \/ \E d \in DetCalls : detCall'[d].pc = "stop" /\ detCall'[d].old = e
    BY DEF DetectNoneForgotten, Engines
  <2>1. \/ engines = e \/ engine[e].stop
        \/ \E d \in DetCalls : detCall[d].pc = "stop" /\ detCall[d].old = e
    BY <1>1 DEF Running, DetInv, DetectNoneForgotten
  <2>2. \A d \in DetCalls : detCall[d].pc = "stop" => detCall'[d] = detCall[d]
    BY <1>1, <1>3
  <2> QED BY <1>1, <1>3, <2>1, <2>2
<1> QED BY <1>4, <1>5, <1>6, <1>7, <1>8 DEF DetInv

LEMMA StopKeeps ==
  ASSUME DetInv, NEW c \in DetCalls, DetStop(c)
  PROVE  DetInv'
<1> DEFINE old == detCall[c].old
<1>1. /\ detCall[c].pc = "stop"
      /\ engine' = IF old = 0 THEN engine ELSE [engine EXCEPT ![old].stop = TRUE]
      /\ detCall' = [detCall EXCEPT ![c].pc = "wait"]
      /\ UNCHANGED <<detRow, engines, moving, balance, detOverlapped>>
  BY DEF DetStop
<1>2. DetTypes /\ old \in Engines \cup {0}
  BY DEF DetInv, DetTypes, CallStates
<1>3. /\ detCall'[c].pc = "wait" /\ \A d \in DetCalls : detCall'[d].old = detCall[d].old
      /\ \A d \in DetCalls : d # c => detCall'[d] = detCall[d]
  BY <1>1, <1>2 DEF DetTypes, CallStates
<1>4. /\ engine' \in [Engines -> EngineStates]
      /\ \A e \in Engines : engine'[e].pc = engine[e].pc /\ engine'[e].s = engine[e].s
      /\ \A e \in Engines : engine[e].stop => engine'[e].stop
      /\ old # 0 => engine'[old].stop
  BY <1>1, <1>2 DEF DetTypes, EngineStates
<1>5. DetTypes'
  <2>1. detCall' \in [DetCalls -> CallStates]
    BY <1>1, <1>2 DEF DetTypes, CallStates
  <2>2. \A e \in Engines : Consistent(engine'[e].s)
    BY <1>2, <1>4 DEF DetTypes
  <2>3. (\A e \in Engines : Consistent(engine[e].s))'
    BY <2>2 DEF Consistent, Sessions, Engines
  <2> QED BY <1>1, <1>2, <1>4, <2>1, <2>3 DEF DetTypes, CallStates, EngineStates, Sessions, Engines
<1>6. Created'
  <2>1. Ended \subseteq Ended'
    BY <1>1, <1>3 DEF Ended
  <2> QED BY <1>4, <2>1, CreatedStays DEF DetInv
<1>7. Alone'
  <2> SUFFICES ASSUME ~detOverlapped PROVE Alone'
    BY <1>1 DEF Alone
  <2>1. Calling(c) /\ \A d \in DetCalls : Calling(d)' => Calling(d)
    BY <1>1, <1>3 DEF Calling
  <2>2. \A d \in DetCalls : detCall[d].pc \in {"stop", "wait"} => detCall'[d].pc \in {"stop", "wait"}
    BY <1>3
  <2>3. \A e \in Engines : Running(e)' => Running(e)
    BY <1>4 DEF Running
  <2>4. \A e \in Engines : Running(e)' =>
              \/ engines' = e
              \/ \E d \in DetCalls : detCall'[d].pc \in {"stop", "wait"} /\ detCall'[d].old = e
    BY <1>1, <1>3, <2>2, <2>3 DEF Alone, DetInv
  <2>5. engines' = 0
    BY <1>1 DEF Alone, DetInv
  <2>6. \A d1, d2 \in DetCalls : Calling(d1)' /\ Calling(d2)' => d1 = d2
    BY <2>1 DEF Alone, DetInv
  <2> QED BY <2>4, <2>5, <2>6 DEF Alone, Engines
<1>8. DetectPaired'
  BY <1>1, <1>4 DEF DetInv, DetectPaired, Engines
<1>9. DetectNoneForgotten'
  <2> SUFFICES ASSUME NEW e \in Engines, Running(e)'
               PROVE  \/ engines' = e \/ engine'[e].stop
                      \/ \E d \in DetCalls : detCall'[d].pc = "stop" /\ detCall'[d].old = e
    BY DEF DetectNoneForgotten, Engines
  <2>1. \/ engines = e \/ engine[e].stop
        \/ \E d \in DetCalls : detCall[d].pc = "stop" /\ detCall[d].old = e
    BY <1>4 DEF Running, DetInv, DetectNoneForgotten
  <2>2. CASE old = e
    BY <1>4, <2>2, EnginesFinite
  <2> QED BY <1>1, <1>3, <1>4, <2>1, <2>2
<1> QED BY <1>5, <1>6, <1>7, <1>8, <1>9 DEF DetInv

LEMMA WaitKeeps ==
  ASSUME DetInv, NEW c \in DetCalls, DetWait(c)
  PROVE  DetInv'
<1>0. PICK pc \in AfterWait(c) : detCall' = [detCall EXCEPT ![c].pc = pc]
  BY DEF DetWait
<1>1. /\ detCall[c].pc = "wait"
      /\ detCall[c].old # 0 => engine[detCall[c].old].pc = "done"
      /\ detCall' = [detCall EXCEPT ![c].pc = pc]
      /\ UNCHANGED <<detRow, engines, engine, moving, balance, detOverlapped>>
  BY <1>0 DEF DetWait
<1>2. DetTypes /\ pc \in {"erase", "attach", "done"}
  BY <1>0 DEF DetInv, AfterWait
<1>3. /\ detCall'[c].pc = pc
      /\ \A d \in DetCalls : detCall'[d].old = detCall[d].old
      /\ \A d \in DetCalls : d # c => detCall'[d] = detCall[d]
  BY <1>1, <1>2 DEF DetTypes, CallStates
<1>4. DetTypes'
  <2>1. detCall' \in [DetCalls -> CallStates]
    BY <1>1, <1>2 DEF DetTypes, CallStates
  <2> QED BY <1>1, <1>2, <2>1
          DEF DetTypes, CallStates, EngineStates, Consistent, Sessions, Engines
<1>5. Created'
  <2>1. Ended \subseteq Ended'
    BY <1>1, <1>3 DEF Ended
  <2> QED BY <1>1, <2>1, CreatedStays DEF DetInv
<1>6. Alone'
  <2> SUFFICES ASSUME ~detOverlapped PROVE Alone'
    BY <1>1 DEF Alone
  <2>1. Calling(c) /\ \A d \in DetCalls : Calling(d)' => Calling(d)
    BY <1>1, <1>3 DEF Calling
  <2>2. \A d \in DetCalls : Calling(d) => d = c
    BY <2>1 DEF Alone, DetInv
  <2>3. engines' = 0 /\ engines = 0
    BY <1>1 DEF Alone, DetInv
  <2>4. \A e \in Engines : ~Running(e)
    <3> SUFFICES ASSUME NEW e \in Engines, Running(e) PROVE FALSE
      OBVIOUS
    <3>1. PICK d \in DetCalls : detCall[d].pc \in {"stop", "wait"} /\ detCall[d].old = e
      BY <2>3, EnginesFinite DEF Alone, DetInv
    <3>2. d = c
      BY <2>2, <3>1 DEF Calling
    <3>3. detCall[c].old = e /\ e # 0
      BY <3>1, <3>2, EnginesFinite
    <3> QED BY <1>1, <3>3 DEF Running
  <2>5. \A e \in Engines : ~Running(e)'
    BY <1>1, <2>4 DEF Running
  <2> QED BY <2>1, <2>2, <2>3, <2>5 DEF Alone, Engines
<1>7. DetectPaired'
  BY <1>1 DEF DetInv, DetectPaired, Engines
<1>8. DetectNoneForgotten'
  BY <1>1, <1>3 DEF DetInv, DetectNoneForgotten, Running, Engines
<1> QED BY <1>4, <1>5, <1>6, <1>7, <1>8 DEF DetInv

LEMMA EraseKeeps ==
  ASSUME DetInv, NEW c \in DetCalls, DetErase(c)
  PROVE  DetInv'
<1>1. /\ detCall[c].pc = "erase" /\ detRow' \in {"gone", detRow}
      /\ detCall' = [detCall EXCEPT ![c].pc = "done"]
      /\ UNCHANGED <<engines, engine, moving, balance, detOverlapped>>
  BY DEF DetErase
<1>2. DetTypes
  BY DEF DetInv
<1>3. /\ detCall'[c].pc = "done"
      /\ \A d \in DetCalls : d # c => detCall'[d] = detCall[d]
  BY <1>1, <1>2 DEF DetTypes, CallStates
<1>4. DetTypes'
  <2>1. detCall' \in [DetCalls -> CallStates]
    BY <1>1, <1>2 DEF DetTypes, CallStates
  <2> QED BY <1>1, <1>2, <2>1
          DEF DetTypes, CallStates, EngineStates, Consistent, Sessions, Engines
<1>5. Created'
  <2>1. Ended \subseteq Ended'
    BY <1>1, <1>3 DEF Ended
  <2> QED BY <1>1, <2>1, CreatedStays DEF DetInv
<1>6. Alone'
  BY <1>1, <1>3 DEF Alone, DetInv, Calling, Running, Engines
<1>7. DetectPaired'
  BY <1>1 DEF DetInv, DetectPaired, Engines
<1>8. DetectNoneForgotten'
  BY <1>1, <1>3 DEF DetInv, DetectNoneForgotten, Running, Engines
<1> QED BY <1>4, <1>5, <1>6, <1>7, <1>8 DEF DetInv

(* DetAttach registers the first engine that was not created.              *)
LEMMA AttachCreates ==
  ASSUME DetInv, NEW c \in DetCalls, detCall[c].pc = "attach",
         detCall' = [detCall EXCEPT ![c].pc = "done"],
         NEW e, e = CHOOSE f \in Engines : engine[f].pc = "none"
                                             /\ \A d \in 1 .. f - 1 : engine[d].pc # "none",
         engine' = [engine EXCEPT ![e] = FreshEngine("dial")]
  PROVE  e \in Engines /\ engine[e].pc = "none" /\ Created'
<1>1. PICK u \in 0 .. Cardinality(Ended) + 1 :
         \A f \in Engines : engine[f].pc = "none" <=> f > u
  BY DEF DetInv, Created
<1>2. DetTypes
  BY DEF DetInv
<1>3. c \notin Ended /\ Ended' = Ended \cup {c}
  BY <1>2 DEF Ended, DetTypes, CallStates
<1>4. IsFiniteSet(Ended) /\ Cardinality(Ended) \in Nat /\ Cardinality(DetCalls) \in Nat
  BY DetectAssumption, EnginesFinite, FS_Subset DEF Ended
<1>5. Cardinality(Ended') = Cardinality(Ended) + 1
  BY <1>3, <1>4, FS_AddElement
<1>6. Ended' \subseteq DetCalls
  BY DEF Ended
<1>7. Cardinality(Ended') <= Cardinality(DetCalls)
  BY <1>6, DetectAssumption, FS_Subset
<1>8. u \in Nat /\ u + 1 \in 1 .. Cardinality(DetCalls) + 1
  BY <1>1, <1>4, <1>5, <1>7
<1>9. Engines = 1 .. Cardinality(DetCalls) + 1
  BY EnginesFinite
<1>10. engine[u + 1].pc = "none" /\ \A d \in 1 .. (u + 1) - 1 : engine[d].pc # "none"
  <2>1. \A d \in 1 .. (u + 1) - 1 : d \in Engines /\ ~(d > u)
    BY <1>4, <1>8, <1>9
  <2> QED BY <1>1, <1>8, <1>9, <2>1
<1>11. /\ e \in Engines /\ engine[e].pc = "none"
       /\ \A d \in 1 .. e - 1 : engine[d].pc # "none"
  BY <1>8, <1>9, <1>10
<1>12. e = u + 1
  <2>1. e > u /\ e \in Int
    BY <1>1, <1>9, <1>11
  <2>2. ~(u + 1 \in 1 .. e - 1)
    BY <1>10, <1>11
  <2> QED BY <1>8, <2>1, <2>2
<1>13. \A f \in Engines : engine'[f].pc = "none" <=> f > u + 1
  <2> SUFFICES ASSUME NEW f \in Engines PROVE engine'[f].pc = "none" <=> f > u + 1
    OBVIOUS
  <2>1. f \in Int /\ u \in Nat
    BY <1>8, <1>9
  <2>2. CASE f = e
    <3>1. engine'[f].pc = "dial"
      BY <1>2, <1>11, <2>2 DEF DetTypes, FreshEngine
    <3> QED BY <1>12, <2>1, <2>2, <3>1
  <2>3. CASE f # e
    <3>1. engine'[f] = engine[f]
      BY <1>2, <1>11, <2>3 DEF DetTypes
    <3>2. f > u + 1 <=> f > u
      BY <1>12, <2>1, <2>3
    <3> QED BY <1>1, <3>1, <3>2
  <2> QED BY <2>2, <2>3
<1>14. u + 1 \in 0 .. Cardinality(Ended') + 1
  BY <1>1, <1>4, <1>5
<1>15. Created'
  BY <1>13, <1>14 DEF Created, Engines
<1> QED BY <1>11, <1>15

LEMMA AttachKeeps ==
  ASSUME DetInv, NEW c \in DetCalls, DetAttach(c)
  PROVE  DetInv'
<1>1. /\ detCall[c].pc = "attach"
      /\ detCall' = [detCall EXCEPT ![c].pc = "done"]
      /\ UNCHANGED <<detRow, moving, balance, detOverlapped>>
  BY DEF DetAttach
<1>2. DetTypes
  BY DEF DetInv
<1>3. /\ detCall'[c].pc = "done"
      /\ \A d \in DetCalls : d # c => detCall'[d] = detCall[d]
  BY <1>1, <1>2 DEF DetTypes, CallStates
<1>4. detCall' \in [DetCalls -> CallStates]
  BY <1>1, <1>2 DEF DetTypes, CallStates
<1>5. ~detOverlapped => engines = 0 /\ \A e \in Engines : ~Running(e)
  <2> SUFFICES ASSUME ~detOverlapped PROVE engines = 0 /\ \A e \in Engines : ~Running(e)
    OBVIOUS
  <2>1. engines = 0
    BY <1>1 DEF Alone, DetInv
  <2>2. \A d \in DetCalls : detCall[d].pc \notin {"stop", "wait"}
    BY <1>1 DEF Alone, DetInv, Calling
  <2> QED BY <2>1, <2>2, EnginesFinite DEF Alone, DetInv
<1>6. ~detOverlapped => \A d \in DetCalls : ~Calling(d)'
  BY <1>1, <1>3 DEF Alone, DetInv, Calling
<1>7. CASE engines # 0
  <2>1. UNCHANGED <<engines, engine>>
    BY <1>7 DEF DetAttach
  <2>2. DetTypes'
    BY <1>1, <1>2, <1>4, <2>1
       DEF DetTypes, CallStates, EngineStates, Consistent, Sessions, Engines
  <2>3. Created'
    <3>1. Ended \subseteq Ended'
      BY <1>1, <1>3 DEF Ended
    <3> QED BY <2>1, <3>1, CreatedStays DEF DetInv
  <2>4. Alone'
    BY <1>1, <1>5, <1>7 DEF Alone
  <2>5. DetectPaired'
    BY <1>1, <2>1 DEF DetInv, DetectPaired, Engines
  <2>6. DetectNoneForgotten'
    BY <1>1, <1>3, <2>1 DEF DetInv, DetectNoneForgotten, Running, Engines
  <2> QED BY <2>2, <2>3, <2>4, <2>5, <2>6 DEF DetInv
<1>8. CASE engines = 0
  <2>1. PICK e : /\ e = CHOOSE f \in Engines : engine[f].pc = "none"
                                             /\ \A d \in 1 .. f - 1 : engine[d].pc # "none"
                 /\ engines' = e /\ engine' = [engine EXCEPT ![e] = FreshEngine("dial")]
    BY <1>8 DEF DetAttach
  <2>2. e \in Engines /\ engine[e].pc = "none" /\ Created'
    BY <1>1, <2>1, AttachCreates
  <2>3. /\ engine'[e] = FreshEngine("dial")
        /\ \A f \in Engines : f # e => engine'[f] = engine[f]
    BY <1>2, <2>1, <2>2 DEF DetTypes
  <2>4. FreshEngine("dial") \in EngineStates /\ Consistent(FreshEngine("dial").s)
    BY FreshIsConsistent DEF FreshEngine, EngineStates, Consistent
  <2>5. DetTypes'
    <3>1. engine' \in [Engines -> EngineStates]
      BY <1>2, <2>1, <2>4 DEF DetTypes
    <3>2. \A f \in Engines : Consistent(engine'[f].s)
      BY <1>2, <2>3, <2>4 DEF DetTypes
    <3>3. (\A f \in Engines : Consistent(engine[f].s))'
      BY <3>2 DEF Consistent, Sessions, Engines
    <3>4. engines' \in Engines \cup {0}
      BY <2>1, <2>2
    <3> QED BY <1>1, <1>2, <1>4, <3>1, <3>3, <3>4
            DEF DetTypes, CallStates, EngineStates, Sessions, Engines
  <2>6. Alone'
    <3> SUFFICES ASSUME ~detOverlapped PROVE Alone'
      BY <1>1 DEF Alone
    <3>1. \A f \in Engines : Running(f)' => f = e
      BY <1>5, <2>3 DEF Running
    <3>2. \A d \in DetCalls : detCall'[d].pc \in {"idle", "done"}
      BY <1>6 DEF Calling
    <3> QED BY <1>6, <2>1, <3>1, <3>2 DEF Alone, Engines
  <2>7. DetectPaired'
    <3>1. /\ \A f \in Engines : engine'[f].s.active <=> engine[f].s.active
          /\ \A f \in Engines : engine'[f].s.active => engine'[f].pc = "session"
      BY <2>2, <2>3 DEF DetInv, DetectPaired, FreshEngine, FreshSession
    <3>2. {f \in Engines : engine'[f].s.active} = {f \in Engines : engine[f].s.active}
      BY <3>1
    <3> QED BY <1>1, <3>1, <3>2 DEF DetInv, DetectPaired, Engines
  <2>8. DetectNoneForgotten'
    <3> SUFFICES ASSUME NEW f \in Engines, Running(f)'
                 PROVE  \/ engines' = f \/ engine'[f].stop
                        \/ \E d \in DetCalls : detCall'[d].pc = "stop" /\ detCall'[d].old = f
      BY DEF DetectNoneForgotten, Engines
    <3>1. CASE f = e
      BY <2>1, <3>1
    <3>2. CASE f # e
      <4>1. engine'[f] = engine[f] /\ Running(f)
        BY <2>3, <3>2 DEF Running
      <4>2. engine[f].stop \/ \E d \in DetCalls : detCall[d].pc = "stop" /\ detCall[d].old = f
        BY <1>8, <4>1, EnginesFinite DEF DetInv, DetectNoneForgotten
      <4>3. \A d \in DetCalls : detCall[d].pc = "stop" => detCall'[d] = detCall[d]
        BY <1>1, <1>3
      <4> QED BY <4>1, <4>2, <4>3
    <3> QED BY <3>1, <3>2
  <2> QED BY <2>2, <2>5, <2>6, <2>7, <2>8 DEF DetInv
<1> QED BY <1>7, <1>8

LEMMA DetInitially == DetInit => DetInv
<1> SUFFICES ASSUME DetInit PROVE DetInv
  OBVIOUS
<1>1. /\ detRow \in {"on", "off"}
      /\ detCall = [c \in DetCalls |-> [op |-> "none", pc |-> "idle", old |-> 0]]
      /\ engines = IF detRow = "on" THEN 1 ELSE 0
      /\ engine = [e \in Engines |-> FreshEngine(IF detRow = "on" /\ e = 1 THEN "dial" ELSE "none")]
      /\ moving = FALSE /\ balance = 0 /\ detOverlapped = FALSE
  BY DEF DetInit
<1>2. \A pc \in {"none", "dial"} :
         FreshEngine(pc) \in EngineStates /\ Consistent(FreshEngine(pc).s)
  BY FreshIsConsistent DEF FreshEngine, EngineStates, Consistent
<1>3. \A e \in Engines : engine[e].pc = (IF detRow = "on" /\ e = 1 THEN "dial" ELSE "none")
                         /\ engine[e].s = FreshSession
  BY <1>1 DEF FreshEngine
<1>4. DetTypes
  <2>1. engine \in [Engines -> EngineStates]
    BY <1>1, <1>2
  <2>2. \A e \in Engines : Consistent(engine[e].s)
    BY <1>3, FreshIsConsistent
  <2>3. detCall \in [DetCalls -> CallStates]
    BY <1>1 DEF CallStates
  <2>4. engines \in Engines \cup {0}
    BY <1>1, EnginesFinite
  <2> QED BY <1>1, <2>1, <2>2, <2>3, <2>4 DEF DetTypes
<1>5. Created
  <2> DEFINE u == IF detRow = "on" THEN 1 ELSE 0
  <2>1. u \in 0 .. Cardinality(Ended) + 1
    BY EnginesFinite
  <2>2. \A e \in Engines : engine[e].pc = "none" <=> e > u
    <3>1. \A e \in Engines : e \in Int /\ e >= 1
      BY EnginesFinite
    <3> QED BY <1>3, <3>1
  <2> QED BY <2>1, <2>2 DEF Created
<1>6. \A e \in Engines : Running(e) => engines = e
  BY <1>1, <1>3 DEF Running
<1>7. Alone
  BY <1>1, <1>6 DEF Alone, Calling
<1>8. DetectPaired
  <2>1. {e \in Engines : engine[e].s.active} = {}
    BY <1>3 DEF FreshSession
  <2> QED BY <1>1, <1>3, <2>1, FS_EmptySet DEF DetectPaired, FreshSession
<1>9. DetectNoneForgotten
  BY <1>6 DEF DetectNoneForgotten
<1> QED BY <1>4, <1>5, <1>7, <1>8, <1>9 DEF DetInv

LEMMA DetStutters ==
  ASSUME DetInv, UNCHANGED <<detRow, detCall, engines, engine, balance, detOverlapped>>,
         moving' \in BOOLEAN
  PROVE  DetInv'
<1>1. DetTypes'
  BY DEF DetInv, DetTypes, CallStates, EngineStates, Consistent, Sessions, Engines
<1>2. Created'
  BY CreatedStays DEF DetInv, Ended
<1>3. Alone' /\ DetectNoneForgotten'
  BY DEF DetInv, Alone, DetectNoneForgotten, Calling, Running, Engines
<1>4. DetectPaired'
  BY DEF DetInv, DetectPaired, Engines
<1> QED BY <1>1, <1>2, <1>3, <1>4 DEF DetInv

LEMMA DetSteps == DetInv /\ [DetNext]_detVars => DetInv'
<1> SUFFICES ASSUME DetInv, [DetNext]_detVars PROVE DetInv'
  OBVIOUS
<1>1. ASSUME NEW c \in DetCalls, NEW op \in {"on", "off", "edit", "delete"}, DetBegin(c, op)
      PROVE  DetInv'
  BY <1>1, BeginKeeps
<1>2. ASSUME NEW c \in DetCalls, DetStep(c) PROVE DetInv'
  BY <1>2, DetachKeeps, StopKeeps, WaitKeeps, AttachKeeps, EraseKeeps DEF DetStep
<1>3. ASSUME NEW e \in Engines, Connect(e) \/ ConnectFails(e) \/ SessionDies(e) \/ EngineBackoff(e)
      PROVE  DetInv'
  BY <1>3, SessionTurns
<1>4. ASSUME NEW e \in Engines, NEW onHours \in BOOLEAN, NEW above \in BOOLEAN,
             NEW resized \in BOOLEAN, Frame(e, onHours, above, resized)
      PROVE  DetInv'
  BY <1>4, FrameMoves
<1>5. CASE SceneChanges
  BY <1>5, DetStutters DEF SceneChanges
<1>6. CASE UNCHANGED detVars
  BY <1>6, DetStutters DEF detVars, DetInv, DetTypes
<1> QED BY <1>1, <1>2, <1>3, <1>4, <1>5, <1>6 DEF DetNext

LEMMA DetInvariance == DetSpec => []DetInv
<1>1. DetInit => DetInv
  BY DetInitially
<1>2. DetInv /\ [DetNext]_detVars => DetInv'
  BY DetSteps
<1> QED BY <1>1, <1>2, PTL DEF DetSpec

LEMMA OneAtATime == DetInv => DetectOneAtATime
<1> SUFFICES ASSUME DetInv, ~detOverlapped
             PROVE  Cardinality({e \in Engines : Running(e)}) <= 1
  BY DEF DetectOneAtATime
<1> DEFINE R == {e \in Engines : Running(e)}
<1>1. \A e, f \in R : e = f
  <2> SUFFICES ASSUME NEW e \in Engines, Running(e), NEW f \in Engines, Running(f)
               PROVE  e = f
    OBVIOUS
  <2>1. \A c, d \in DetCalls : Calling(c) /\ Calling(d) => c = d
    BY DEF DetInv, Alone
  <2>2. \A g \in Engines : Running(g) =>
          engines = g \/ \E c \in DetCalls : detCall[c].pc \in {"stop", "wait"} /\ detCall[c].old = g
    BY DEF DetInv, Alone
  <2>3. \A c \in DetCalls : detCall[c].pc \in {"stop", "wait"} => engines = 0 /\ Calling(c)
    BY DEF DetInv, Alone, Calling
  <2> QED BY <2>1, <2>2, <2>3, EnginesFinite
<1>2. CASE R = {}
  BY <1>2, FS_EmptySet
<1>3. CASE R # {}
  <2>1. PICK e : R = {e}
    BY <1>1, <1>3
  <2>2. Cardinality(R) = 1
    BY <2>1, FS_Singleton
  <2> QED BY <2>2
<1> QED BY <1>2, <1>3

(* The detector is a faithful source of events: starts and ends pair up,   *)
(* calls that do not overlap leave one engine running at most, and none    *)
(* runs that is neither registered nor told to stop (supervisor.go, the    *)
(* ends of process in engine.go).                                          *)
THEOREM DetectIsSafe == DetSpec => []DetectSafe
<1>1. DetInv => DetTypeOK
  <2> SUFFICES ASSUME DetInv PROVE DetTypeOK
    OBVIOUS
  <2>1. DetTypes /\ \A e \in Engines : engine[e] \in EngineStates
    BY DEF DetInv, DetTypes
  <2> QED BY <2>1 DEF DetTypes, DetTypeOK, CallStates, EngineStates, Sessions
<1>2. DetInv => DetectSafe
  BY <1>1, OneAtATime DEF DetInv, DetectSafe
<1> QED BY <1>2, DetInvariance, PTL

(* docs/07-detection-notifications.md:41: whatever the frames, no event is *)
(* opened but by the third analysed frame above in a row since the last    *)
(* one, when the cooldown is over.                                         *)
THEOREM ThreeInARow == DetSpec => DetectThreeInARow
<1>1. ASSUME DetInv, [DetNext]_detVars
      PROVE  [\A e \in Engines : engine'[e].s.active /\ ~engine[e].s.active
                => engine'[e].s.streak >= 3 /\ engine'[e].s.cool < 0]_detVars
  <2> SUFFICES ASSUME DetNext, NEW k \in Engines, engine'[k].s.active, ~engine[k].s.active
               PROVE  engine'[k].s.streak >= 3 /\ engine'[k].s.cool < 0
    BY <1>1
  <2> DEFINE Starts == engine'[k].s.streak = 3 /\ engine'[k].s.cool = -1
  <2>1. /\ engine \in [Engines -> EngineStates]
        /\ \A f \in Engines : engine[f].s.active => engine[f].pc = "session"
    BY <1>1 DEF DetInv, DetTypes, DetectPaired
  <2>2. ASSUME NEW c \in DetCalls, NEW op \in {"on", "off", "edit", "delete"}, DetBegin(c, op)
        PROVE  Starts
    BY <2>2 DEF DetBegin
  <2>3. ASSUME NEW c \in DetCalls, DetStep(c)
        PROVE  Starts
    <3>1. CASE DetDetach(c) \/ DetWait(c) \/ DetErase(c)
      BY <3>1 DEF DetDetach, DetWait, DetErase
    <3>2. CASE DetStop(c)
      <4>1. engine'[k].s = engine[k].s
        BY <2>1, <3>2 DEF DetStop, EngineStates
      <4> QED BY <4>1
    <3>3. CASE DetAttach(c)
      <4>1. engine'[k] = engine[k] \/ engine'[k] = FreshEngine("dial")
        BY <2>1, <3>3 DEF DetAttach
      <4> QED BY <4>1 DEF FreshEngine, FreshSession
    <3> QED BY <2>3, <3>1, <3>2, <3>3 DEF DetStep
  <2>4. ASSUME NEW f \in Engines,
               Connect(f) \/ ConnectFails(f) \/ SessionDies(f) \/ EngineBackoff(f)
        PROVE  Starts
    <3>1. engine'[k].s = engine[k].s \/ engine'[k].s = FreshSession
      <4>1. ASSUME NEW pc, SetEngine(f, [engine[f] EXCEPT !.pc = pc])
            PROVE  engine'[k].s = engine[k].s
        BY <2>1, <4>1 DEF SetEngine, EngineStates
      <4>2. ASSUME NEW pc, SetEngine(f, [engine[f] EXCEPT !.pc = pc, !.s = FreshSession])
            PROVE  engine'[k].s = engine[k].s \/ engine'[k].s = FreshSession
        BY <2>1, <4>2 DEF SetEngine, EngineStates
      <4> QED BY <2>4, <4>1, <4>2 DEF Connect, ConnectFails, SessionDies, EngineBackoff
    <3> QED BY <3>1 DEF FreshSession
  <2>5. ASSUME NEW f \in Engines, NEW onHours \in BOOLEAN, NEW above \in BOOLEAN,
               NEW resized \in BOOLEAN, Frame(f, onHours, above, resized)
        PROVE  Starts
    BY <1>1, <2>5, FrameMoves
  <2>6. ASSUME SceneChanges PROVE Starts
    BY <2>6 DEF SceneChanges
  <2>7. Starts
    BY <2>2, <2>3, <2>4, <2>5, <2>6 DEF DetNext
  <2> QED BY <2>7
<1>2. DetSpec => [][\A e \in Engines : engine'[e].s.active /\ ~engine[e].s.active
                => engine'[e].s.streak >= 3 /\ engine'[e].s.cool < 0]_detVars
  BY <1>1, DetInvariance, PTL DEF DetSpec
<1> QED BY <1>2 DEF DetectThreeInARow

----------------------------------------------------------------------------
(* The live hub: runs of frames. The first n frames of q carry rebased     *)
(* stamps; Real is the stamp in the session's own time.                    *)

Real(q, n, zero, i) == IF i <= n THEN q[i].pts + zero ELSE q[i].pts

(* Frames in the order they were offered, all with the parameters of era   *)
(* e, none of a session before ses, and of ses none before zero.           *)
Orderly(q, n, zero, ses, e) ==
    /\ \A i, j \in 1 .. Len(q) : i < j =>
          /\ q[j].id = q[i].id + (j - i)
          /\ q[i].ses <= q[j].ses
          /\ q[i].ses = q[j].ses => Real(q, n, zero, i) < Real(q, n, zero, j)
    /\ \A i \in 1 .. Len(q) :
          /\ q[i].era = e /\ q[i].ses >= ses
          /\ q[i].ses = ses => Real(q, n, zero, i) >= zero

(* Frames the hub sends: not rebased yet.                                  *)
Sent ==
    {f \in [id : 1 .. MaxFrames, ses : 1 .. MaxSessions, pts : 0 .. MaxFrames,
            key : BOOLEAN, era : 1 .. MaxSessions] : f.era <= f.ses}

LEMMA SentAreFrames == Sent \subseteq Frames
BY LiveAssumption DEF Sent, Frames

LEMMA FrameFields ==
  ASSUME NEW f \in Frames
  PROVE  f.id \in Int /\ f.ses \in Int /\ f.pts \in Int /\ f.era \in Int
BY LiveAssumption DEF Frames

LEMMA RebasedFields ==
  ASSUME NEW f \in Sent, NEW zero \in 0 .. MaxFrames
  PROVE  /\ Rebased(f, zero) \in Frames
         /\ Rebased(f, zero).id = f.id /\ Rebased(f, zero).ses = f.ses
         /\ Rebased(f, zero).era = f.era /\ Rebased(f, zero).key = f.key
         /\ Rebased(f, zero).pts = f.pts - zero
<1>1. f.pts - zero \in -MaxFrames .. MaxFrames
  BY LiveAssumption DEF Sent
<1> QED BY <1>1 DEF Rebased, Sent, Frames

(* The run r ends as q does.                                               *)
SameEnd(q, n, r, m, zero) ==
    /\ Len(q) \in Nat /\ Len(r) \in Nat
    /\ Len(q) > 0 => /\ Len(r) > 0 /\ Real(r, m, zero, Len(r)) = Real(q, n, zero, Len(q))
                     /\ r[Len(r)].id = q[Len(q)].id /\ r[Len(r)].ses = q[Len(q)].ses

(* The oldest frame that was not rebased is.                               *)
Replaced(q, n, r, m, zero) ==
    /\ q \in Seq(Frames) /\ n \in Nat /\ n < Len(q) /\ zero \in Int
    /\ r \in Seq(Frames) /\ Len(r) = Len(q) /\ m = n + 1
    /\ \A i \in 1 .. Len(q) : i # n + 1 => r[i] = q[i]
    /\ r[n + 1].id = q[n + 1].id /\ r[n + 1].ses = q[n + 1].ses /\ r[n + 1].era = q[n + 1].era
    /\ r[n + 1].pts = q[n + 1].pts - zero

LEMMA OrderlyTaken ==
  ASSUME NEW q, NEW n, NEW r, NEW m, NEW zero, NEW ses, NEW e,
         Replaced(q, n, r, m, zero), Orderly(q, n, zero, ses, e)
  PROVE  Orderly(r, m, zero, ses, e) /\ SameEnd(q, n, r, m, zero)
<1>0. /\ q \in Seq(Frames) /\ n \in Nat /\ n < Len(q) /\ zero \in Int
      /\ r \in Seq(Frames) /\ Len(r) = Len(q) /\ m = n + 1 /\ Len(q) \in Nat
  BY DEF Replaced
<1>1. \A i \in 1 .. Len(q) : q[i].pts \in Int
  BY <1>0, FrameFields
<1>2. \A i \in 1 .. Len(q) : r[i].id = q[i].id /\ r[i].ses = q[i].ses /\ r[i].era = q[i].era
  BY DEF Replaced
<1>3. \A i \in 1 .. Len(q) : Real(r, m, zero, i) = Real(q, n, zero, i)
  <2> SUFFICES ASSUME NEW i \in 1 .. Len(q)
               PROVE  Real(r, m, zero, i) = Real(q, n, zero, i)
    OBVIOUS
  <2>1. CASE i = n + 1
    <3>1. q[i].pts \in Int /\ r[i].pts = q[i].pts - zero
      BY <1>1, <2>1 DEF Replaced
    <3>2. i <= m /\ ~(i <= n)
      BY <1>0, <2>1
    <3> QED BY <1>0, <3>1, <3>2 DEF Real
  <2>2. CASE i # n + 1
    <3>1. r[i] = q[i]
      BY <2>2 DEF Replaced
    <3>2. i <= m <=> i <= n
      BY <1>0, <2>2
    <3> QED BY <3>1, <3>2 DEF Real
  <2> QED BY <2>1, <2>2
<1>4. Orderly(r, m, zero, ses, e)
  BY <1>0, <1>2, <1>3 DEF Orderly
<1>5. Len(q) \in 1 .. Len(q)
  BY <1>0
<1>6. SameEnd(q, n, r, m, zero)
  BY <1>0, <1>2, <1>3, <1>5 DEF SameEnd
<1> QED BY <1>4, <1>6

(* The k oldest frames are gone, m of the rest are rebased.                *)
Cut(q, n, r, m, k) ==
    /\ q \in Seq(Frames) /\ n \in Nat /\ m \in Nat /\ k \in 0 .. Len(q)
    /\ r \in Seq(Frames) /\ Len(r) = Len(q) - k /\ Len(r) > 0
    /\ \A i \in 1 .. Len(r) : r[i] = q[i + k] /\ (i <= m <=> i + k <= n)

LEMMA OrderlyDropped ==
  ASSUME NEW q, NEW n, NEW r, NEW m, NEW k, NEW zero, NEW ses, NEW e,
         Cut(q, n, r, m, k), Orderly(q, n, zero, ses, e)
  PROVE  Orderly(r, m, zero, ses, e) /\ SameEnd(q, n, r, m, zero)
<1>0. /\ q \in Seq(Frames) /\ n \in Nat /\ m \in Nat /\ k \in 0 .. Len(q)
      /\ r \in Seq(Frames) /\ Len(r) = Len(q) - k /\ Len(r) > 0
      /\ Len(q) \in Nat /\ Len(r) \in Nat
      /\ \A i \in 1 .. Len(r) : r[i] = q[i + k] /\ (i <= m <=> i + k <= n)
  BY DEF Cut
<1>1. \A i \in 1 .. Len(r) : Real(r, m, zero, i) = Real(q, n, zero, i + k)
  BY <1>0 DEF Real
<1>2. \A i \in 1 .. Len(r) : i + k \in 1 .. Len(q)
  BY <1>0
<1>3. \A i \in 1 .. Len(r) :
          /\ r[i].era = e /\ r[i].ses >= ses
          /\ r[i].ses = ses => Real(r, m, zero, i) >= zero
  BY <1>0, <1>1, <1>2 DEF Orderly
<1>4. ASSUME NEW i \in 1 .. Len(r), NEW j \in 1 .. Len(r), i < j
      PROVE  /\ r[j].id = r[i].id + (j - i)
             /\ r[i].ses <= r[j].ses
             /\ r[i].ses = r[j].ses => Real(r, m, zero, i) < Real(r, m, zero, j)
  <2>1. i + k < j + k /\ (j + k) - (i + k) = j - i
    BY <1>0, <1>4
  <2>2. /\ q[j + k].id = q[i + k].id + ((j + k) - (i + k))
        /\ q[i + k].ses <= q[j + k].ses
        /\ q[i + k].ses = q[j + k].ses => Real(q, n, zero, i + k) < Real(q, n, zero, j + k)
    BY <1>2, <2>1 DEF Orderly
  <2> QED BY <1>0, <1>1, <2>1, <2>2
<1>5. Orderly(r, m, zero, ses, e)
  BY <1>3, <1>4 DEF Orderly
<1>6. SameEnd(q, n, r, m, zero)
  <2>1. Len(r) \in 1 .. Len(r) /\ Len(r) + k = Len(q)
    BY <1>0
  <2> QED BY <1>0, <1>1, <2>1 DEF SameEnd
<1> QED BY <1>5, <1>6

(* What follows the last follows all.                                      *)
LEMMA Chain ==
  ASSUME NEW a \in Int, NEW b \in Int, NEW c \in Int, NEW k \in Int, NEW l \in Int
  PROVE  /\ b = c + (l - k) /\ a = b + 1 => a = c + (l + 1 - k)
         /\ c <= b /\ b <= a => c <= a /\ (c = a => c = b /\ b = a)
         /\ c < b /\ b < a => c < a
OBVIOUS

LEMMA FollowsAll ==
  ASSUME NEW q \in Seq(Frames), NEW n, NEW zero \in Int, NEW ses, NEW e,
         Orderly(q, n, zero, ses, e),
         NEW f \in Frames, NEW i \in 1 .. Len(q),
         f.id = q[Len(q)].id + 1, q[Len(q)].ses <= f.ses,
         q[Len(q)].ses = f.ses => Real(q, n, zero, Len(q)) < f.pts
  PROVE  /\ f.id = q[i].id + (Len(q) + 1 - i)
         /\ q[i].ses <= f.ses
         /\ q[i].ses = f.ses => Real(q, n, zero, i) < f.pts
<1>1. CASE i = Len(q)
  BY <1>1
<1>2. CASE i < Len(q)
  <2> DEFINE g == q[Len(q)]
             h == q[i]
  <2>1. Len(q) \in 1 .. Len(q)
    OBVIOUS
  <2>2. /\ g.id = h.id + (Len(q) - i)
        /\ h.ses <= g.ses
        /\ h.ses = g.ses => Real(q, n, zero, i) < Real(q, n, zero, Len(q))
    BY <1>2, <2>1 DEF Orderly
  <2>3. /\ g \in Frames /\ h \in Frames /\ Len(q) \in Int /\ i \in Int
        /\ g.pts \in Int /\ h.pts \in Int
    BY <2>1, FrameFields
  <2>4. Real(q, n, zero, i) \in Int /\ Real(q, n, zero, Len(q)) \in Int
    BY <2>3 DEF Real
  <2>5. /\ g.id \in Int /\ g.ses \in Int /\ h.id \in Int /\ h.ses \in Int
        /\ f.id \in Int /\ f.ses \in Int /\ f.pts \in Int
    BY <2>3, FrameFields
  <2>6. f.id = g.id + 1 /\ g.ses <= f.ses
        /\ (g.ses = f.ses => Real(q, n, zero, Len(q)) < f.pts)
    OBVIOUS
  <2> HIDE DEF g, h
  <2>7. f.id = h.id + (Len(q) + 1 - i)
    BY <2>2, <2>3, <2>5, <2>6, Chain
  <2>8. h.ses <= f.ses /\ (h.ses = f.ses => h.ses = g.ses /\ g.ses = f.ses)
    BY <2>2, <2>5, <2>6, Chain
  <2>9. h.ses = f.ses => Real(q, n, zero, i) < f.pts
    BY <2>2, <2>4, <2>5, <2>6, <2>8, Chain
  <2> QED BY <2>7, <2>8, <2>9 DEF h
<1> QED BY <1>1, <1>2

(* One more is offered.                                                    *)
Extended(q, n, r, f) ==
    /\ q \in Seq(Frames) /\ n \in Nat /\ n <= Len(q) /\ f \in Frames
    /\ r \in Seq(Frames) /\ Len(r) = Len(q) + 1 /\ r[Len(q) + 1] = f
    /\ \A i \in 1 .. Len(q) : r[i] = q[i]
Follows(f, q, n, zero, ses, e) ==
    /\ zero \in Int /\ ses \in Int /\ f.era = e /\ f.ses >= ses
    /\ Len(q) = 0 => f.pts >= zero
    /\ Len(q) > 0 => /\ f.id = q[Len(q)].id + 1 /\ q[Len(q)].ses <= f.ses
                     /\ q[Len(q)].ses = f.ses => Real(q, n, zero, Len(q)) < f.pts
EndsIn(r, n, zero, f) ==
    Len(r) \in Nat /\ Len(r) > 0 /\ r[Len(r)] = f /\ Real(r, n, zero, Len(r)) = f.pts

LEMMA OrderlyOffered ==
  ASSUME NEW q, NEW n, NEW r, NEW f, NEW zero, NEW ses, NEW e,
         Extended(q, n, r, f), Follows(f, q, n, zero, ses, e), Orderly(q, n, zero, ses, e)
  PROVE  Orderly(r, n, zero, ses, e) /\ EndsIn(r, n, zero, f)
<1>0. /\ q \in Seq(Frames) /\ n \in Nat /\ n <= Len(q) /\ f \in Frames
      /\ r \in Seq(Frames) /\ Len(r) = Len(q) + 1 /\ r[Len(q) + 1] = f /\ Len(q) \in Nat
      /\ \A i \in 1 .. Len(q) : r[i] = q[i]
  BY DEF Extended
<1>9. /\ zero \in Int /\ ses \in Int /\ f.era = e /\ f.ses >= ses
      /\ Len(q) = 0 => f.pts >= zero
      /\ Len(q) > 0 => /\ f.id = q[Len(q)].id + 1 /\ q[Len(q)].ses <= f.ses
                       /\ q[Len(q)].ses = f.ses => Real(q, n, zero, Len(q)) < f.pts
  BY DEF Follows
<1>1. Real(r, n, zero, Len(q) + 1) = f.pts
  BY <1>0 DEF Real
<1>2. \A i \in 1 .. Len(q) : Real(r, n, zero, i) = Real(q, n, zero, i)
  BY <1>0 DEF Real
<1>3. /\ f.pts \in Int /\ f.id \in Int /\ f.ses \in Int
      /\ \A i \in 1 .. Len(q) : q[i].id \in Int /\ q[i].ses \in Int /\ Real(q, n, zero, i) \in Int
  BY <1>0, <1>9, FrameFields DEF Real
<1>4. ASSUME NEW i \in 1 .. Len(q)
      PROVE  /\ f.id = q[i].id + (Len(q) + 1 - i)
             /\ q[i].ses <= f.ses
             /\ q[i].ses = f.ses => Real(q, n, zero, i) < f.pts
  <2>1. Len(q) > 0
    BY <1>0
  <2> QED BY <1>0, <1>9, <2>1, FollowsAll
<1>5. f.ses = ses => f.pts >= zero
  <2> SUFFICES ASSUME f.ses = ses, Len(q) > 0 PROVE f.pts >= zero
    BY <1>0, <1>9
  <2>1. /\ Len(q) \in 1 .. Len(q) /\ q[Len(q)].ses >= ses
        /\ q[Len(q)].ses = ses => Real(q, n, zero, Len(q)) >= zero
    BY <1>0 DEF Orderly
  <2>2. q[Len(q)].ses = ses
    BY <1>3, <1>9, <2>1
  <2> QED BY <1>3, <1>9, <2>1, <2>2
<1>6. \A i \in 1 .. Len(r) : i \in 1 .. Len(q) \/ i = Len(q) + 1
  BY <1>0
<1>7. ASSUME NEW i \in 1 .. Len(r)
      PROVE  /\ r[i].era = e /\ r[i].ses >= ses
             /\ r[i].ses = ses => Real(r, n, zero, i) >= zero
  BY <1>0, <1>1, <1>2, <1>5, <1>6, <1>9 DEF Orderly
<1>8. ASSUME NEW i \in 1 .. Len(r), NEW j \in 1 .. Len(r), i < j
      PROVE  /\ r[j].id = r[i].id + (j - i)
             /\ r[i].ses <= r[j].ses
             /\ r[i].ses = r[j].ses => Real(r, n, zero, i) < Real(r, n, zero, j)
  <2>1. i \in 1 .. Len(q)
    BY <1>0, <1>8
  <2>2. CASE j \in 1 .. Len(q)
    <3>1. /\ q[j].id = q[i].id + (j - i)
          /\ q[i].ses <= q[j].ses
          /\ q[i].ses = q[j].ses => Real(q, n, zero, i) < Real(q, n, zero, j)
      BY <1>8, <2>1, <2>2 DEF Orderly
    <3> QED BY <1>0, <1>2, <2>1, <2>2, <3>1
  <2>3. CASE j = Len(q) + 1
    <3>1. r[j] = f /\ r[i] = q[i] /\ Real(r, n, zero, j) = f.pts
          /\ Real(r, n, zero, i) = Real(q, n, zero, i)
      BY <1>0, <1>1, <1>2, <2>1, <2>3
    <3> QED BY <1>4, <2>1, <2>3, <3>1
  <2> QED BY <1>6, <2>2, <2>3
<1>10. Orderly(r, n, zero, ses, e)
  BY <1>7, <1>8 DEF Orderly
<1>11. EndsIn(r, n, zero, f)
  BY <1>0, <1>1 DEF EndsIn
<1> QED BY <1>10, <1>11

----------------------------------------------------------------------------
(* The live hub: a viewer's four buffers as one run.                       *)

IsRun(s) == s \in Seq(Frames)
Counts(n, a, b, c) == n = Len(a) + Len(b) + Len(c)

(* q is the concatenation of a, b, c and d.                                *)
Joined(q, a, b, c, d) ==
    /\ q \in Seq(Frames) /\ Len(q) = Len(a) + Len(b) + Len(c) + Len(d)
    /\ Len(a) \in Nat /\ Len(b) \in Nat /\ Len(c) \in Nat /\ Len(d) \in Nat
    /\ \A i \in 1 .. Len(a) : q[i] = a[i]
    /\ \A i \in 1 .. Len(b) : q[Len(a) + i] = b[i]
    /\ \A i \in 1 .. Len(c) : q[Len(a) + Len(b) + i] = c[i]
    /\ \A i \in 1 .. Len(d) : q[Len(a) + Len(b) + Len(c) + i] = d[i]

LEMMA TwoParts ==
  ASSUME NEW a, NEW b, IsRun(a), IsRun(b)
  PROVE  /\ IsRun(a \o b) /\ Len(a \o b) = Len(a) + Len(b) /\ Len(a) \in Nat /\ Len(b) \in Nat
         /\ \A i \in 1 .. Len(a) + Len(b) : (a \o b)[i] = IF i <= Len(a) THEN a[i] ELSE b[i - Len(a)]
BY ConcatProperties DEF IsRun

LEMMA FourParts ==
  ASSUME NEW a, NEW b, NEW c, NEW d, IsRun(a), IsRun(b), IsRun(c), IsRun(d)
  PROVE  Joined(a \o b \o c \o d, a, b, c, d) /\ Len(a \o b \o c) = Len(a) + Len(b) + Len(c)
<1> DEFINE p2 == a \o b
           p3 == p2 \o c
           q == p3 \o d
<1>1. Len(a) \in Nat /\ Len(b) \in Nat /\ Len(c) \in Nat /\ Len(d) \in Nat
  BY TwoParts
<1>2. /\ IsRun(p2) /\ Len(p2) = Len(a) + Len(b)
      /\ \A i \in 1 .. Len(a) + Len(b) : p2[i] = IF i <= Len(a) THEN a[i] ELSE b[i - Len(a)]
  BY TwoParts
<1> HIDE DEF p2
<1>3. /\ IsRun(p3) /\ Len(p3) = Len(p2) + Len(c)
      /\ \A i \in 1 .. Len(p2) + Len(c) : p3[i] = IF i <= Len(p2) THEN p2[i] ELSE c[i - Len(p2)]
  BY <1>2, TwoParts
<1> HIDE DEF p3
<1>5. /\ IsRun(q) /\ Len(q) = Len(p3) + Len(d)
      /\ \A i \in 1 .. Len(p3) + Len(d) : q[i] = IF i <= Len(p3) THEN p3[i] ELSE d[i - Len(p3)]
  BY <1>3, TwoParts
<1> HIDE DEF q
<1>6. Len(p3) = Len(a) + Len(b) + Len(c)
  BY <1>1, <1>2, <1>3
<1>7. \A i \in 1 .. Len(d) : q[Len(a) + Len(b) + Len(c) + i] = d[i]
  <2> SUFFICES ASSUME NEW i \in 1 .. Len(d)
               PROVE  q[Len(a) + Len(b) + Len(c) + i] = d[i]
    OBVIOUS
  <2> DEFINE k == Len(p3) + i
  <2>1. k \in 1 .. Len(p3) + Len(d) /\ ~(k <= Len(p3)) /\ k - Len(p3) = i
    BY <1>1, <1>6
  <2> HIDE DEF k
  <2>2. q[k] = d[i]
    BY <1>5, <2>1
  <2> QED BY <1>6, <2>2 DEF k
<1>8. \A i \in 1 .. Len(c) : q[Len(a) + Len(b) + i] = c[i]
  <2> SUFFICES ASSUME NEW i \in 1 .. Len(c)
               PROVE  q[Len(a) + Len(b) + i] = c[i]
    OBVIOUS
  <2> DEFINE k == Len(p2) + i
  <2>1. /\ k \in 1 .. Len(p2) + Len(c) /\ ~(k <= Len(p2)) /\ k - Len(p2) = i
        /\ k \in 1 .. Len(p3) + Len(d) /\ k <= Len(p3)
    BY <1>1, <1>2, <1>3
  <2> HIDE DEF k
  <2>2. q[k] = p3[k] /\ p3[k] = c[i]
    BY <1>3, <1>5, <2>1
  <2> QED BY <1>2, <2>2 DEF k
<1>9. \A i \in 1 .. Len(b) : q[Len(a) + i] = b[i]
  <2> SUFFICES ASSUME NEW i \in 1 .. Len(b)
               PROVE  q[Len(a) + i] = b[i]
    OBVIOUS
  <2> DEFINE k == Len(a) + i
  <2>1. /\ k \in 1 .. Len(a) + Len(b) /\ ~(k <= Len(a)) /\ k - Len(a) = i
        /\ k \in 1 .. Len(p2) + Len(c) /\ k <= Len(p2)
        /\ k \in 1 .. Len(p3) + Len(d) /\ k <= Len(p3)
    BY <1>1, <1>2, <1>3
  <2> HIDE DEF k
  <2>2. q[k] = p3[k] /\ p3[k] = p2[k] /\ p2[k] = b[i]
    BY <1>2, <1>3, <1>5, <2>1
  <2> QED BY <2>2 DEF k
<1>10. \A i \in 1 .. Len(a) : q[i] = a[i]
  <2> SUFFICES ASSUME NEW i \in 1 .. Len(a)
               PROVE  q[i] = a[i]
    OBVIOUS
  <2>1. /\ i \in 1 .. Len(a) + Len(b) /\ i <= Len(a)
        /\ i \in 1 .. Len(p2) + Len(c) /\ i <= Len(p2)
        /\ i \in 1 .. Len(p3) + Len(d) /\ i <= Len(p3)
    BY <1>1, <1>2, <1>3
  <2> QED BY <1>2, <1>3, <1>5, <2>1
<1>11. Len(a \o b \o c) = Len(a) + Len(b) + Len(c)
  BY <1>6 DEF p2, p3
<1>12. Joined(q, a, b, c, d)
  BY <1>1, <1>5, <1>6, <1>7, <1>8, <1>9, <1>10 DEF Joined, IsRun
<1> QED BY <1>11, <1>12 DEF q, p2, p3

LEMMA SingletonSeq ==
  ASSUME NEW f \in Frames
  PROVE  <<f>> \in Seq(Frames) /\ Len(<<f>>) = 1 /\ <<f>>[1] = f /\ <<f>> # <<>> /\ Len(<<>>) = 0
OBVIOUS

(* Of two runs with parts of the same lengths in a different division.     *)
LEMMA Regrouped ==
  ASSUME NEW a \in Seq(Frames), NEW b \in Seq(Frames), NEW c \in Seq(Frames)
  PROVE  a \o (b \o c) \o <<>> = a \o b \o c
<1>1. b \o c \in Seq(Frames) /\ a \o b \in Seq(Frames)
  BY ConcatProperties
<1>2. a \o (b \o c) = a \o b \o c /\ a \o (b \o c) \in Seq(Frames)
  BY <1>1, ConcatAssociative, ConcatProperties
<1> QED BY <1>2, ConcatEmptySeq

----------------------------------------------------------------------------
(* The live hub: the invariant.                                            *)

SessionStates ==
    [num : 0 .. MaxSessions, pc : {"down", "playing", "live"}, pts : 0 .. MaxFrames, known : BOOLEAN]
ViewerStates ==
    [pc : {"idle", "watching", "cancel", "close", "left"},
     reg : BOOLEAN, closed : BOOLEAN, outClosed : BOOLEAN,
     raw : Seq(Sent), held : Seq(Frames), out : Seq(Frames), last : Seq(Frames),
     zero : 0 .. MaxFrames, era : Nat, params : Nat, ses : Nat, dur : 0 .. VideoClock]

RebasedPart(x) == x.last \o x.out \o x.held

(* The last of the run is frame number count, which was offered last, and  *)
(* the clock of session s is past it.                                      *)
Current(q, n, zero, count, s) ==
    Len(q) > 0 =>
        /\ q[Len(q)].id = count
        /\ q[Len(q)].ses <= s.num
        /\ q[Len(q)].ses = s.num => Real(q, n, zero, Len(q)) < s.pts

WithinBuffers(x) ==
    Len(x.raw) <= ChanBuf /\ Len(x.out) <= ChanBuf /\ Len(x.held) <= 1 /\ Len(x.last) <= 1

InOrderFor(x) == Orderly(InFlight(x), Len(RebasedPart(x)), x.zero, x.ses, x.era)

WellKept(x) == x \in ViewerStates /\ WithinBuffers(x) /\ InOrderFor(x)

UpToDate(x, e, count, s) ==
    x.reg => /\ ~x.closed /\ x.pc \in {"watching", "cancel"}
             /\ x.era = e /\ Len(InFlight(x)) > 0
             /\ Current(InFlight(x), Len(RebasedPart(x)), x.zero, count, s)

InHand(x) == WellKept(x) /\ UpToDate(x, era, offered, session)

LiveTypes ==
    /\ session \in SessionStates
    /\ offered \in 0 .. MaxFrames /\ session.pts <= offered /\ era \in 0 .. session.num
    /\ params \in 0 .. session.num /\ begun \in 0 .. offered
    /\ ring \in Seq(Sent) /\ Len(ring) <= RingMax
    /\ viewer \in [Viewers -> ViewerStates]

RingInOrder ==
    /\ Orderly(ring, 0, 0, 0, era) /\ Current(ring, 0, 0, offered, session)
    /\ \A i \in 1 .. Len(ring) : ring[i].key => i = 1

LiveInv ==
    /\ LiveTypes /\ RingInOrder
    /\ \A v \in Viewers : InHand(viewer[v])

(* What a viewer's buffers hold.                                           *)
LEMMA Buffers ==
  ASSUME NEW x \in ViewerStates
  PROVE  /\ Joined(InFlight(x), x.last, x.out, x.held, x.raw)
         /\ Counts(Len(RebasedPart(x)), x.last, x.out, x.held)
         /\ IsRun(x.last) /\ IsRun(x.out) /\ IsRun(x.held) /\ IsRun(x.raw)
         /\ x.raw \in Seq(Sent)
         /\ x.zero \in Int /\ x.ses \in Int /\ x.era \in Int
<1>1. /\ x.last \in Seq(Frames) /\ x.out \in Seq(Frames) /\ x.held \in Seq(Frames)
      /\ x.raw \in Seq(Sent) /\ x.zero \in Int /\ x.ses \in Int /\ x.era \in Int
  BY LiveAssumption DEF ViewerStates
<1>2. x.raw \in Seq(Frames)
  BY <1>1, SentAreFrames
<1>3. IsRun(x.last) /\ IsRun(x.out) /\ IsRun(x.held) /\ IsRun(x.raw)
  BY <1>1, <1>2 DEF IsRun
<1>4. InFlight(x) = x.last \o x.out \o x.held \o x.raw
  BY DEF InFlight
<1>5. Joined(x.last \o x.out \o x.held \o x.raw, x.last, x.out, x.held, x.raw)
      /\ Len(x.last \o x.out \o x.held) = Len(x.last) + Len(x.out) + Len(x.held)
  BY <1>3, FourParts
<1>6. Joined(InFlight(x), x.last, x.out, x.held, x.raw)
  BY <1>4, <1>5
<1> QED BY <1>1, <1>3, <1>5, <1>6 DEF RebasedPart, Counts

(* The i-th frame of a joined run.                                         *)
LEMMA InFirst ==
  ASSUME NEW q, NEW a, NEW b, NEW c, NEW d, Joined(q, a, b, c, d),
         NEW i \in 1 .. Len(q), i <= Len(a)
  PROVE  q[i] = a[i]
BY DEF Joined

LEMMA InSecond ==
  ASSUME NEW q, NEW a, NEW b, NEW c, NEW d, Joined(q, a, b, c, d),
         NEW i \in 1 .. Len(q), i > Len(a), i <= Len(a) + Len(b)
  PROVE  q[i] = b[i - Len(a)]
<1>1. i - Len(a) \in 1 .. Len(b) /\ Len(a) + (i - Len(a)) = i
  BY DEF Joined
<1>2. q[Len(a) + (i - Len(a))] = b[i - Len(a)]
  BY <1>1 DEF Joined
<1> QED BY <1>1, <1>2

(* g is d without its oldest.                                              *)
Beheaded(g, d) ==
    Len(d) > 0 /\ Len(g) = Len(d) - 1 /\ \A i \in 1 .. Len(g) : g[i] = d[i + 1]

(* The oldest of d goes through c.                                         *)
LEMMA TakenRun ==
  ASSUME NEW q, NEW r, NEW a, NEW b, NEW c, NEW d, NEW e, NEW g,
         Joined(q, a, b, c, d), Joined(r, a, b, e, g), Beheaded(g, d),
         Len(c) = 0, Len(e) = 1, NEW n, n = Len(a) + Len(b)
  PROVE  /\ Len(r) = Len(q) /\ n < Len(q) /\ n \in Nat /\ Len(q) \in Nat
         /\ q[n + 1] = d[1] /\ r[n + 1] = e[1]
         /\ \A i \in 1 .. Len(q) : i # n + 1 => r[i] = q[i]
<1>0. Len(d) > 0 /\ Len(g) = Len(d) - 1 /\ \A i \in 1 .. Len(g) : g[i] = d[i + 1]
  BY DEF Beheaded
<1>1. /\ Len(q) = n + Len(d) /\ Len(r) = n + 1 + Len(g)
      /\ Len(a) \in Nat /\ Len(b) \in Nat /\ Len(d) \in Nat /\ Len(g) \in Nat
  BY <1>0 DEF Joined
<1>2. Len(r) = Len(q) /\ n < Len(q) /\ n \in Nat /\ Len(q) \in Nat
  BY <1>0, <1>1
<1>3. q[n + 1] = d[1] /\ r[n + 1] = e[1]
  <2>1. 1 \in 1 .. Len(d) /\ 1 \in 1 .. Len(e) /\ Len(a) + Len(b) + Len(c) = n
    BY <1>0, <1>1, <1>2
  <2>2. q[Len(a) + Len(b) + Len(c) + 1] = d[1] /\ r[Len(a) + Len(b) + 1] = e[1]
    BY <2>1 DEF Joined
  <2> QED BY <2>1, <2>2
<1>4. ASSUME NEW i \in 1 .. Len(q), i # n + 1
      PROVE  r[i] = q[i]
  <2>1. i \in 1 .. Len(r) /\ i \in Int
    BY <1>2
  <2>2. CASE i <= Len(a)
    BY <2>1, <2>2, InFirst
  <2>3. CASE i > Len(a) /\ i <= Len(a) + Len(b)
    BY <2>1, <2>3, InSecond
  <2>4. CASE i > n + 1
    <3> DEFINE k == i - (n + 1)
    <3>1. /\ k \in 1 .. Len(g) /\ k + 1 \in 1 .. Len(d)
          /\ Len(a) + Len(b) + Len(e) + k = i /\ Len(a) + Len(b) + Len(c) + (k + 1) = i
      BY <1>0, <1>1, <1>2, <2>1, <2>4
    <3> HIDE DEF k
    <3>2. r[Len(a) + Len(b) + Len(e) + k] = g[k]
      BY <3>1 DEF Joined
    <3>3. q[Len(a) + Len(b) + Len(c) + (k + 1)] = d[k + 1]
      BY <3>1 DEF Joined
    <3> QED BY <1>0, <3>1, <3>2, <3>3
  <2> QED BY <1>1, <1>2, <1>4, <2>1, <2>2, <2>3, <2>4
<1> QED BY <1>2, <1>3, <1>4

(* The oldest of b takes the place of a.                                   *)
LEMMA WatchedRun ==
  ASSUME NEW q, NEW r, NEW a, NEW b, NEW c, NEW d, NEW e, NEW g,
         Joined(q, a, b, c, d), Joined(r, e, g, c, d), Beheaded(g, b),
         Len(e) = 1, e[1] = b[1]
  PROVE  /\ Len(r) = Len(q) - Len(a) /\ Len(r) > 0 /\ Len(a) \in 0 .. Len(q)
         /\ \A i \in 1 .. Len(r) : r[i] = q[i + Len(a)]
<1> DEFINE k == Len(a)
<1>0. Len(b) > 0 /\ Len(g) = Len(b) - 1 /\ \A i \in 1 .. Len(g) : g[i] = b[i + 1]
  BY DEF Beheaded
<1>1. /\ Len(q) = k + Len(b) + Len(c) + Len(d) /\ Len(r) = 1 + Len(g) + Len(c) + Len(d)
      /\ k \in Nat /\ Len(b) \in Nat /\ Len(c) \in Nat /\ Len(d) \in Nat /\ Len(g) \in Nat
  BY DEF Joined
<1>2. Len(r) = Len(q) - k /\ Len(r) > 0 /\ k \in 0 .. Len(q)
  BY <1>0, <1>1
<1>3. ASSUME NEW i \in 1 .. Len(r)
      PROVE  r[i] = q[i + k]
  <2>1. CASE i = 1
    <3>1. 1 \in 1 .. Len(b) /\ 1 \in 1 .. Len(e) /\ i + k = k + 1
      BY <1>0, <1>1, <2>1
    <3>2. q[k + 1] = b[1] /\ r[1] = e[1]
      BY <3>1 DEF Joined
    <3> QED BY <2>1, <3>1, <3>2
  <2>2. CASE i > 1 /\ i <= Len(b)
    <3> DEFINE j == i - 1
    <3>1. /\ j \in 1 .. Len(g) /\ j + 1 \in 1 .. Len(b)
          /\ Len(e) + j = i /\ k + (j + 1) = i + k
      BY <1>0, <1>1, <2>2
    <3> HIDE DEF j
    <3>2. r[Len(e) + j] = g[j]
      BY <3>1 DEF Joined
    <3>3. q[k + (j + 1)] = b[j + 1]
      BY <3>1 DEF Joined
    <3> QED BY <1>0, <3>1, <3>2, <3>3
  <2>3. CASE i > Len(b) /\ i <= Len(b) + Len(c)
    <3> DEFINE j == i - Len(b)
    <3>1. /\ j \in 1 .. Len(c) /\ Len(e) + Len(g) + j = i /\ k + Len(b) + j = i + k
      BY <1>0, <1>1, <2>3
    <3> HIDE DEF j
    <3>2. r[Len(e) + Len(g) + j] = c[j]
      BY <3>1 DEF Joined
    <3>3. q[k + Len(b) + j] = c[j]
      BY <3>1 DEF Joined
    <3> QED BY <1>0, <3>1, <3>2, <3>3
  <2>4. CASE i > Len(b) + Len(c)
    <3> DEFINE j == i - (Len(b) + Len(c))
    <3>1. /\ j \in 1 .. Len(d) /\ Len(e) + Len(g) + Len(c) + j = i
          /\ k + Len(b) + Len(c) + j = i + k
      BY <1>0, <1>1, <2>4
    <3> HIDE DEF j
    <3>2. r[Len(e) + Len(g) + Len(c) + j] = d[j]
      BY <3>1 DEF Joined
    <3>3. q[k + Len(b) + Len(c) + j] = d[j]
      BY <3>1 DEF Joined
    <3> QED BY <1>0, <3>1, <3>2, <3>3
  <2>5. i \in Int /\ i >= 1
    OBVIOUS
  <2> QED BY <1>0, <1>1, <2>1, <2>2, <2>3, <2>4, <2>5
<1> QED BY <1>2, <1>3

(* d grows by one.                                                         *)
Lengthened(g, d, f) ==
    Len(g) = Len(d) + 1 /\ g[Len(d) + 1] = f /\ \A i \in 1 .. Len(d) : g[i] = d[i]

LEMMA OfferedRun ==
  ASSUME NEW q, NEW r, NEW a, NEW b, NEW c, NEW d, NEW g, NEW f,
         Joined(q, a, b, c, d), Joined(r, a, b, c, g),
         Lengthened(g, d, f)
  PROVE  /\ Len(r) = Len(q) + 1 /\ Len(q) \in Nat /\ r[Len(q) + 1] = f
         /\ \A i \in 1 .. Len(q) : r[i] = q[i]
<1>0. Len(g) = Len(d) + 1 /\ g[Len(d) + 1] = f /\ \A i \in 1 .. Len(d) : g[i] = d[i]
  BY DEF Lengthened
<1>1. /\ Len(q) = Len(a) + Len(b) + Len(c) + Len(d) /\ Len(r) = Len(a) + Len(b) + Len(c) + Len(g)
      /\ Len(a) \in Nat /\ Len(b) \in Nat /\ Len(c) \in Nat /\ Len(d) \in Nat
  BY DEF Joined
<1>2. Len(r) = Len(q) + 1 /\ Len(q) \in Nat
  BY <1>0, <1>1
<1>3. r[Len(q) + 1] = f
  <2>1. Len(d) + 1 \in 1 .. Len(g) /\ Len(a) + Len(b) + Len(c) + (Len(d) + 1) = Len(q) + 1
    BY <1>0, <1>1
  <2>2. r[Len(a) + Len(b) + Len(c) + (Len(d) + 1)] = g[Len(d) + 1]
    BY <2>1 DEF Joined
  <2> QED BY <1>0, <2>1, <2>2
<1>4. ASSUME NEW i \in 1 .. Len(q)
      PROVE  r[i] = q[i]
  <2>1. i \in 1 .. Len(r) /\ i \in Int
    BY <1>2
  <2>2. CASE i <= Len(a)
    BY <2>1, <2>2, InFirst
  <2>3. CASE i > Len(a) /\ i <= Len(a) + Len(b)
    BY <2>1, <2>3, InSecond
  <2>4. CASE i > Len(a) + Len(b) /\ i <= Len(a) + Len(b) + Len(c)
    <3> DEFINE j == i - (Len(a) + Len(b))
    <3>1. j \in 1 .. Len(c) /\ Len(a) + Len(b) + j = i
      BY <1>1, <2>1, <2>4
    <3> HIDE DEF j
    <3>2. r[Len(a) + Len(b) + j] = c[j] /\ q[Len(a) + Len(b) + j] = c[j]
      BY <3>1 DEF Joined
    <3> QED BY <3>1, <3>2
  <2>5. CASE i > Len(a) + Len(b) + Len(c)
    <3> DEFINE j == i - (Len(a) + Len(b) + Len(c))
    <3>1. j \in 1 .. Len(d) /\ j \in 1 .. Len(g) /\ Len(a) + Len(b) + Len(c) + j = i
      BY <1>0, <1>1, <2>1, <2>5
    <3> HIDE DEF j
    <3>2. r[Len(a) + Len(b) + Len(c) + j] = g[j] /\ q[Len(a) + Len(b) + Len(c) + j] = d[j]
      BY <3>1 DEF Joined
    <3> QED BY <1>0, <3>1, <3>2
  <2> QED BY <1>1, <2>1, <2>2, <2>3, <2>4, <2>5
<1> QED BY <1>2, <1>3, <1>4

LEMMA JoinedCounts ==
  ASSUME NEW q, NEW n, NEW a, NEW b, NEW c, NEW d, Joined(q, a, b, c, d), Counts(n, a, b, c)
  PROVE  q \in Seq(Frames) /\ n \in Nat /\ n <= Len(q)
<1>1. /\ q \in Seq(Frames) /\ Len(q) = Len(a) + Len(b) + Len(c) + Len(d)
      /\ Len(a) \in Nat /\ Len(b) \in Nat /\ Len(c) \in Nat /\ Len(d) \in Nat
  BY DEF Joined
<1> QED BY <1>1 DEF Counts

----------------------------------------------------------------------------
(* The live hub: the steps of a viewer.                                    *)

(* The run of the viewer stays as it is.                                   *)
LEMMA SameRun ==
  ASSUME NEW x, InHand(x), NEW y \in ViewerStates, WithinBuffers(y),
         InFlight(y) = InFlight(x), RebasedPart(y) = RebasedPart(x),
         y.zero = x.zero, y.era = x.era, y.ses = x.ses,
         y.reg => x.reg /\ ~y.closed /\ y.pc \in {"watching", "cancel"}
  PROVE  InHand(y)
<1>1. InOrderFor(y)
  BY DEF InHand, WellKept, InOrderFor
<1>2. UpToDate(y, era, offered, session)
  BY DEF InHand, WellKept, UpToDate
<1> QED BY <1>1, <1>2 DEF InHand, WellKept

(* Only the handler's place and the flags change.                          *)
LEMMA SameBuffers ==
  ASSUME NEW x, InHand(x), NEW y \in ViewerStates,
         y.last = x.last, y.out = x.out, y.held = x.held, y.raw = x.raw,
         y.zero = x.zero, y.era = x.era, y.ses = x.ses,
         y.reg => x.reg /\ ~y.closed /\ y.pc \in {"watching", "cancel"}
  PROVE  InHand(y)
<1>1. InFlight(y) = InFlight(x) /\ RebasedPart(y) = RebasedPart(x)
  BY DEF InFlight, RebasedPart
<1>2. WithinBuffers(y)
  BY DEF InHand, WellKept, WithinBuffers
<1> QED BY <1>1, <1>2, SameRun

(* The forwarder takes the oldest of raw and rebases it.                   *)
Passed(c, d, e, g, zero) ==
    /\ Len(c) = 0 /\ Len(e) = 1 /\ Beheaded(g, d)
    /\ e[1].id = d[1].id /\ e[1].ses = d[1].ses /\ e[1].era = d[1].era
    /\ e[1].pts = d[1].pts - zero /\ zero \in Int

LEMMA PassedRun ==
  ASSUME NEW q, NEW r, NEW a, NEW b, NEW c, NEW d, NEW e, NEW g, NEW n, NEW m,
         NEW zero, NEW ses, NEW era0,
         Joined(q, a, b, c, d), Joined(r, a, b, e, g), Passed(c, d, e, g, zero),
         Counts(n, a, b, c), Counts(m, a, b, e),
         Orderly(q, n, zero, ses, era0)
  PROVE  Orderly(r, m, zero, ses, era0) /\ SameEnd(q, n, r, m, zero)
<1>1. /\ q \in Seq(Frames) /\ r \in Seq(Frames) /\ Len(a) \in Nat /\ Len(b) \in Nat
  BY DEF Joined
<1>2. n = Len(a) + Len(b) /\ m = n + 1 /\ n \in Nat
  BY <1>1 DEF Passed, Counts
<1>3. /\ Len(r) = Len(q) /\ n < Len(q) /\ Len(q) \in Nat
      /\ q[n + 1] = d[1] /\ r[n + 1] = e[1]
      /\ \A i \in 1 .. Len(q) : i # n + 1 => r[i] = q[i]
  <2>1. Len(c) = 0 /\ Len(e) = 1 /\ Beheaded(g, d)
    BY DEF Passed
  <2> QED BY <1>2, <2>1, TakenRun
<1>4. /\ r[n + 1].id = q[n + 1].id /\ r[n + 1].ses = q[n + 1].ses
      /\ r[n + 1].era = q[n + 1].era /\ r[n + 1].pts = q[n + 1].pts - zero
  BY <1>3 DEF Passed
<1>5. zero \in Int
  BY DEF Passed
<1>6. Replaced(q, n, r, m, zero)
  BY <1>1, <1>2, <1>3, <1>4, <1>5 DEF Replaced
<1> QED BY <1>6, OrderlyTaken

(* A step that keeps the viewer's origin and the end of its run.           *)
LEMMA RunKept ==
  ASSUME NEW x, InHand(x), NEW y \in ViewerStates, WithinBuffers(y),
         y.zero = x.zero, y.era = x.era, y.ses = x.ses,
         y.reg = x.reg, y.closed = x.closed, y.pc = x.pc,
         Orderly(InFlight(y), Len(RebasedPart(y)), x.zero, x.ses, x.era),
         SameEnd(InFlight(x), Len(RebasedPart(x)), InFlight(y), Len(RebasedPart(y)), x.zero)
  PROVE  InHand(y)
<1> DEFINE n == Len(RebasedPart(x))
           m == Len(RebasedPart(y))
           q == InFlight(x)
           r == InFlight(y)
<1>1. InOrderFor(y)
  BY DEF InOrderFor
<1>2. ASSUME x.reg PROVE Current(r, m, x.zero, offered, session) /\ Len(r) > 0
  <2>1. Current(q, n, x.zero, offered, session) /\ Len(q) > 0
    BY <1>2 DEF InHand, WellKept, UpToDate
  <2> QED BY <2>1 DEF Current, SameEnd
<1>3. UpToDate(y, era, offered, session)
  BY <1>2 DEF InHand, WellKept, UpToDate
<1> QED BY <1>1, <1>3 DEF InHand, WellKept

LEMMA Taken ==
  ASSUME NEW x, InHand(x), x.held = <<>>, x.raw # <<>>,
         NEW y, y = [x EXCEPT !.held = <<Rebased(Head(x.raw), x.zero)>>, !.raw = Tail(x.raw)]
  PROVE  InHand(y)
<1> DEFINE f == Head(x.raw)
           g == Rebased(f, x.zero)
           n == Len(RebasedPart(x))
           m == Len(RebasedPart(y))
           q == InFlight(x)
           r == InFlight(y)
<1>1. x \in ViewerStates /\ x.raw \in Seq(Sent) /\ x.zero \in 0 .. MaxFrames /\ x.zero \in Int
  BY LiveAssumption DEF InHand, WellKept, ViewerStates
<1>2. f = x.raw[1] /\ f \in Sent
  BY <1>1
<1>3. /\ g \in Frames /\ g.id = f.id /\ g.ses = f.ses /\ g.era = f.era /\ g.pts = f.pts - x.zero
  BY <1>1, <1>2, RebasedFields
<1>4. <<g>> \in Seq(Frames) /\ Len(<<g>>) = 1 /\ <<g>>[1] = g /\ Len(<<>>) = 0
  BY <1>3, SingletonSeq
<1>5. /\ Tail(x.raw) \in Seq(Sent) /\ Len(Tail(x.raw)) = Len(x.raw) - 1
      /\ \A i \in 1 .. Len(Tail(x.raw)) : Tail(x.raw)[i] = x.raw[i + 1]
      /\ Len(x.raw) \in Nat /\ Len(x.raw) > 0
  BY <1>1, HeadTailProperties, EmptySeq
<1> HIDE DEF g, f
<1>6. /\ y \in ViewerStates /\ y.held = <<g>> /\ y.raw = Tail(x.raw)
      /\ y.last = x.last /\ y.out = x.out /\ y.zero = x.zero /\ y.era = x.era /\ y.ses = x.ses
      /\ y.reg = x.reg /\ y.closed = x.closed /\ y.pc = x.pc
  BY <1>1, <1>4, <1>5 DEF ViewerStates, g, f
<1>7. Passed(x.held, x.raw, y.held, y.raw, x.zero)
  <2>1. Len(x.held) = 0 /\ Len(y.held) = 1 /\ y.held[1] = g
    BY <1>4, <1>6
  <2>2. Beheaded(y.raw, x.raw)
    BY <1>5, <1>6 DEF Beheaded
  <2> QED BY <1>1, <1>2, <1>3, <2>1, <2>2 DEF Passed
<1>8. /\ Joined(q, x.last, x.out, x.held, x.raw) /\ Joined(r, x.last, x.out, y.held, y.raw)
      /\ Counts(n, x.last, x.out, x.held) /\ Counts(m, x.last, x.out, y.held)
  BY <1>1, <1>6, Buffers
<1>9. Orderly(q, n, x.zero, x.ses, x.era)
  BY DEF InHand, WellKept, InOrderFor
<1>10. WithinBuffers(y)
  <2>1. Len(y.held) = 1 /\ Len(y.raw) = Len(x.raw) - 1
    BY <1>7 DEF Passed, Beheaded
  <2>2. Len(y.raw) <= ChanBuf
    BY <1>5, <2>1, LiveAssumption DEF InHand, WellKept, WithinBuffers
  <2> QED BY <1>6, <2>1, <2>2 DEF InHand, WellKept, WithinBuffers
<1> HIDE DEF q, r, n, m
<1>11. Orderly(r, m, x.zero, x.ses, x.era) /\ SameEnd(q, n, r, m, x.zero)
  BY <1>7, <1>8, <1>9, PassedRun
<1> QED BY <1>6, <1>10, <1>11, RunKept DEF q, r, n, m

(* The forwarder hands on what it holds.                                   *)
LEMMA Put ==
  ASSUME NEW x, InHand(x), Len(x.out) < ChanBuf,
         NEW y, y = [x EXCEPT !.out = x.out \o x.held, !.held = <<>>]
  PROVE  InHand(y)
<1>1. /\ x \in ViewerStates /\ x.out \in Seq(Frames) /\ x.held \in Seq(Frames)
      /\ x.last \in Seq(Frames) /\ Len(x.held) <= 1
  BY DEF InHand, WellKept, ViewerStates, WithinBuffers
<1>2. /\ x.out \o x.held \in Seq(Frames) /\ Len(x.out \o x.held) = Len(x.out) + Len(x.held)
      /\ Len(x.out) \in Nat /\ Len(x.held) \in Nat /\ <<>> \in Seq(Frames)
  BY <1>1, ConcatProperties
<1>3. /\ y \in ViewerStates /\ y.held = <<>> /\ y.out = x.out \o x.held
      /\ y.last = x.last /\ y.raw = x.raw /\ y.zero = x.zero /\ y.era = x.era /\ y.ses = x.ses
      /\ y.reg = x.reg /\ y.closed = x.closed /\ y.pc = x.pc
  BY <1>1, <1>2 DEF ViewerStates
<1>4. RebasedPart(y) = RebasedPart(x)
  <2>1. x.last \o (x.out \o x.held) \o <<>> = x.last \o x.out \o x.held
    BY <1>1, Regrouped
  <2> QED BY <1>3, <2>1 DEF RebasedPart
<1>5. InFlight(y) = InFlight(x)
  <2>1. InFlight(y) = RebasedPart(y) \o y.raw /\ InFlight(x) = RebasedPart(x) \o x.raw
    BY DEF InFlight, RebasedPart
  <2> QED BY <1>3, <1>4, <2>1
<1>6. WithinBuffers(y)
  <2>1. \A a, b, c, n \in Nat : a < n /\ b <= 1 /\ c = a + b => c <= n
    OBVIOUS
  <2>2. /\ Len(y.out) = Len(x.out) + Len(x.held) /\ Len(y.out) \in Nat
        /\ Len(y.held) = 0 /\ ChanBuf \in Nat
    <3>1. ChanBuf \in Nat
      BY LiveAssumption
    <3>2. Len(y.held) = 0
      BY <1>3
    <3> DEFINE p == x.out \o x.held
    <3>3. /\ Len(p) = Len(x.out) + Len(x.held) /\ y.out = p
          /\ Len(x.out) \in Nat /\ Len(x.held) \in Nat
      BY <1>2, <1>3
    <3>4. Len(y.out) = Len(x.out) + Len(x.held)
      BY <3>3
    <3> HIDE DEF p
    <3> DEFINE o == Len(x.out)
               h == Len(x.held)
    <3>5. o \in Nat /\ h \in Nat
      BY <3>3
    <3> HIDE DEF o, h
    <3>6. o + h \in Nat
      BY <3>5
    <3> QED BY <3>1, <3>2, <3>4, <3>6 DEF o, h
  <2>3. Len(y.out) <= ChanBuf
    BY <1>1, <1>2, <2>1, <2>2
  <2>4. Len(x.raw) <= ChanBuf /\ Len(x.last) <= 1
    BY DEF InHand, WellKept, WithinBuffers
  <2>5. Len(y.raw) <= ChanBuf /\ Len(y.last) <= 1
    BY <1>3, <2>4
  <2>6. Len(y.held) <= 1
    BY <2>2
  <2> QED BY <2>3, <2>5, <2>6 DEF WithinBuffers
<1>7. y.reg => x.reg /\ ~y.closed /\ y.pc \in {"watching", "cancel"}
  BY <1>3 DEF InHand, WellKept, UpToDate
<1> QED BY <1>3, <1>4, <1>5, <1>6, <1>7, SameRun

(* The handler takes the oldest of out.                                    *)
LEMMA WatchedCut ==
  ASSUME NEW q, NEW r, NEW a, NEW b, NEW c, NEW d, NEW e, NEW g, NEW n, NEW m,
         NEW zero, NEW ses, NEW era0,
         Joined(q, a, b, c, d), Joined(r, e, g, c, d), Beheaded(g, b),
         Len(e) = 1, e[1] = b[1],
         Counts(n, a, b, c), Counts(m, e, g, c),
         Orderly(q, n, zero, ses, era0)
  PROVE  Orderly(r, m, zero, ses, era0) /\ SameEnd(q, n, r, m, zero)
<1> DEFINE k == Len(a)
<1>1. /\ q \in Seq(Frames) /\ r \in Seq(Frames) /\ k \in Nat
      /\ Len(b) \in Nat /\ Len(c) \in Nat /\ Len(g) \in Nat
  BY DEF Joined
<1>2. /\ Len(r) = Len(q) - k /\ Len(r) > 0 /\ k \in 0 .. Len(q)
      /\ \A i \in 1 .. Len(r) : r[i] = q[i + k]
  BY WatchedRun
<1>3. n \in Nat /\ m \in Nat /\ n = m + k
  BY <1>1 DEF Counts, Beheaded
<1> HIDE DEF k
<1>4. \A i \in 1 .. Len(r) : i <= m <=> i + k <= n
  BY <1>1, <1>3
<1>5. Cut(q, n, r, m, k)
  BY <1>1, <1>2, <1>3, <1>4 DEF Cut
<1> QED BY <1>5, OrderlyDropped

LEMMA Watched ==
  ASSUME NEW x, InHand(x), x.out # <<>>, NEW d \in 0 .. VideoClock,
         NEW y, y = [x EXCEPT !.out = Tail(x.out), !.last = <<Head(x.out)>>, !.dur = d]
  PROVE  InHand(y)
<1> DEFINE f == Head(x.out)
           n == Len(RebasedPart(x))
           m == Len(RebasedPart(y))
           q == InFlight(x)
           r == InFlight(y)
<1>1. x \in ViewerStates /\ x.out \in Seq(Frames)
  BY DEF InHand, WellKept, ViewerStates
<1>2. f = x.out[1] /\ f \in Frames
  BY <1>1
<1>3. <<f>> \in Seq(Frames) /\ Len(<<f>>) = 1 /\ <<f>>[1] = f
  BY <1>2, SingletonSeq
<1>4. /\ Tail(x.out) \in Seq(Frames) /\ Len(Tail(x.out)) = Len(x.out) - 1
      /\ \A i \in 1 .. Len(Tail(x.out)) : Tail(x.out)[i] = x.out[i + 1]
      /\ Len(x.out) \in Nat /\ Len(x.out) > 0
  BY <1>1, HeadTailProperties, EmptySeq
<1> HIDE DEF f
<1>5. /\ y \in ViewerStates /\ y.last = <<f>> /\ y.out = Tail(x.out)
      /\ y.held = x.held /\ y.raw = x.raw /\ y.zero = x.zero /\ y.era = x.era /\ y.ses = x.ses
      /\ y.reg = x.reg /\ y.closed = x.closed /\ y.pc = x.pc
  BY <1>1, <1>3, <1>4 DEF ViewerStates, f
<1>6. Beheaded(y.out, x.out) /\ Len(y.last) = 1 /\ y.last[1] = x.out[1]
  BY <1>2, <1>3, <1>4, <1>5 DEF Beheaded
<1>7. /\ Joined(q, x.last, x.out, x.held, x.raw) /\ Joined(r, y.last, y.out, x.held, x.raw)
      /\ Counts(n, x.last, x.out, x.held) /\ Counts(m, y.last, y.out, x.held)
  BY <1>1, <1>5, Buffers
<1>8. Orderly(q, n, x.zero, x.ses, x.era)
  BY DEF InHand, WellKept, InOrderFor
<1>9. WithinBuffers(y)
  <2>1. Len(y.out) <= ChanBuf
    BY <1>4, <1>5, LiveAssumption DEF InHand, WellKept, WithinBuffers
  <2> QED BY <1>5, <1>6, <2>1 DEF InHand, WellKept, WithinBuffers
<1> HIDE DEF q, r, n, m
<1>10. Orderly(r, m, x.zero, x.ses, x.era) /\ SameEnd(q, n, r, m, x.zero)
  BY <1>6, <1>7, <1>8, WatchedCut
<1> QED BY <1>5, <1>9, <1>10, RunKept DEF q, r, n, m

----------------------------------------------------------------------------
(* The live hub: a frame is offered.                                       *)

Advanced(s) == [s EXCEPT !.pts = @ + 1]
IsNext(f) ==
    f \in Sent /\ f.id = offered + 1 /\ f.ses = session.num /\ f.pts = session.pts /\ f.era = era

(* The frame the session offers next follows what the hub offered last.    *)
LEMMA NextFollows ==
  ASSUME NEW q, NEW n, NEW zero \in Int, NEW ses \in Int, NEW f,
         LiveTypes, IsNext(f), IsRun(q), Orderly(q, n, zero, ses, era),
         Current(q, n, zero, offered, session),
         Len(q) = 0 => session.num >= ses /\ session.pts >= zero
  PROVE  Follows(f, q, n, zero, ses, era)
<1>1. f.era = era /\ f.id = offered + 1 /\ f.ses = session.num /\ f.pts = session.pts
  BY DEF IsNext
<1>2. session.num \in Int /\ session.pts \in Int /\ offered \in Int
  BY LiveAssumption DEF LiveTypes, SessionStates
<1>3. Len(q) > 0 => /\ q[Len(q)].id = offered
                    /\ q[Len(q)].ses <= session.num
                    /\ q[Len(q)].ses = session.num => Real(q, n, zero, Len(q)) < session.pts
  BY DEF Current
<1>4. Len(q) > 0 => f.ses >= ses
  <2> SUFFICES ASSUME Len(q) > 0 PROVE f.ses >= ses
    OBVIOUS
  <2>1. Len(q) \in 1 .. Len(q) /\ q[Len(q)] \in Frames
    BY DEF IsRun
  <2>2. q[Len(q)].ses >= ses
    BY <2>1 DEF Orderly
  <2>3. q[Len(q)].ses \in Int
    BY <2>1, FrameFields
  <2> QED BY <1>1, <1>2, <1>3, <2>2, <2>3
<1>5. Len(q) \in Nat
  BY DEF IsRun
<1>6. f.ses >= ses
  BY <1>1, <1>4, <1>5
<1> QED BY <1>1, <1>3, <1>6 DEF Follows

(* The frame offered is the latest, and the clock has moved past it.       *)
LEMMA NowCurrent ==
  ASSUME NEW r, NEW n, NEW zero, NEW f, LiveTypes, IsNext(f), EndsIn(r, n, zero, f)
  PROVE  Current(r, n, zero, offered + 1, Advanced(session))
<1>1. session.num \in Int /\ session.pts \in Int
  BY LiveAssumption DEF LiveTypes, SessionStates
<1>2. Advanced(session).num = session.num /\ Advanced(session).pts = session.pts + 1
  BY DEF LiveTypes, Advanced
<1>3. /\ r[Len(r)] = f /\ Real(r, n, zero, Len(r)) = f.pts
      /\ f.id = offered + 1 /\ f.ses = session.num /\ f.pts = session.pts
  BY DEF EndsIn, IsNext
<1> QED BY <1>1, <1>2, <1>3 DEF Current

LEMMA SentTo ==
  ASSUME LiveTypes, NEW f, IsNext(f), NEW x, InHand(x), x.reg, Len(x.raw) < ChanBuf,
         NEW y, y = [x EXCEPT !.raw = Append(x.raw, f)]
  PROVE  WellKept(y) /\ UpToDate(y, era, offered + 1, Advanced(session))
<1> DEFINE n == Len(RebasedPart(x))
           q == InFlight(x)
           r == InFlight(y)
<1>1. x \in ViewerStates /\ x.raw \in Seq(Sent) /\ f \in Sent
  BY DEF InHand, WellKept, ViewerStates, IsNext
<1>2. /\ Append(x.raw, f) \in Seq(Sent) /\ Len(Append(x.raw, f)) = Len(x.raw) + 1
      /\ Append(x.raw, f)[Len(x.raw) + 1] = f /\ Len(x.raw) \in Nat
      /\ \A i \in 1 .. Len(x.raw) : Append(x.raw, f)[i] = x.raw[i]
  BY <1>1, AppendProperties
<1>3. /\ y \in ViewerStates /\ y.raw = Append(x.raw, f)
      /\ y.last = x.last /\ y.out = x.out /\ y.held = x.held
      /\ y.zero = x.zero /\ y.era = x.era /\ y.ses = x.ses
      /\ y.reg = x.reg /\ y.closed = x.closed /\ y.pc = x.pc
  BY <1>1, <1>2 DEF ViewerStates
<1>4. RebasedPart(y) = RebasedPart(x)
  BY <1>3 DEF RebasedPart
<1>5. /\ Joined(q, x.last, x.out, x.held, x.raw) /\ Joined(r, x.last, x.out, x.held, y.raw)
      /\ Counts(n, x.last, x.out, x.held) /\ x.zero \in Int /\ x.ses \in Int
  BY <1>1, <1>3, Buffers
<1>6. Len(y.raw) = Len(x.raw) + 1 /\ Lengthened(y.raw, x.raw, f)
  BY <1>2, <1>3 DEF Lengthened
<1>7. /\ Orderly(q, n, x.zero, x.ses, era) /\ Current(q, n, x.zero, offered, session)
      /\ Len(q) > 0 /\ x.era = era /\ ~x.closed /\ x.pc \in {"watching", "cancel"}
  BY DEF InHand, WellKept, InOrderFor, UpToDate
<1>8. WithinBuffers(y)
  <2>1. Len(x.raw) + 1 <= ChanBuf
    BY <1>2, LiveAssumption
  <2>2. Len(y.raw) <= ChanBuf
    BY <1>6, <2>1
  <2>3. Len(x.out) <= ChanBuf /\ Len(x.held) <= 1 /\ Len(x.last) <= 1
    BY DEF InHand, WellKept, WithinBuffers
  <2> QED BY <1>3, <2>2, <2>3 DEF WithinBuffers
<1>9. y.reg => ~y.closed /\ y.pc \in {"watching", "cancel"} /\ y.era = era
  BY <1>3, <1>7
<1> HIDE DEF q, r, n
<1>10. /\ Len(r) = Len(q) + 1 /\ Len(q) \in Nat /\ r[Len(q) + 1] = f
       /\ \A i \in 1 .. Len(q) : r[i] = q[i]
  BY <1>5, <1>6, OfferedRun
<1>11. q \in Seq(Frames) /\ r \in Seq(Frames) /\ n \in Nat /\ n <= Len(q)
  <2>1. q \in Seq(Frames) /\ n \in Nat /\ n <= Len(q)
    BY <1>5, JoinedCounts
  <2>2. r \in Seq(Frames)
    BY <1>5 DEF Joined
  <2> QED BY <2>1, <2>2
<1>12. f \in Frames
  BY <1>1, SentAreFrames
<1>13. Extended(q, n, r, f)
  BY <1>10, <1>11, <1>12 DEF Extended
<1>14. IsRun(q) /\ ~(Len(q) = 0)
  BY <1>7, <1>10, <1>11 DEF IsRun
<1>15. Follows(f, q, n, x.zero, x.ses, era)
  BY <1>5, <1>7, <1>14, NextFollows
<1>16. Orderly(r, n, x.zero, x.ses, era) /\ EndsIn(r, n, x.zero, f)
  BY <1>7, <1>13, <1>15, OrderlyOffered
<1>17. Current(r, n, x.zero, offered + 1, Advanced(session)) /\ Len(r) > 0
  BY <1>10, <1>16, NowCurrent
<1>18. InOrderFor(y)
  BY <1>3, <1>4, <1>7, <1>16 DEF InOrderFor, r, n
<1>19. UpToDate(y, era, offered + 1, Advanced(session))
  BY <1>3, <1>4, <1>9, <1>17 DEF UpToDate, r, n
<1> QED BY <1>3, <1>8, <1>18, <1>19 DEF WellKept

(* A viewer that is not registered, or no longer, only has to be in order. *)
LEMMA KickedKept ==
  ASSUME NEW x, WellKept(x)
  PROVE  WellKept(Kicked(x)) /\ ~Kicked(x).reg
<1> DEFINE y == Kicked(x)
<1>1. x \in ViewerStates
  BY DEF WellKept
<1>2. /\ y \in ViewerStates /\ ~y.reg
      /\ y.last = x.last /\ y.out = x.out /\ y.held = x.held /\ y.raw = x.raw
      /\ y.zero = x.zero /\ y.era = x.era /\ y.ses = x.ses
  BY <1>1 DEF ViewerStates, Kicked
<1> HIDE DEF y
<1>3. InFlight(y) = InFlight(x) /\ RebasedPart(y) = RebasedPart(x)
  BY <1>2 DEF InFlight, RebasedPart
<1>4. WithinBuffers(y) /\ InOrderFor(y)
  BY <1>2, <1>3 DEF WellKept, WithinBuffers, InOrderFor
<1> QED BY <1>2, <1>4 DEF WellKept, y

LEMMA DeliveredKept ==
  ASSUME LiveTypes, NEW f, IsNext(f), NEW x, InHand(x)
  PROVE  /\ WellKept(Delivered(x, f))
         /\ UpToDate(Delivered(x, f), era, offered + 1, Advanced(session))
<1>1. CASE ~x.reg
  BY <1>1 DEF Delivered, InHand, UpToDate
<1>2. CASE x.reg /\ Len(x.raw) < ChanBuf
  <2>1. Delivered(x, f) = [x EXCEPT !.raw = Append(x.raw, f)]
    BY <1>2 DEF Delivered
  <2> QED BY <1>2, <2>1, SentTo
<1>3. CASE x.reg /\ ~(Len(x.raw) < ChanBuf)
  <2>1. Delivered(x, f) = Kicked(x)
    BY <1>3 DEF Delivered
  <2>2. WellKept(Kicked(x)) /\ ~Kicked(x).reg
    BY KickedKept DEF InHand
  <2> QED BY <2>1, <2>2 DEF UpToDate
<1> QED BY <1>1, <1>2, <1>3

(* The ring with one more frame, the oldest dropped when it is full.       *)
RingKept(r, e, count, s) ==
    /\ r \in Seq(Sent) /\ Len(r) <= RingMax
    /\ Orderly(r, 0, 0, 0, e) /\ Current(r, 0, 0, count, s)
    /\ \A i \in 1 .. Len(r) : r[i].key => i = 1

LEMMA RingStarts ==
  ASSUME LiveTypes, NEW f, IsNext(f)
  PROVE  RingKept(<<f>>, era, offered + 1, Advanced(session))
<1>1. f \in Sent /\ f \in Frames
  BY SentAreFrames DEF IsNext
<1>2. <<f>> \in Seq(Sent) /\ <<f>> \in Seq(Frames) /\ Len(<<f>>) = 1 /\ <<f>>[1] = f
  BY <1>1
<1>3. IsRun(<<>>) /\ Len(<<>>) = 0 /\ <<>> \in Seq(Frames)
  BY DEF IsRun
<1>4. Orderly(<<>>, 0, 0, 0, era) /\ Current(<<>>, 0, 0, offered, session)
  BY <1>3 DEF Orderly, Current
<1>5. session.num >= 0 /\ session.pts >= 0
  BY LiveAssumption DEF LiveTypes, SessionStates
<1>6. Follows(f, <<>>, 0, 0, 0, era)
  BY <1>3, <1>4, <1>5, NextFollows
<1>7. Extended(<<>>, 0, <<f>>, f)
  BY <1>1, <1>2, <1>3 DEF Extended
<1>8. Orderly(<<f>>, 0, 0, 0, era) /\ EndsIn(<<f>>, 0, 0, f)
  BY <1>4, <1>6, <1>7, OrderlyOffered
<1>9. Current(<<f>>, 0, 0, offered + 1, Advanced(session))
  BY <1>8, NowCurrent
<1>10. Len(<<f>>) <= RingMax
  BY <1>2, LiveAssumption
<1>11. \A i \in 1 .. Len(<<f>>) : i = 1
  BY <1>2
<1> QED BY <1>2, <1>8, <1>9, <1>10, <1>11 DEF RingKept

LEMMA RingGrows ==
  ASSUME LiveTypes, RingInOrder, NEW f, IsNext(f), ~f.key, NEW r, r = Append(ring, f)
  PROVE  /\ r \in Seq(Sent) /\ r \in Seq(Frames) /\ Len(r) = Len(ring) + 1 /\ Len(ring) \in Nat
         /\ Orderly(r, 0, 0, 0, era) /\ Current(r, 0, 0, offered + 1, Advanced(session))
         /\ \A i \in 1 .. Len(r) : r[i].key => i = 1
<1>1. f \in Sent /\ f \in Frames /\ ring \in Seq(Sent)
  BY SentAreFrames DEF IsNext, LiveTypes
<1>2. ring \in Seq(Frames) /\ IsRun(ring) /\ Len(ring) \in Nat
  BY <1>1, SentAreFrames DEF IsRun
<1>3. /\ r \in Seq(Sent) /\ Len(r) = Len(ring) + 1 /\ r[Len(ring) + 1] = f
      /\ \A i \in 1 .. Len(ring) : r[i] = ring[i]
  BY <1>1, AppendProperties
<1>4. r \in Seq(Frames)
  BY <1>3, SentAreFrames
<1>5. Orderly(ring, 0, 0, 0, era) /\ Current(ring, 0, 0, offered, session)
  BY DEF RingInOrder
<1>6. session.num >= 0 /\ session.pts >= 0
  BY LiveAssumption DEF LiveTypes, SessionStates
<1>7. Follows(f, ring, 0, 0, 0, era)
  BY <1>2, <1>5, <1>6, NextFollows
<1>8. Extended(ring, 0, r, f)
  BY <1>1, <1>2, <1>3, <1>4 DEF Extended
<1>9. Orderly(r, 0, 0, 0, era) /\ EndsIn(r, 0, 0, f)
  BY <1>5, <1>7, <1>8, OrderlyOffered
<1>10. Current(r, 0, 0, offered + 1, Advanced(session))
  BY <1>9, NowCurrent
<1>11. ASSUME NEW i \in 1 .. Len(r), r[i].key PROVE i = 1
  <2>1. i = Len(ring) + 1 \/ i \in 1 .. Len(ring)
    BY <1>2, <1>3
  <2>2. i # Len(ring) + 1
    BY <1>3, <1>11
  <2>3. ring[i].key
    BY <1>3, <1>11, <2>1, <2>2
  <2> QED BY <2>1, <2>2, <2>3 DEF RingInOrder
<1> QED BY <1>2, <1>3, <1>4, <1>9, <1>10, <1>11

LEMMA NewRingKept ==
  ASSUME LiveTypes, RingInOrder, NEW f, IsNext(f)
  PROVE  RingKept(NewRing(f), era, offered + 1, Advanced(session))
<1>1. CASE f.key
  <2>1. NewRing(f) = <<f>>
    <3>1. Len(<<f>>) = 1 /\ ~(1 > RingMax)
      BY LiveAssumption
    <3> QED BY <1>1, <3>1 DEF NewRing
  <2> QED BY <2>1, RingStarts
<1>2. CASE ~f.key
  <2> DEFINE r == Append(ring, f)
  <2>1. /\ r \in Seq(Sent) /\ r \in Seq(Frames) /\ Len(r) = Len(ring) + 1 /\ Len(ring) \in Nat
        /\ Orderly(r, 0, 0, 0, era) /\ Current(r, 0, 0, offered + 1, Advanced(session))
        /\ \A i \in 1 .. Len(r) : r[i].key => i = 1
    BY <1>2, RingGrows
  <2>2. Len(ring) <= RingMax /\ RingMax \in Int /\ RingMax >= 1
    BY LiveAssumption DEF LiveTypes
  <2>3. NewRing(f) = IF Len(r) > RingMax THEN Tail(r) ELSE r
    BY <1>2 DEF NewRing
  <2> HIDE DEF r
  <2>4. CASE ~(Len(r) > RingMax)
    <3>1. NewRing(f) = r /\ Len(r) <= RingMax
      BY <2>1, <2>2, <2>3, <2>4
    <3> QED BY <2>1, <3>1 DEF RingKept
  <2>5. CASE Len(r) > RingMax
    <3> DEFINE t == Tail(r)
    <3>1. /\ t \in Seq(Sent) /\ Len(t) = Len(r) - 1 /\ Len(t) > 0
          /\ \A i \in 1 .. Len(t) : t[i] = r[i + 1]
      <4>1. r # <<>>
        BY <2>1
      <4>2. /\ t \in Seq(Sent) /\ Len(t) = Len(r) - 1
            /\ \A i \in 1 .. Len(t) : t[i] = r[i + 1]
        BY <2>1, <4>1, HeadTailProperties
      <4> HIDE DEF t
      <4>3. Len(t) > 0
        BY <2>1, <2>2, <2>5, <4>2
      <4> QED BY <4>2, <4>3
    <3> HIDE DEF t
    <3>2. t \in Seq(Frames)
      BY <3>1, SentAreFrames
    <3>3. \A i \in 1 .. Len(t) : i <= 0 <=> i + 1 <= 0
      OBVIOUS
    <3>4. 1 \in 0 .. Len(r)
      BY <2>1
    <3>5. Cut(r, 0, t, 0, 1)
      BY <2>1, <3>1, <3>2, <3>3, <3>4 DEF Cut
    <3>6. Orderly(t, 0, 0, 0, era) /\ SameEnd(r, 0, t, 0, 0)
      BY <2>1, <3>5, OrderlyDropped
    <3>7. Current(t, 0, 0, offered + 1, Advanced(session))
      <4>1. Len(r) > 0
        BY <2>1
      <4> QED BY <2>1, <3>6, <4>1 DEF Current, SameEnd
    <3>8. ASSUME NEW i \in 1 .. Len(t), t[i].key PROVE i = 1
      <4>1. i + 1 \in 1 .. Len(r) /\ r[i + 1].key /\ i + 1 # 1
        BY <2>1, <3>1, <3>8
      <4> QED BY <2>1, <4>1
    <3>9. Len(t) <= RingMax
      BY <2>1, <2>2, <3>1
    <3>10. NewRing(f) = t
      BY <2>3, <2>5 DEF t
    <3> QED BY <3>1, <3>6, <3>7, <3>8, <3>9, <3>10 DEF RingKept
  <2> QED BY <2>4, <2>5
<1> QED BY <1>1, <1>2

----------------------------------------------------------------------------
(* The live hub: a new viewer gets the ring.                               *)

(* The rebased copy r of the ring q.                                       *)
Copied(q, r, zero) ==
    /\ q \in Seq(Sent) /\ r \in Seq(Frames) /\ Len(r) = Len(q) /\ Len(q) > 0
    /\ zero = q[1].pts
    /\ \A i \in 1 .. Len(q) : r[i] = Rebased(q[i], zero)

LEMMA CopyOrderly ==
  ASSUME NEW q, NEW r, NEW zero, NEW ses, NEW e, NEW n, NEW count, NEW s,
         Copied(q, r, zero), ses = q[1].ses, n = Len(r),
         Orderly(q, 0, 0, 0, e), Current(q, 0, 0, count, s)
  PROVE  Orderly(r, n, zero, ses, e) /\ Current(r, n, zero, count, s) /\ Len(r) > 0
<1>0. /\ q \in Seq(Sent) /\ r \in Seq(Frames) /\ Len(r) = Len(q) /\ Len(q) > 0 /\ Len(q) \in Nat
      /\ zero = q[1].pts
      /\ \A i \in 1 .. Len(q) : r[i] = Rebased(q[i], zero)
  BY DEF Copied
<1>1. 1 \in 1 .. Len(q) /\ q[1] \in Sent
  BY <1>0
<1>2. zero \in 0 .. MaxFrames /\ zero \in Int
  BY <1>0, <1>1, LiveAssumption DEF Sent
<1>3. ASSUME NEW i \in 1 .. Len(q)
      PROVE  /\ r[i].id = q[i].id /\ r[i].ses = q[i].ses /\ r[i].era = q[i].era
             /\ Real(r, n, zero, i) = Real(q, 0, 0, i)
             /\ q[i].ses \in Int /\ Real(q, 0, 0, i) = q[i].pts /\ q[i].pts \in Int
  <2>1. q[i] \in Sent
    BY <1>0
  <2>2. q[i].pts \in Int /\ q[i].ses \in Int
    BY <2>1, SentAreFrames, FrameFields
  <2>3. /\ r[i].id = q[i].id /\ r[i].ses = q[i].ses /\ r[i].era = q[i].era
        /\ r[i].pts = q[i].pts - zero
    BY <1>0, <1>2, <2>1, RebasedFields
  <2>4. i <= n /\ ~(i <= 0)
    BY <1>0
  <2>5. Real(r, n, zero, i) = r[i].pts + zero /\ Real(q, 0, 0, i) = q[i].pts
    BY <2>4 DEF Real
  <2> QED BY <1>2, <2>2, <2>3, <2>5
<1>4. ASSUME NEW i \in 1 .. Len(r)
      PROVE  /\ r[i].era = e /\ r[i].ses >= ses
             /\ r[i].ses = ses => Real(r, n, zero, i) >= zero
  <2>1. i \in 1 .. Len(q) /\ (i = 1 \/ 1 < i)
    BY <1>0
  <2>2. q[i].era = e
    BY <2>1 DEF Orderly
  <2>3. q[1].ses <= q[i].ses /\ (q[1].ses = q[i].ses => Real(q, 0, 0, 1) <= Real(q, 0, 0, i))
    <3>1. CASE i = 1
      BY <1>1, <1>3, <3>1
    <3>2. CASE 1 < i
      <4>1. q[1].ses <= q[i].ses /\ (q[1].ses = q[i].ses => Real(q, 0, 0, 1) < Real(q, 0, 0, i))
        BY <1>1, <2>1, <3>2 DEF Orderly
      <4> QED BY <1>1, <1>3, <2>1, <4>1
    <3> QED BY <2>1, <3>1, <3>2
  <2>4. Real(q, 0, 0, 1) = zero
    BY <1>0, <1>1, <1>3
  <2>5. r[i].ses = q[i].ses /\ Real(r, n, zero, i) = Real(q, 0, 0, i) /\ r[i].era = q[i].era
        /\ q[i].ses \in Int /\ q[1].ses \in Int /\ Real(q, 0, 0, i) \in Int
    BY <1>1, <1>3, <2>1
  <2> QED BY <1>2, <2>2, <2>3, <2>4, <2>5
<1>5. ASSUME NEW i \in 1 .. Len(r), NEW j \in 1 .. Len(r), i < j
      PROVE  /\ r[j].id = r[i].id + (j - i)
             /\ r[i].ses <= r[j].ses
             /\ r[i].ses = r[j].ses => Real(r, n, zero, i) < Real(r, n, zero, j)
  <2>1. i \in 1 .. Len(q) /\ j \in 1 .. Len(q)
    BY <1>0
  <2>2. /\ q[j].id = q[i].id + (j - i)
        /\ q[i].ses <= q[j].ses
        /\ q[i].ses = q[j].ses => Real(q, 0, 0, i) < Real(q, 0, 0, j)
    BY <1>5, <2>1 DEF Orderly
  <2> QED BY <1>3, <2>1, <2>2
<1>6. Orderly(r, n, zero, ses, e)
  BY <1>4, <1>5 DEF Orderly
<1>7. Current(r, n, zero, count, s)
  <2>1. Len(q) \in 1 .. Len(q)
    BY <1>0
  <2>2. /\ q[Len(q)].id = count
        /\ q[Len(q)].ses <= s.num
        /\ q[Len(q)].ses = s.num => Real(q, 0, 0, Len(q)) < s.pts
    BY <1>0 DEF Current
  <2> QED BY <1>0, <1>3, <2>1, <2>2 DEF Current
<1> QED BY <1>0, <1>6, <1>7

(* A run whose other parts are empty is its second part.                   *)
LEMMA OnlySecond ==
  ASSUME NEW q, NEW b, NEW n, Joined(q, <<>>, b, <<>>, <<>>), Counts(n, <<>>, b, <<>>), IsRun(b)
  PROVE  q = b /\ n = Len(b)
<1>1. Len(<<>>) = 0 /\ b \in Seq(Frames) /\ q \in Seq(Frames) /\ Len(b) \in Nat
  BY DEF Joined, IsRun
<1>2. n = Len(b) /\ Len(q) = Len(b)
  BY <1>1 DEF Counts, Joined
<1>3. \A i \in 1 .. Len(b) : q[Len(<<>>) + i] = b[i]
  BY DEF Joined
<1>4. \A i \in 1 .. Len(b) : q[i] = b[i]
  BY <1>1, <1>3
<1>5. q = b
  BY <1>1, <1>2, <1>4, SeqEqual
<1> QED BY <1>2, <1>5

LEMMA NewViewerInHand ==
  ASSUME LiveTypes, RingInOrder, era # 0, ring # <<>>
  PROVE  InHand(NewViewer(ring, era, params))
<1> DEFINE y == NewViewer(ring, era, params)
           o == [i \in DOMAIN ring |-> Rebased(ring[i], ring[1].pts)]
           z == ring[1].pts
           c == ring[1].ses
<1>1. ring \in Seq(Sent) /\ Len(ring) \in Nat /\ Len(ring) > 0 /\ Len(ring) <= RingMax
      /\ era \in Nat /\ params \in Nat
  BY EmptySeq, LiveAssumption DEF LiveTypes, SessionStates
<1>2. ring[1] \in Sent /\ z \in 0 .. MaxFrames /\ c \in Nat
  <2>1. ring[1] \in Sent
    BY <1>1
  <2>2. \A f \in Sent : f.pts \in 0 .. MaxFrames /\ f.ses \in Nat
    BY LiveAssumption DEF Sent
  <2> QED BY <2>1, <2>2
<1>3. \A i \in 1 .. Len(ring) : Rebased(ring[i], z) \in Frames
  BY <1>1, <1>2, RebasedFields
<1>4. o \in Seq(Frames) /\ Len(o) = Len(ring) /\ \A i \in 1 .. Len(ring) : o[i] = Rebased(ring[i], z)
  BY <1>1, <1>3
<1>5. y = [NoViewer EXCEPT !.pc = "watching", !.reg = TRUE, !.outClosed = FALSE,
                           !.zero = z, !.era = era, !.params = params, !.ses = c, !.out = o]
  BY DEF NewViewer
<1> HIDE DEF o, z, c, y
<1>6. 0 \in 0 .. VideoClock /\ <<>> \in Seq(Sent) /\ <<>> \in Seq(Frames)
  BY LiveAssumption
<1>7. /\ y \in ViewerStates /\ y.out = o /\ y.zero = z /\ y.ses = c /\ y.era = era
      /\ y.pc = "watching" /\ ~y.closed
      /\ y.raw = <<>> /\ y.held = <<>> /\ y.last = <<>>
  BY <1>1, <1>2, <1>4, <1>5, <1>6 DEF ViewerStates, NoViewer
<1>8. /\ Joined(InFlight(y), <<>>, o, <<>>, <<>>) /\ Counts(Len(RebasedPart(y)), <<>>, o, <<>>)
      /\ IsRun(o)
  BY <1>7, Buffers
<1>9. InFlight(y) = o /\ Len(RebasedPart(y)) = Len(o)
  BY <1>8, OnlySecond
<1>10. Copied(ring, o, z)
  BY <1>1, <1>4 DEF Copied, z
<1>11. Orderly(ring, 0, 0, 0, era) /\ Current(ring, 0, 0, offered, session)
  BY DEF RingInOrder
<1>12. Orderly(o, Len(o), z, c, era) /\ Current(o, Len(o), z, offered, session) /\ Len(o) > 0
  BY <1>10, <1>11, CopyOrderly DEF c
<1>13. InOrderFor(y) /\ UpToDate(y, era, offered, session)
  BY <1>7, <1>9, <1>12 DEF InOrderFor, UpToDate
<1>14. WithinBuffers(y)
  <2>1. Len(<<>>) = 0 /\ Len(o) = Len(ring)
    BY <1>4
  <2>2. 0 <= ChanBuf /\ Len(ring) <= ChanBuf
    BY <1>1, LiveAssumption
  <2>3. Len(o) <= ChanBuf /\ Len(<<>>) <= ChanBuf /\ Len(<<>>) <= 1
    BY <2>1, <2>2
  <2> QED BY <1>7, <2>3 DEF WithinBuffers
<1> QED BY <1>7, <1>13, <1>14 DEF InHand, WellKept, y

----------------------------------------------------------------------------
(* The live hub: the invariant holds.                                      *)

LEMMA LiveInitially == LiveInit => LiveInv
<1> SUFFICES ASSUME LiveInit PROVE LiveInv
  OBVIOUS
<1>1. 0 \in 0 .. VideoClock /\ 0 \in 0 .. MaxFrames /\ 0 \in 0 .. MaxSessions
  BY LiveAssumption
<1>2. NoViewer \in ViewerStates
  <2>1. <<>> \in Seq(Sent) /\ <<>> \in Seq(Frames)
    OBVIOUS
  <2> QED BY <1>1, <2>1 DEF NoViewer, ViewerStates
<1>3. Len(<<>>) = 0 /\ <<>> \in Seq(Frames) /\ <<>> \in Seq(Sent)
  OBVIOUS
<1>4. \A n, zero, ses, e : Orderly(<<>>, n, zero, ses, e)
  BY <1>3 DEF Orderly
<1>5. InFlight(NoViewer) = <<>>
  <2>1. <<>> \o <<>> = <<>>
    OBVIOUS
  <2> QED BY <2>1 DEF InFlight, NoViewer
<1>6. WellKept(NoViewer)
  <2>1. 0 <= ChanBuf
    BY LiveAssumption
  <2>2. WithinBuffers(NoViewer)
    BY <1>3, <2>1 DEF WithinBuffers, NoViewer
  <2>3. InOrderFor(NoViewer)
    BY <1>4, <1>5 DEF InOrderFor
  <2> QED BY <1>2, <2>2, <2>3 DEF WellKept
<1>7. UpToDate(NoViewer, era, offered, session)
  BY DEF UpToDate, NoViewer
<1>8. \A v \in Viewers : viewer[v] = NoViewer
  BY DEF LiveInit
<1>9. viewer \in [Viewers -> ViewerStates]
  BY <1>2 DEF LiveInit
<1>10. LiveTypes
  <2>1. 0 <= RingMax
    BY LiveAssumption
  <2>2. /\ session \in SessionStates
        /\ offered = 0 /\ era = 0 /\ params = 0 /\ begun = 0 /\ ring = <<>>
        /\ session.num = 0 /\ session.pts = 0
    BY <1>1 DEF LiveInit, SessionStates
  <2>3. 0 \in 0 .. 0 /\ 0 <= 0
    OBVIOUS
  <2> QED BY <1>1, <1>3, <1>9, <2>1, <2>2, <2>3 DEF LiveTypes
<1>11. RingInOrder
  <2>1. ring = <<>>
    BY DEF LiveInit
  <2>2. \A n, zero, count, s : Current(<<>>, n, zero, count, s)
    BY <1>3 DEF Current
  <2>3. \A i \in 1 .. Len(<<>>) : FALSE
    BY <1>3
  <2> QED BY <1>4, <2>1, <2>2, <2>3 DEF RingInOrder
<1> QED BY <1>6, <1>7, <1>8, <1>10, <1>11 DEF LiveInv, InHand

(* A session clock that stands still, or a new session's.                  *)
LaterSession(s, t) ==
    /\ s.num \in Int /\ t.num \in Int
    /\ (t.num = s.num /\ t.pts = s.pts) \/ t.num > s.num

LEMMA CurrentLater ==
  ASSUME NEW q, NEW n, NEW zero, NEW count, NEW s, NEW t,
         IsRun(q), Current(q, n, zero, count, s), LaterSession(s, t)
  PROVE  Current(q, n, zero, count, t)
<1> SUFFICES ASSUME Len(q) > 0
             PROVE  /\ q[Len(q)].id = count
                    /\ q[Len(q)].ses <= t.num
                    /\ q[Len(q)].ses = t.num => Real(q, n, zero, Len(q)) < t.pts
  BY DEF Current
<1>1. /\ q[Len(q)].id = count
      /\ q[Len(q)].ses <= s.num
      /\ q[Len(q)].ses = s.num => Real(q, n, zero, Len(q)) < s.pts
  BY DEF Current
<1>2. q[Len(q)] \in Frames
  BY DEF IsRun
<1>3. q[Len(q)].ses \in Int
  BY <1>2, FrameFields
<1> QED BY <1>1, <1>3 DEF LaterSession

LEMMA UpToDateLater ==
  ASSUME NEW x, InHand(x), NEW t, LaterSession(session, t)
  PROVE  UpToDate(x, era, offered, t)
<1>1. IsRun(InFlight(x))
  <2>1. x \in ViewerStates
    BY DEF InHand, WellKept
  <2>2. Joined(InFlight(x), x.last, x.out, x.held, x.raw)
    BY <2>1, Buffers
  <2> QED BY <2>2 DEF Joined, IsRun
<1>2. ASSUME Current(InFlight(x), Len(RebasedPart(x)), x.zero, offered, session)
      PROVE  Current(InFlight(x), Len(RebasedPart(x)), x.zero, offered, t)
  BY <1>1, <1>2, CurrentLater
<1> QED BY <1>2 DEF InHand, UpToDate

(* A step that only moves the session on.                                  *)
LEMMA SessionMoves ==
  ASSUME LiveInv, LaterSession(session, session'),
         session' \in SessionStates,
         session'.pts <= offered, session'.num >= session.num,
         params' \in {params, 0, session.num},
         UNCHANGED <<offered, era, begun, ring, viewer>>
  PROVE  LiveInv'
<1>1. LiveTypes'
  <2>1. era \in 0 .. session'.num /\ params' \in 0 .. session'.num
    BY LiveAssumption DEF LiveInv, LiveTypes, SessionStates
  <2> QED BY <2>1 DEF LiveInv, LiveTypes
<1>2. RingInOrder'
  <2>1. ring \in Seq(Frames)
    BY SentAreFrames DEF LiveInv, LiveTypes
  <2>2. Current(ring, 0, 0, offered, session')
    BY <2>1, CurrentLater DEF LiveInv, RingInOrder, IsRun
  <2> QED BY <2>2 DEF LiveInv, RingInOrder
<1>3. ASSUME NEW v \in Viewers PROVE InHand(viewer[v])'
  <2>1. InHand(viewer[v])
    BY DEF LiveInv
  <2>2. UpToDate(viewer[v], era, offered, session')
    BY <2>1, UpToDateLater
  <2> QED BY <2>1, <2>2 DEF InHand
<1> QED BY <1>1, <1>2, <1>3 DEF LiveInv

LEMMA LivePlayKeeps == LiveInv /\ LivePlay => LiveInv'
<1> SUFFICES ASSUME LiveInv, LivePlay PROVE LiveInv'
  OBVIOUS
<1>1. /\ session.num \in 0 .. MaxSessions /\ session.num < MaxSessions /\ offered \in 0 .. MaxFrames
      /\ MaxSessions \in Nat /\ MaxFrames \in Nat
  BY LiveAssumption DEF LiveInv, LiveTypes, LivePlay, SessionStates
<1>2. session'.num = session.num + 1 /\ session'.pts = 0 /\ session'.pc = "playing"
      /\ session' = [num |-> session.num + 1, pc |-> "playing", pts |-> 0,
                      known |-> session.num + 1 \notin InBand]
  BY DEF LivePlay
<1>3. LaterSession(session, session') /\ session'.pts <= offered /\ session'.num >= session.num
  BY <1>1, <1>2 DEF LaterSession
<1>4. session.num + 1 \in 0 .. MaxSessions /\ 0 \in 0 .. MaxFrames
  BY <1>1
<1>5. session' \in SessionStates
  BY <1>2, <1>4 DEF SessionStates
<1> QED BY <1>3, <1>5, SessionMoves DEF LivePlay

LEMMA LiveSessionEndsKeeps == LiveInv /\ LiveSessionEnds => LiveInv'
<1> SUFFICES ASSUME LiveInv, LiveSessionEnds PROVE LiveInv'
  OBVIOUS
<1>1. session' = [session EXCEPT !.pc = "down"] /\ UNCHANGED <<offered, era, params, begun, ring, viewer>>
  BY DEF LiveSessionEnds
<1>2. session \in SessionStates
      /\ session.pts <= offered
  BY DEF LiveInv, LiveTypes
<1>3. session' \in SessionStates
      /\ session'.num = session.num /\ session'.pts = session.pts
  BY <1>1, <1>2 DEF SessionStates
<1>4. session.num \in Int
  BY <1>2, LiveAssumption DEF SessionStates
<1>5. LaterSession(session, session') /\ session'.pts <= offered /\ session'.num >= session.num
  BY <1>2, <1>3, <1>4 DEF LaterSession
<1> QED BY <1>1, <1>3, <1>5, SessionMoves

LEMMA SetParamsKeeps == LiveInv /\ SetParams => LiveInv'
<1> SUFFICES ASSUME LiveInv, SetParams PROVE LiveInv'
  OBVIOUS
<1>1. /\ session' = [session EXCEPT !.known = TRUE] /\ params' \in {0, session.num}
      /\ UNCHANGED <<offered, era, begun, ring, viewer>>
  BY DEF SetParams
<1>2. session \in SessionStates /\ session.pts <= offered
  BY DEF LiveInv, LiveTypes
<1>3. session' \in SessionStates /\ session'.num = session.num /\ session'.pts = session.pts
  BY <1>1, <1>2 DEF SessionStates
<1>4. session.num \in Int
  BY <1>2, LiveAssumption DEF SessionStates
<1>5. LaterSession(session, session') /\ session'.pts <= offered /\ session'.num >= session.num
  BY <1>2, <1>3, <1>4 DEF LaterSession
<1> QED BY <1>1, <1>3, <1>5, SessionMoves

LEMMA BeginKeepsViewers == LiveInv /\ Begin => LiveInv'
<1> SUFFICES ASSUME LiveInv, Begin PROVE LiveInv'
  OBVIOUS
<1>1. /\ session' = [session EXCEPT !.pc = "live"] /\ era' = session.num /\ ring' = <<>>
      /\ viewer' = [v \in Viewers |-> IF viewer[v].reg THEN Kicked(viewer[v]) ELSE viewer[v]]
      /\ offered' = offered /\ begun' = offered /\ params' \in {0, session.num}
  BY DEF Begin, SetsAtBegin
<1>2. /\ session \in SessionStates
      /\ session.pts <= offered /\ offered \in 0 .. MaxFrames
  BY DEF LiveInv, LiveTypes
<1>3. /\ session' \in SessionStates
      /\ session'.num = session.num /\ session'.pts = session.pts
  BY <1>1, <1>2 DEF SessionStates
<1>4. ASSUME NEW v \in Viewers
      PROVE  WellKept(viewer'[v]) /\ ~viewer'[v].reg /\ viewer'[v] \in ViewerStates
  <2>1. WellKept(viewer[v])
    BY DEF LiveInv, InHand
  <2>2. WellKept(Kicked(viewer[v])) /\ ~Kicked(viewer[v]).reg
    BY <2>1, KickedKept
  <2>3. viewer'[v] = IF viewer[v].reg THEN Kicked(viewer[v]) ELSE viewer[v]
    BY <1>1
  <2>4. WellKept(viewer'[v]) /\ ~viewer'[v].reg
    BY <2>1, <2>2, <2>3
  <2> QED BY <2>4 DEF WellKept
<1>5. LiveTypes'
  <2>1. /\ session.num \in 0 .. session.num /\ 0 \in 0 .. session.num /\ 0 <= RingMax
        /\ offered \in 0 .. offered
    BY <1>2, LiveAssumption DEF SessionStates
  <2>2. viewer' \in [Viewers -> ViewerStates]
    BY <1>1, <1>4
  <2>3. <<>> \in Seq(Sent) /\ Len(<<>>) = 0
    OBVIOUS
  <2> QED BY <1>1, <1>2, <1>3, <2>1, <2>2, <2>3 DEF LiveTypes
<1>6. RingInOrder'
  <2>1. Len(<<>>) = 0
    OBVIOUS
  <2>2. \A i \in 1 .. Len(<<>>) : FALSE
    BY <2>1
  <2>3. \A e, count, s : Orderly(<<>>, 0, 0, 0, e) /\ Current(<<>>, 0, 0, count, s)
    BY <2>1 DEF Orderly, Current
  <2> QED BY <1>1, <2>2, <2>3 DEF RingInOrder
<1>7. ASSUME NEW v \in Viewers PROVE InHand(viewer[v])'
  BY <1>4 DEF InHand, UpToDate
<1> QED BY <1>5, <1>6, <1>7 DEF LiveInv

LEMMA OfferKeeps ==
  ASSUME LiveInv, NEW key \in BOOLEAN, Offer(key)
  PROVE  LiveInv'
<1> DEFINE f == [id |-> offered + 1, ses |-> session.num, pts |-> session.pts, key |-> key, era |-> era]
<1>1. /\ session.pc \in {"playing", "live"} /\ era # 0 /\ offered < MaxFrames
      /\ ring' = NewRing(f) /\ viewer' = [v \in Viewers |-> Delivered(viewer[v], f)]
      /\ offered' = offered + 1 /\ session' = Advanced(session) /\ era' = era
      /\ UNCHANGED <<params, begun>>
  BY DEF Offer, Advanced
<1>2. /\ session \in SessionStates
      /\ session.pts <= offered /\ offered \in 0 .. MaxFrames /\ era \in 0 .. session.num
      /\ LiveTypes /\ RingInOrder /\ params \in 0 .. session.num /\ begun \in 0 .. offered
  BY DEF LiveInv, LiveTypes
<1>3. /\ offered + 1 \in 1 .. MaxFrames /\ offered + 1 \in 0 .. MaxFrames
      /\ session.num \in 1 .. MaxSessions /\ era \in 1 .. MaxSessions
      /\ session.pts \in 0 .. MaxFrames /\ session.pts + 1 \in 0 .. MaxFrames
      /\ session.pts + 1 <= offered + 1 /\ era <= session.num /\ begun \in 0 .. offered + 1
  BY <1>1, <1>2, LiveAssumption DEF SessionStates
<1>4. f \in Sent
  BY <1>3 DEF Sent
<1>5. IsNext(f)
  BY <1>4 DEF IsNext
<1> HIDE DEF f
<1>6. RingKept(NewRing(f), era, offered + 1, Advanced(session))
  BY <1>2, <1>5, NewRingKept
<1>7. ASSUME NEW v \in Viewers
      PROVE  /\ viewer'[v] \in ViewerStates /\ WellKept(viewer'[v])
             /\ UpToDate(viewer'[v], era, offered + 1, Advanced(session))
  <2>1. InHand(viewer[v])
    BY DEF LiveInv
  <2>2. /\ WellKept(Delivered(viewer[v], f))
        /\ UpToDate(Delivered(viewer[v], f), era, offered + 1, Advanced(session))
    BY <1>2, <1>5, <2>1, DeliveredKept
  <2>3. viewer'[v] = Delivered(viewer[v], f)
    BY <1>1
  <2> QED BY <2>2, <2>3 DEF WellKept
<1>8. session' \in SessionStates
      /\ session'.num = session.num /\ session'.pts = session.pts + 1
  BY <1>1, <1>2, <1>3 DEF Advanced, SessionStates
<1>9. LiveTypes'
  <2>1. viewer' \in [Viewers -> ViewerStates]
    BY <1>1, <1>7
  <2>2. ring' \in Seq(Sent) /\ Len(ring') <= RingMax
    BY <1>1, <1>6 DEF RingKept
  <2> QED BY <1>1, <1>2, <1>3, <1>8, <2>1, <2>2 DEF LiveTypes
<1>10. RingInOrder'
  BY <1>1, <1>6 DEF RingInOrder, RingKept
<1>11. ASSUME NEW v \in Viewers PROVE InHand(viewer[v])'
  BY <1>1, <1>7 DEF InHand
<1> QED BY <1>9, <1>10, <1>11 DEF LiveInv

LEMMA OneViewer ==
  ASSUME LiveInv, NEW v \in Viewers, NEW y, InHand(y), SetViewer(v, y)
  PROVE  LiveInv'
<1>1. /\ viewer' = [viewer EXCEPT ![v] = y]
      /\ session' = session /\ offered' = offered /\ era' = era /\ ring' = ring
      /\ params' = params /\ begun' = begun
  BY DEF SetViewer
<1>2. y \in ViewerStates
  BY DEF InHand, WellKept
<1>3. viewer \in [Viewers -> ViewerStates] /\ LiveTypes /\ RingInOrder
  BY DEF LiveInv, LiveTypes
<1>4. viewer' \in [Viewers -> ViewerStates]
  BY <1>1, <1>2, <1>3
<1>5. LiveTypes'
  BY <1>1, <1>3, <1>4 DEF LiveTypes
<1>6. RingInOrder'
  BY <1>1, <1>3 DEF RingInOrder
<1>7. ASSUME NEW w \in Viewers PROVE InHand(viewer[w])'
  <2>1. viewer'[w] = IF w = v THEN y ELSE viewer[w]
    BY <1>1, <1>3
  <2>2. InHand(viewer[w])
    BY DEF LiveInv
  <2>3. WellKept(viewer'[w]) /\ UpToDate(viewer'[w], era, offered, session)
    BY <2>1, <2>2 DEF InHand
  <2> QED BY <1>1, <2>3 DEF InHand
<1> QED BY <1>5, <1>6, <1>7 DEF LiveInv

LEMMA SubscribeKeeps ==
  ASSUME LiveInv, NEW v \in Viewers, Subscribe(v)
  PROVE  LiveInv'
<1>1. LiveTypes /\ RingInOrder
  BY DEF LiveInv
<1>2. era # 0 /\ ring # <<>> /\ SetViewer(v, NewViewer(ring, era, params))
  BY DEF Subscribe
<1>3. InHand(NewViewer(ring, era, params))
  BY <1>1, <1>2, NewViewerInHand
<1> QED BY <1>2, <1>3, OneViewer

LEMMA ForwardKeeps ==
  ASSUME LiveInv, NEW v \in Viewers, Forward(v)
  PROVE  LiveInv'
<1> DEFINE x == viewer[v]
<1>1. InHand(x)
  BY DEF LiveInv
<1>2. ASSUME ForwardTake(v) PROVE LiveInv'
  <2> DEFINE y == [x EXCEPT !.held = <<Rebased(Head(x.raw), x.zero)>>, !.raw = Tail(x.raw)]
  <2>1. x.held = <<>> /\ x.raw # <<>> /\ SetViewer(v, y)
    BY <1>2 DEF ForwardTake
  <2>2. InHand(y)
    BY <1>1, <2>1, Taken
  <2> QED BY <2>1, <2>2, OneViewer
<1>3. ASSUME ForwardPut(v) PROVE LiveInv'
  <2> DEFINE y == [x EXCEPT !.out = x.out \o x.held, !.held = <<>>]
  <2>1. Len(x.out) < ChanBuf /\ SetViewer(v, y)
    BY <1>3 DEF ForwardPut
  <2>2. InHand(y)
    BY <1>1, <2>1, Put
  <2> QED BY <2>1, <2>2, OneViewer
<1>4. ASSUME ForwardEnds(v) PROVE LiveInv'
  <2> DEFINE y == [x EXCEPT !.outClosed = TRUE]
  <2>1. x.closed /\ SetViewer(v, y)
    BY <1>4 DEF ForwardEnds
  <2>2. x \in ViewerStates /\ ~x.reg
    BY <1>1, <2>1 DEF InHand, WellKept, UpToDate
  <2>3. /\ y \in ViewerStates /\ ~y.reg
        /\ y.last = x.last /\ y.out = x.out /\ y.held = x.held /\ y.raw = x.raw
        /\ y.zero = x.zero /\ y.era = x.era /\ y.ses = x.ses
    BY <2>2 DEF ViewerStates
  <2> HIDE DEF y
  <2>4. InHand(y)
    BY <1>1, <2>3, SameBuffers
  <2> QED BY <2>1, <2>4, OneViewer
<1> QED BY <1>2, <1>3, <1>4 DEF Forward

(* The handler only changes its place, and leaves or was left by the hub.  *)
LEMMA PlaceKeeps ==
  ASSUME LiveInv, NEW v \in Viewers, NEW p \in {"watching", "cancel", "close", "left"},
         NEW g \in BOOLEAN, NEW c \in BOOLEAN,
         g => viewer[v].reg /\ ~c /\ p \in {"watching", "cancel"},
         SetViewer(v, [viewer[v] EXCEPT !.reg = g, !.closed = c, !.pc = p])
  PROVE  LiveInv'
<1> DEFINE x == viewer[v]
           y == [x EXCEPT !.reg = g, !.closed = c, !.pc = p]
<1>1. InHand(x) /\ x \in ViewerStates
  BY DEF LiveInv, InHand, WellKept
<1>2. /\ y \in ViewerStates /\ y.reg = g /\ y.closed = c /\ y.pc = p
      /\ y.last = x.last /\ y.out = x.out /\ y.held = x.held /\ y.raw = x.raw
      /\ y.zero = x.zero /\ y.era = x.era /\ y.ses = x.ses
  BY <1>1 DEF ViewerStates
<1>3. SetViewer(v, y)
  OBVIOUS
<1> HIDE DEF y
<1>4. InHand(y)
  BY <1>1, <1>2, SameBuffers
<1> QED BY <1>3, <1>4, OneViewer

LEMMA HandlerKeeps ==
  ASSUME LiveInv, NEW v \in Viewers, Handler(v) \/ Leave(v)
  PROVE  LiveInv'
<1> DEFINE x == viewer[v]
<1>1. InHand(x) /\ x \in ViewerStates
  BY DEF LiveInv, InHand, WellKept
<1>2. ASSUME WatchFrame(v) PROVE LiveInv'
  <2> DEFINE f == Head(x.out)
             d == SampleDuration(f.pts, LastPTS(x))
             y == [x EXCEPT !.out = Tail(x.out), !.last = <<f>>, !.dur = d]
  <2>1. x.out # <<>> /\ SetViewer(v, y)
    BY <1>2 DEF WatchFrame
  <2>2. f.pts \in Int /\ LastPTS(x) \in Int
    <3>1. x.out \in Seq(Frames) /\ x.last \in Seq(Frames)
      BY <1>1 DEF ViewerStates
    <3>2. f \in Frames /\ (x.last # <<>> => Head(x.last) \in Frames)
      BY <2>1, <3>1, HeadTailProperties
    <3> QED BY <3>2, FrameFields DEF LastPTS
  <2>3. \A p, q \in Int : SampleDuration(p, q) \in 0 .. VideoClock
    BY LiveAssumption DEF SampleDuration
  <2>4. d \in 0 .. VideoClock
    BY <2>2, <2>3
  <2> HIDE DEF d
  <2>5. InHand(y)
    BY <1>1, <2>1, <2>4, Watched
  <2> QED BY <2>1, <2>5, OneViewer
<1>3. /\ [x EXCEPT !.pc = "cancel"] = [x EXCEPT !.reg = x.reg, !.closed = x.closed, !.pc = "cancel"]
      /\ [x EXCEPT !.reg = FALSE, !.pc = "close"]
           = [x EXCEPT !.reg = FALSE, !.closed = x.closed, !.pc = "close"]
      /\ [x EXCEPT !.closed = TRUE, !.pc = "left"]
           = [x EXCEPT !.reg = x.reg, !.closed = TRUE, !.pc = "left"]
      /\ x.reg \in BOOLEAN /\ x.closed \in BOOLEAN
  BY <1>1 DEF ViewerStates
<1>4. x.reg => ~x.closed /\ x.pc \in {"watching", "cancel"}
  BY <1>1 DEF InHand, UpToDate
<1>5. ASSUME WatchClosed(v) \/ Leave(v) PROVE LiveInv'
  <2>1. SetViewer(v, [x EXCEPT !.reg = x.reg, !.closed = x.closed, !.pc = "cancel"])
    BY <1>3, <1>5 DEF WatchClosed, Leave
  <2> QED BY <1>3, <1>4, <2>1, PlaceKeeps
<1>6. ASSUME CancelDelete(v) PROVE LiveInv'
  <2>1. SetViewer(v, [x EXCEPT !.reg = FALSE, !.closed = x.closed, !.pc = "close"])
    BY <1>3, <1>6 DEF CancelDelete
  <2> QED BY <1>3, <2>1, PlaceKeeps
<1>7. ASSUME CancelClose(v) PROVE LiveInv'
  <2>1. x.pc = "close" /\ SetViewer(v, [x EXCEPT !.reg = x.reg, !.closed = TRUE, !.pc = "left"])
    BY <1>3, <1>7 DEF CancelClose
  <2>2. ~x.reg
    BY <1>4, <2>1
  <2> QED BY <1>3, <2>1, <2>2, PlaceKeeps
<1> QED BY <1>2, <1>5, <1>6, <1>7 DEF Handler

LEMMA LiveSteps == LiveInv /\ [LiveNext]_liveVars => LiveInv'
<1> SUFFICES ASSUME LiveInv, [LiveNext]_liveVars PROVE LiveInv'
  OBVIOUS
<1>1. CASE LivePlay
  BY <1>1, LivePlayKeeps
<1>2. CASE Begin
  BY <1>2, BeginKeepsViewers
<1>3. CASE LiveSessionEnds \/ SetParams
  BY <1>3, LiveSessionEndsKeeps, SetParamsKeeps
<1>4. CASE \E key \in BOOLEAN : Offer(key)
  BY <1>4, OfferKeeps
<1>5. CASE \E v \in Viewers : Subscribe(v) \/ Forward(v) \/ Handler(v) \/ Leave(v)
  BY <1>5, SubscribeKeeps, ForwardKeeps, HandlerKeeps
<1>6. CASE UNCHANGED liveVars
  BY <1>6 DEF liveVars, LiveInv, LiveTypes, RingInOrder, InHand
<1> QED BY <1>1, <1>2, <1>3, <1>4, <1>5, <1>6 DEF LiveNext

(* The parameter sets in force, and those each viewer was given.           *)
SetsInv ==
    /\ params \in SetsUnder(era)
    /\ \A v \in Viewers : viewer[v].params \in SetsUnder(viewer[v].era)
    /\ ~session.known => session.num \in InBand

(* The ring starts with a key frame, with the first frame after Begin, or  *)
(* it is full; it is empty only as long as nothing came after Begin.       *)
Start(q, count) ==
    /\ q # <<>> => q[1].key \/ q[1].id = begun + 1 \/ Len(q) = RingMax
    /\ q = <<>> /\ era # 0 => count = begun
StartInv == Start(ring, offered)

LEMMA SetsInitially == LiveInit => SetsInv /\ StartInv
BY DEF LiveInit, SetsInv, StartInv, Start, SetsUnder, NoViewer

(* A step of a viewer that keeps its sets.                                 *)
LEMMA ViewerKeepsSets ==
  ASSUME LiveInv, SetsInv, NEW v \in Viewers, NEW y, SetViewer(v, y),
         y.params \in SetsUnder(y.era)
  PROVE  SetsInv'
<1>1. /\ viewer' = [viewer EXCEPT ![v] = y] /\ viewer \in [Viewers -> ViewerStates]
      /\ params' = params /\ era' = era /\ session' = session
  BY DEF SetViewer, LiveInv, LiveTypes
<1>2. \A w \in Viewers : viewer'[w] = IF w = v THEN y ELSE viewer[w]
  BY <1>1
<1>3. \A w \in Viewers : viewer'[w].params \in SetsUnder(viewer'[w].era)
  BY <1>2 DEF SetsInv
<1>4. params' \in SetsUnder(era')
  BY <1>1 DEF SetsInv
<1> QED BY <1>1, <1>3, <1>4 DEF SetsInv, SetsUnder

LEMMA SetsKept ==
  ASSUME LiveInv, SetsInv, [LiveNext]_liveVars
  PROVE  SetsInv'
<1>1. /\ viewer \in [Viewers -> ViewerStates] /\ session \in SessionStates
      /\ era \in 0 .. session.num /\ session.num \in Nat
  BY LiveAssumption DEF LiveInv, LiveTypes, SessionStates
<1>2. /\ params \in SetsUnder(era)
      /\ \A v \in Viewers : viewer[v].params \in SetsUnder(viewer[v].era)
  BY DEF SetsInv
<1>9. ASSUME ~session'.known, LivePlay \/ Begin \/ SetParams \/ LiveSessionEnds
                               \/ (\E key \in BOOLEAN : Offer(key)) \/ UNCHANGED liveVars
      PROVE  session'.num \in InBand
  <2>1. CASE LivePlay
    BY <1>9, <2>1 DEF LivePlay
  <2>2. CASE Begin \/ SetParams \/ LiveSessionEnds \/ (\E key \in BOOLEAN : Offer(key))
             \/ UNCHANGED liveVars
    <3>1. session'.num = session.num /\ (session'.known = session.known \/ session'.known)
      BY <1>1, <2>2 DEF Begin, SetParams, LiveSessionEnds, Offer, liveVars, SessionStates
    <3> QED BY <1>9, <3>1 DEF SetsInv
  <2> QED BY <1>9, <2>1, <2>2
<1>3. CASE LivePlay \/ LiveSessionEnds \/ UNCHANGED liveVars
  <2>1. UNCHANGED <<params, era, viewer>>
    BY <1>3 DEF LivePlay, LiveSessionEnds, liveVars
  <2> QED BY <1>2, <1>3, <1>9, <2>1 DEF SetsInv, SetsUnder
<1>4. CASE Begin
  <2>1. params' \in SetsUnder(era')
    BY <1>4 DEF Begin, SetsAtBegin, SetsUnder
  <2>2. ASSUME NEW v \in Viewers
        PROVE  viewer'[v].params = viewer[v].params /\ viewer'[v].era = viewer[v].era
    <3>1. viewer[v] \in ViewerStates
      BY <1>1
    <3>2. viewer'[v] = IF viewer[v].reg THEN Kicked(viewer[v]) ELSE viewer[v]
      BY <1>4 DEF Begin
    <3> QED BY <3>1, <3>2 DEF Kicked, ViewerStates
  <2>3. \A v \in Viewers : viewer'[v].params \in SetsUnder(viewer'[v].era)
    BY <1>2, <2>2
  <2> QED BY <1>4, <1>9, <2>1, <2>3 DEF SetsInv, SetsUnder
<1>5. CASE SetParams
  <2>1. params' \in SetsUnder(era)
    <3>1. CASE era = 0
      BY <1>5, <3>1 DEF SetParams, SetsUnder
    <3>2. CASE era # 0 /\ session.num = era
      BY <1>5, <3>2 DEF SetParams, SetsUnder
    <3>3. CASE era # 0 /\ session.num > era
      <4>1. session.num \in InBand
        BY <1>5 DEF SetParams, SetsInv
      <4> QED BY <1>5, <3>3, <4>1 DEF SetParams, SetsUnder
    <3> QED BY <1>1, <3>1, <3>2, <3>3
  <2>2. UNCHANGED <<era, viewer>>
    BY <1>5 DEF SetParams
  <2> QED BY <1>2, <1>5, <1>9, <2>1, <2>2 DEF SetsInv, SetsUnder
<1>6. CASE \E key \in BOOLEAN : Offer(key)
  <2>1. PICK f : viewer' = [v \in Viewers |-> Delivered(viewer[v], f)]
                 /\ UNCHANGED <<era, params>>
    BY <1>6 DEF Offer
  <2>2. ASSUME NEW v \in Viewers
        PROVE  viewer'[v].params = viewer[v].params /\ viewer'[v].era = viewer[v].era
    <3>1. viewer[v] \in ViewerStates /\ viewer'[v] = Delivered(viewer[v], f)
      BY <1>1, <2>1
    <3> QED BY <3>1 DEF Delivered, Kicked, ViewerStates
  <2>3. \A v \in Viewers : viewer'[v].params \in SetsUnder(viewer'[v].era)
    BY <1>2, <2>2
  <2> QED BY <1>2, <1>6, <1>9, <2>1, <2>3 DEF SetsInv, SetsUnder
<1>7. ASSUME NEW v \in Viewers, Subscribe(v) PROVE SetsInv'
  <2> DEFINE y == NewViewer(ring, era, params)
  <2>1. SetViewer(v, y)
    BY <1>7 DEF Subscribe
  <2>2. y.params = params /\ y.era = era
    BY DEF NewViewer, NoViewer
  <2> HIDE DEF y
  <2> QED BY <1>2, <2>1, <2>2, ViewerKeepsSets
<1>8. ASSUME NEW v \in Viewers, Forward(v) \/ Handler(v) \/ Leave(v) PROVE SetsInv'
  <2> DEFINE x == viewer[v]
             Same(y) == y.params = x.params /\ y.era = x.era
  <2>1. x \in ViewerStates
    BY <1>1
  <2>2. ASSUME NEW y, SetViewer(v, y), Same(y) PROVE SetsInv'
    BY <1>2, <2>2, ViewerKeepsSets
  <2>3. CASE ForwardTake(v)
    <3> DEFINE y == [x EXCEPT !.held = <<Rebased(Head(x.raw), x.zero)>>, !.raw = Tail(@)]
    <3>1. SetViewer(v, y) /\ Same(y)
      BY <2>1, <2>3 DEF ForwardTake, ViewerStates
    <3> QED BY <2>2, <3>1
  <2>4. CASE ForwardPut(v)
    <3> DEFINE y == [x EXCEPT !.out = @ \o x.held, !.held = <<>>]
    <3>1. SetViewer(v, y) /\ Same(y)
      BY <2>1, <2>4 DEF ForwardPut, ViewerStates
    <3> QED BY <2>2, <3>1
  <2>5. CASE ForwardEnds(v)
    <3> DEFINE y == [x EXCEPT !.outClosed = TRUE]
    <3>1. SetViewer(v, y) /\ Same(y)
      BY <2>1, <2>5 DEF ForwardEnds, ViewerStates
    <3> QED BY <2>2, <3>1
  <2>6. CASE WatchFrame(v)
    <3> DEFINE y == [x EXCEPT !.out = Tail(@), !.last = <<Head(x.out)>>,
                              !.dur = SampleDuration(Head(x.out).pts, LastPTS(x))]
    <3>1. SetViewer(v, y) /\ Same(y)
      BY <2>1, <2>6 DEF WatchFrame, ViewerStates
    <3> QED BY <2>2, <3>1
  <2>7. CASE WatchClosed(v) \/ Leave(v)
    <3> DEFINE y == [x EXCEPT !.pc = "cancel"]
    <3>1. SetViewer(v, y) /\ Same(y)
      BY <2>1, <2>7 DEF WatchClosed, Leave, ViewerStates
    <3> QED BY <2>2, <3>1
  <2>8. CASE CancelDelete(v)
    <3> DEFINE y == [x EXCEPT !.reg = FALSE, !.pc = "close"]
    <3>1. SetViewer(v, y) /\ Same(y)
      BY <2>1, <2>8 DEF CancelDelete, ViewerStates
    <3> QED BY <2>2, <3>1
  <2>9. CASE CancelClose(v)
    <3> DEFINE y == [x EXCEPT !.closed = TRUE, !.pc = "left"]
    <3>1. SetViewer(v, y) /\ Same(y)
      BY <2>1, <2>9 DEF CancelClose, ViewerStates
    <3> QED BY <2>2, <3>1
  <2> QED BY <1>8, <2>3, <2>4, <2>5, <2>6, <2>7, <2>8, <2>9 DEF Forward, Handler
<1> QED BY <1>3, <1>4, <1>5, <1>6, <1>7, <1>8 DEF LiveNext

LEMMA StartKept ==
  ASSUME LiveInv, StartInv, [LiveNext]_liveVars
  PROVE  StartInv'
<1>1. ring \in Seq(Sent) /\ Len(ring) <= RingMax /\ RingMax \in Nat /\ RingMax >= 1
  BY LiveAssumption DEF LiveInv, LiveTypes
<1>2. CASE Begin
  BY <1>2 DEF Begin, StartInv, Start
<1>3. CASE \E key \in BOOLEAN : Offer(key)
  <2>1. PICK f : /\ ring' = NewRing(f) /\ f.id = offered + 1 /\ era # 0
                 /\ offered' = offered + 1 /\ UNCHANGED <<era, begun>>
    BY <1>3 DEF Offer
  <2>2. CASE f.key
    <3>1. Len(<<f>>) = 1 /\ <<f>> # <<>> /\ <<f>>[1] = f /\ ~(Len(<<f>>) > RingMax)
      BY <1>1
    <3>2. NewRing(f) = <<f>>
      BY <2>2, <3>1 DEF NewRing
    <3> QED BY <2>1, <2>2, <3>1, <3>2 DEF StartInv, Start
  <2>3. CASE ~f.key
    <3> DEFINE q == Append(ring, f)
    <3>1. /\ Len(q) = Len(ring) + 1 /\ q # <<>> /\ Len(ring) \in Nat
          /\ ring = <<>> => q[1] = f
          /\ ring # <<>> => q[1] = ring[1]
      BY <1>1
    <3>2. NewRing(f) = IF Len(q) > RingMax THEN Tail(q) ELSE q
      BY <2>3 DEF NewRing
    <3>3. Len(q) > RingMax => Len(Tail(q)) = RingMax
      BY <1>1, <3>1
    <3> HIDE DEF q
    <3>4. CASE Len(q) > RingMax
      <4> DEFINE s == Tail(q)
      <4>1. Len(s) = RingMax /\ Len(<<>>) = 0 /\ RingMax # 0
        BY <1>1, <3>3, <3>4
      <4> HIDE DEF s
      <4>2. Len(s) = RingMax /\ s # <<>>
        BY <4>1
      <4>3. NewRing(f) = s
        BY <3>2, <3>4 DEF s
      <4> QED BY <2>1, <4>2, <4>3 DEF StartInv, Start
    <3>5. CASE ~(Len(q) > RingMax) /\ ring = <<>>
      <4>1. q[1].id = begun + 1
        BY <2>1, <3>1, <3>5 DEF StartInv, Start
      <4> QED BY <2>1, <3>1, <3>2, <3>5, <4>1 DEF StartInv, Start
    <3>6. CASE ~(Len(q) > RingMax) /\ ring # <<>>
      <4>1. Len(ring) # RingMax
        BY <1>1, <3>1, <3>6
      <4>2. q[1].key \/ q[1].id = begun + 1
        BY <3>1, <3>6, <4>1 DEF StartInv, Start
      <4> QED BY <2>1, <3>1, <3>2, <3>6, <4>2 DEF StartInv, Start
    <3> QED BY <3>4, <3>5, <3>6
  <2> QED BY <2>2, <2>3
<1>4. CASE UNCHANGED <<ring, offered, era, begun>>
  BY <1>4 DEF StartInv, Start
<1>5. CASE LivePlay \/ SetParams \/ LiveSessionEnds \/ UNCHANGED liveVars
  BY <1>4, <1>5 DEF LivePlay, SetParams, LiveSessionEnds, liveVars
<1>6. ASSUME NEW v \in Viewers, Subscribe(v) \/ Forward(v) \/ Handler(v) \/ Leave(v)
      PROVE  StartInv'
  BY <1>4, <1>6 DEF Subscribe, Forward, ForwardTake, ForwardPut, ForwardEnds, Handler, WatchFrame,
                    WatchClosed, CancelDelete, CancelClose, Leave, SetViewer
<1> QED BY <1>2, <1>3, <1>5, <1>6 DEF LiveNext

LEMMA LiveInvariance == LiveSpec => [](LiveInv /\ SetsInv /\ StartInv)
<1>1. LiveInit => LiveInv /\ SetsInv /\ StartInv
  BY LiveInitially, SetsInitially
<1>2. LiveInv /\ SetsInv /\ StartInv /\ [LiveNext]_liveVars => (LiveInv /\ SetsInv /\ StartInv)'
  BY LiveSteps, SetsKept, StartKept
<1> QED BY <1>1, <1>2, PTL DEF LiveSpec

----------------------------------------------------------------------------
(* The live hub: what the invariant says to a viewer.                      *)

LEMMA NoHoles ==
  ASSUME NEW x, InHand(x), LiveTypes
  PROVE  LET q == InFlight(x) IN
         /\ \A i \in 1 .. Len(q) - 1 : q[i + 1].id = q[i].id + 1
         /\ x.reg => q[Len(q)].id = offered
         /\ \A i \in DOMAIN q : q[i].era = x.era /\ q[i].ses >= x.era
<1> DEFINE q == InFlight(x)
           n == Len(RebasedPart(x))
<1>1. /\ Orderly(q, n, x.zero, x.ses, x.era)
      /\ x.reg => Len(q) > 0 /\ Current(q, n, x.zero, offered, session)
      /\ x \in ViewerStates
  BY DEF InHand, WellKept, InOrderFor, UpToDate
<1>2. Joined(q, x.last, x.out, x.held, x.raw)
  BY <1>1, Buffers
<1> HIDE DEF q, n
<1>3. q \in Seq(Frames) /\ Len(q) \in Nat /\ DOMAIN q = 1 .. Len(q)
  <2>1. q \in Seq(Frames)
    BY <1>2 DEF Joined
  <2> QED BY <2>1
<1>4. ASSUME NEW i \in 1 .. Len(q) - 1 PROVE q[i + 1].id = q[i].id + 1
  <2>1. i \in 1 .. Len(q) /\ i + 1 \in 1 .. Len(q) /\ i < i + 1 /\ (i + 1) - i = 1
    BY <1>3
  <2>2. q[i + 1].id = q[i].id + ((i + 1) - i)
    BY <1>1, <2>1 DEF Orderly
  <2> QED BY <2>1, <2>2
<1>5. x.reg => q[Len(q)].id = offered
  BY <1>1 DEF Current
<1>6. ASSUME NEW i \in DOMAIN q PROVE q[i].era = x.era /\ q[i].ses >= x.era
  <2>1. q[i].era = x.era /\ q[i] \in Frames
    BY <1>1, <1>3 DEF Orderly
  <2>2. q[i].era <= q[i].ses /\ q[i].era \in Int /\ q[i].ses \in Int
    BY <2>1, FrameFields DEF Frames
  <2> QED BY <2>1, <2>2
<1> QED BY <1>4, <1>5, <1>6 DEF q

LEMMA TimeAdvances ==
  ASSUME NEW x, InHand(x), NEW i \in DOMAIN RebasedPart(x), RebasedPart(x)[i].ses = x.ses
  PROVE  /\ RebasedPart(x)[i].pts >= 0
         /\ i > 1 => RebasedPart(x)[i].pts > RebasedPart(x)[i - 1].pts
<1> DEFINE p == RebasedPart(x)
           q == InFlight(x)
           n == Len(p)
<1>1. Orderly(q, n, x.zero, x.ses, x.era) /\ x \in ViewerStates
  BY DEF InHand, WellKept, InOrderFor
<1>2. /\ IsRun(x.last) /\ IsRun(x.out) /\ IsRun(x.held) /\ IsRun(x.raw) /\ x.zero \in Int
      /\ x.ses \in Int
  BY <1>1, Buffers
<1>3. IsRun(p)
  <2>1. IsRun(x.last \o x.out)
    BY <1>2, TwoParts
  <2> QED BY <1>2, <2>1, TwoParts DEF RebasedPart
<1>4. /\ q = p \o x.raw
  BY DEF InFlight, RebasedPart
<1>5. /\ IsRun(q) /\ Len(q) = n + Len(x.raw) /\ n \in Nat /\ Len(x.raw) \in Nat
      /\ \A j \in 1 .. n + Len(x.raw) : q[j] = IF j <= n THEN p[j] ELSE x.raw[j - n]
  BY <1>2, <1>3, <1>4, TwoParts
<1>6. DOMAIN p = 1 .. n
  BY <1>3 DEF IsRun
<1>7. i \in DOMAIN p /\ p[i].ses = x.ses
  OBVIOUS
<1> HIDE DEF p, q, n
<1>8. \A j \in 1 .. n : q[j] = p[j] /\ Real(q, n, x.zero, j) = p[j].pts + x.zero /\ j \in 1 .. Len(q)
  BY <1>5 DEF Real
<1>9. \A j \in 1 .. n : p[j].pts \in Int /\ p[j].ses \in Int
  BY <1>3, FrameFields DEF p, n, IsRun
<1>10. i \in 1 .. n
  BY <1>6, <1>7
<1>11. p[i].pts >= 0
  <2>1. q[i].ses = x.ses => Real(q, n, x.zero, i) >= x.zero
    BY <1>1, <1>8, <1>10 DEF Orderly
  <2>2. p[i].pts + x.zero >= x.zero
    BY <1>7, <1>8, <1>10, <2>1
  <2> QED BY <1>2, <1>9, <1>10, <2>2
<1>12. ASSUME i > 1 PROVE p[i].pts > p[i - 1].pts
  <2> DEFINE j == i - 1
  <2>1. j \in 1 .. n /\ j < i
    BY <1>5, <1>10, <1>12
  <2> HIDE DEF j
  <2>2. j \in 1 .. Len(q) /\ i \in 1 .. Len(q) /\ q[j] = p[j] /\ q[i] = p[i]
    BY <1>8, <1>10, <2>1
  <2>3. /\ q[j].ses <= q[i].ses /\ q[j].ses >= x.ses
        /\ q[j].ses = q[i].ses => Real(q, n, x.zero, j) < Real(q, n, x.zero, i)
    BY <1>1, <2>1, <2>2 DEF Orderly
  <2>4. p[j].ses = p[i].ses
    BY <1>2, <1>7, <1>9, <2>1, <2>2, <2>3
  <2>5. p[j].pts + x.zero < p[i].pts + x.zero
    BY <1>8, <1>10, <2>1, <2>2, <2>3, <2>4
  <2>6. p[j].pts < p[i].pts
    BY <1>2, <1>9, <1>10, <2>1, <2>5
  <2> QED BY <1>9, <1>10, <2>1, <2>6 DEF j
<1> QED BY <1>11, <1>12 DEF p

LEMMA OneGroup == LiveInv /\ StartInv => LiveRingIsOneGroup
<1> SUFFICES ASSUME LiveInv, StartInv, NEW i \in DOMAIN ring
             PROVE  /\ ring[i].id = offered - Len(ring) + i
                    /\ ring[i].key => i = 1
                    /\ ring[i].era = era
  BY DEF LiveRingIsOneGroup, StartInv, Start
<1>1. ring \in Seq(Frames) /\ offered \in Int
  BY SentAreFrames, LiveAssumption DEF LiveInv, LiveTypes
<1>2. /\ Orderly(ring, 0, 0, 0, era) /\ Current(ring, 0, 0, offered, session)
      /\ \A k \in 1 .. Len(ring) : ring[k].key => k = 1
  BY DEF LiveInv, RingInOrder
<1>3. i \in 1 .. Len(ring) /\ Len(ring) \in 1 .. Len(ring) /\ Len(ring) \in Int
  BY <1>1
<1>4. ring[Len(ring)].id = offered
  BY <1>3, <1>2 DEF Current
<1>5. ring[i].id = offered - Len(ring) + i
  <2>1. CASE i = Len(ring)
    BY <1>1, <1>3, <1>4, <2>1
  <2>2. CASE i < Len(ring)
    <3>1. ring[Len(ring)].id = ring[i].id + (Len(ring) - i)
      BY <1>2, <1>3, <2>2 DEF Orderly
    <3>2. ring[i] \in Frames
      BY <1>1
    <3>3. ring[i].id \in Int
      BY <3>2, FrameFields
    <3> QED BY <1>1, <1>3, <1>4, <3>1, <3>3
  <2> QED BY <1>3, <2>1, <2>2
<1>6. ring[i].era = era
  BY <1>2, <1>3 DEF Orderly
<1> QED BY <1>2, <1>3, <1>5, <1>6

LEMMA LiveTypesHold == LiveInv => LiveTypeOK
<1> SUFFICES ASSUME LiveInv PROVE LiveTypeOK
  OBVIOUS
<1>1. LiveTypes
  BY DEF LiveInv
<1>2. ring \in Seq(Frames)
  BY <1>1, SentAreFrames DEF LiveTypes
<1>3. ASSUME NEW v \in Viewers
      PROVE  LET x == viewer[v] IN
             /\ x.pc \in {"idle", "watching", "cancel", "close", "left"}
             /\ {x.reg, x.closed, x.outClosed} \subseteq BOOLEAN
             /\ {x.raw, x.held, x.out, x.last} \subseteq Seq(Frames)
             /\ Len(x.raw) <= ChanBuf /\ Len(x.out) <= ChanBuf /\ Len(x.held) <= 1
             /\ x.dur \in 0 .. VideoClock
  <2> DEFINE x == viewer[v]
  <2>1. x \in ViewerStates /\ WithinBuffers(x)
    BY DEF LiveInv, InHand, WellKept
  <2>2. x.raw \in Seq(Frames)
    BY <2>1, SentAreFrames DEF ViewerStates
  <2>3. {x.raw, x.held, x.out, x.last} \subseteq Seq(Frames)
    BY <2>1, <2>2 DEF ViewerStates
  <2> QED BY <2>1, <2>3 DEF ViewerStates, WithinBuffers
<1> QED BY <1>1, <1>2, <1>3 DEF LiveTypeOK, LiveTypes, SessionStates

(* Whatever the sizes of the ring and of the channels, the number of       *)
(* viewers and of ingest sessions, and whichever sessions show their sets  *)
(* in band only: no viewer ever misses a frame, gets one of before or      *)
(* after another Begin, has parameter sets other than that Begin's, up to  *)
(* sets sent in band, or sees its clock run back; nothing is sent on a     *)
(* closed channel; and the ring is of one group of pictures, which has its *)
(* start or filled the ring, or of the frames before the first key frame.  *)
THEOREM LiveIsSafe == LiveSpec => []LiveSafe
<1>1. LiveInv /\ SetsInv /\ StartInv => LiveSafe
  <2> SUFFICES ASSUME LiveInv, SetsInv, StartInv PROVE LiveSafe
    OBVIOUS
  <2>1. LiveTypes /\ \A v \in Viewers : InHand(viewer[v])
    BY DEF LiveInv
  <2>2. LiveNoHole /\ LiveParamsMatch
    BY <2>1, NoHoles DEF LiveNoHole, LiveParamsMatch, SetsInv
  <2>3. LiveNoSendOnClosed
    BY <2>1 DEF LiveNoSendOnClosed, InHand, UpToDate
  <2>4. LiveTimeLine
    <3> SUFFICES ASSUME NEW v \in Viewers, NEW i \in DOMAIN RebasedPart(viewer[v]),
                        RebasedPart(viewer[v])[i].ses = viewer[v].ses
                 PROVE  /\ RebasedPart(viewer[v])[i].pts >= 0
                        /\ i > 1 => RebasedPart(viewer[v])[i].pts > RebasedPart(viewer[v])[i - 1].pts
      BY DEF LiveTimeLine, RebasedPart
    <3> QED BY <2>1, TimeAdvances
  <2> QED BY <2>2, <2>3, <2>4, OneGroup, LiveTypesHold DEF LiveSafe
<1> QED BY <1>1, LiveInvariance, PTL

===============================================================================
