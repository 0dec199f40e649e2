-------------------------------- MODULE Detect --------------------------------
(***************************************************************************)
(* The software motion detector of one camera: the supervisor              *)
(* (detect/supervisor.go) that API calls ask to Sync or Remove, and its    *)
(* engines (detect/engine.go), each a loop of sessions that subscribe to   *)
(* the sub stream and step a small state machine at every analysed frame.  *)
(*                                                                         *)
(* Time is counted in frames: the ffmpeg filter delivers five a second.    *)
(* Whether a frame scores above min_area_pct and whether the schedule is   *)
(* on are chosen per frame. An engine's wait for its session ("dial"), its *)
(* back-off and its session are its program counter.                       *)
(***************************************************************************)
EXTENDS Integers, FiniteSets

CONSTANTS
    DetCalls,  \* API calls on the camera
    PostRoll,  \* post_roll_s, in frames
    Cooldown   \* cooldown_s, in frames

ASSUME DetectAssumption ==
    IsFiniteSet(DetCalls) /\ PostRoll \in Nat /\ Cooldown \in Nat

(* Start adds engine 1, each call at most one more.                        *)
Engines == 1 .. Cardinality(DetCalls) + 1

VARIABLES
    detRow,        \* the row: "on" = enabled, detection on, sub stream set
    detCall,       \* per call: [op, pc, old]
    engines,       \* Supervisor.engines[camID], 0 = none
    engine,        \* per engine, see FreshEngine
    moving,        \* is there motion in the scene
    balance,       \* motion.started minus motion.ended published
    detOverlapped  \* history: has a call started during another?

detVars == <<detRow, detCall, engines, engine, moving, balance, detOverlapped>>

(* The locals of process; streak is history: analysed frames above in a    *)
(* row since the last event.                                               *)
FreshSession == [hasBg |-> FALSE, active |-> FALSE, armed |-> TRUE, consec |-> 0,
                 cool |-> -1, quiet |-> 0, streak |-> 0]
FreshEngine(pc) == [pc |-> pc, stop |-> FALSE, s |-> FreshSession]

Calling(c) == detCall[c].pc \notin {"idle", "done"}
Running(e) == engine[e].pc \notin {"none", "done"}

----------------------------------------------------------------------------
(* API calls: Sync after the row was changed, or Remove.                   *)

(* A change whose answer is lost is in the row, and Sync is not called.    *)
DetBegin(c, op) ==
    /\ detCall[c].pc = "idle" /\ detRow # "gone"
    /\ \E pc \in IF op = "delete" THEN {"detach"} ELSE {"detach", "done"} :
         detCall' = [detCall EXCEPT ![c] = [op |-> op, pc |-> pc, old |-> 0]]
    /\ detRow' = IF op \in {"on", "off"} THEN op ELSE detRow
    /\ detOverlapped' = (detOverlapped \/ \E d \in DetCalls : Calling(d))
    /\ UNCHANGED <<engines, engine, moving, balance>>

(* removeLocked; then Stop cancels the context.                            *)
DetDetach(c) ==
    /\ detCall[c].pc = "detach"
    /\ engines' = 0
    /\ detCall' = [detCall EXCEPT ![c].pc = "stop", ![c].old = engines]
    /\ UNCHANGED <<detRow, engine, moving, balance, detOverlapped>>

DetStop(c) ==
    /\ detCall[c].pc = "stop"
    /\ LET e == detCall[c].old
       IN engine' = IF e = 0 THEN engine ELSE [engine EXCEPT ![e].stop = TRUE]
    /\ detCall' = [detCall EXCEPT ![c].pc = "wait"]
    /\ UNCHANGED <<detRow, engines, moving, balance, detOverlapped>>

(* <-done; then Sync reads the row, without the lock. If that fails, or    *)
(* the row asks for no engine, it is done, and the old engine is gone.     *)
AfterWait(c) ==
    IF detCall[c].op = "delete" THEN {"erase"}
    ELSE IF detRow = "on" THEN {"attach", "done"} ELSE {"done"}
(* Mutant: does not wait.                                                  *)
DetNoWait(c) ==
    /\ detCall[c].pc = "wait"
    /\ \E pc \in AfterWait(c) : detCall' = [detCall EXCEPT ![c].pc = pc]
    /\ UNCHANGED <<detRow, engines, engine, moving, balance, detOverlapped>>
DetWait(c) ==
    /\ detCall[c].pc = "wait"
    /\ detCall[c].old # 0 => engine[detCall[c].old].pc = "done"
    /\ \E pc \in AfterWait(c) : detCall' = [detCall EXCEPT ![c].pc = pc]
    /\ UNCHANGED <<detRow, engines, engine, moving, balance, detOverlapped>>

(* Mutant: an engine another call has registered is overwritten.           *)
DetAttachAnyway(c) ==
    /\ detCall[c].pc = "attach"
    /\ LET e == CHOOSE e \in Engines : engine[e].pc = "none" /\ \A d \in 1 .. e - 1 : engine[d].pc # "none"
       IN engines' = e /\ engine' = [engine EXCEPT ![e] = FreshEngine("dial")]
    /\ detCall' = [detCall EXCEPT ![c].pc = "done"]
    /\ UNCHANGED <<detRow, moving, balance, detOverlapped>>
DetAttach(c) ==
    /\ detCall[c].pc = "attach"
    /\ IF engines # 0 THEN UNCHANGED <<engines, engine>>
       ELSE LET e == CHOOSE e \in Engines : engine[e].pc = "none" /\ \A d \in 1 .. e - 1 : engine[d].pc # "none"
            IN engines' = e /\ engine' = [engine EXCEPT ![e] = FreshEngine("dial")]
    /\ detCall' = [detCall EXCEPT ![c].pc = "done"]
    /\ UNCHANGED <<detRow, moving, balance, detOverlapped>>

(* deleteCamera deletes the row after Remove; if that fails the row stays, *)
(* without an engine.                                                      *)
DetErase(c) ==
    /\ detCall[c].pc = "erase"
    /\ detRow' \in {"gone", detRow}
    /\ detCall' = [detCall EXCEPT ![c].pc = "done"]
    /\ UNCHANGED <<engines, engine, moving, balance, detOverlapped>>

DetStep(c) == DetDetach(c) \/ DetStop(c) \/ DetWait(c) \/ DetAttach(c) \/ DetErase(c)

----------------------------------------------------------------------------
(* Engine.loop and runSession.                                             *)

SetEngine(e, x) ==
    engine' = [engine EXCEPT ![e] = x] /\ UNCHANGED <<detRow, detCall, engines, moving, detOverlapped>>

(* Subscribe succeeds and ffmpeg starts.                                   *)
Connect(e) ==
    /\ engine[e].pc = "dial"
    /\ SetEngine(e, [engine[e] EXCEPT !.pc = "session", !.s = FreshSession])
    /\ UNCHANGED balance

(* A stopped engine returns instead of backing off. Mutant: it dials again.*)
AfterSessionRetries(e) == "backoff"
AfterSession(e) == IF engine[e].stop THEN "done" ELSE "backoff"

ConnectFails(e) ==
    /\ engine[e].pc = "dial"
    /\ SetEngine(e, [engine[e] EXCEPT !.pc = AfterSession(e)])
    /\ UNCHANGED balance

(* The subscription is closed, ffmpeg dies or the context is cancelled:    *)
(* process returns and closes an event that is open.                       *)
(* Mutant: it does not.                                                    *)
SessionLeaks(e) ==
    /\ engine[e].pc = "session"
    /\ SetEngine(e, [engine[e] EXCEPT !.pc = AfterSession(e), !.s = FreshSession])
    /\ UNCHANGED balance
SessionDies(e) ==
    /\ engine[e].pc = "session"
    /\ SetEngine(e, [engine[e] EXCEPT !.pc = AfterSession(e), !.s = FreshSession])
    /\ balance' = IF engine[e].s.active THEN balance - 1 ELSE balance

(* Five seconds, or the context.                                           *)
EngineBackoff(e) ==
    /\ engine[e].pc = "backoff"
    /\ \/ SetEngine(e, [engine[e] EXCEPT !.pc = "dial"])
       \/ engine[e].stop /\ SetEngine(e, [engine[e] EXCEPT !.pc = "done"])
    /\ UNCHANGED balance

----------------------------------------------------------------------------
(* One analysed frame, as a function of the session's state: what process  *)
(* does with a frame after the background is known. cool counts the frames *)
(* to cooldownUntil, -1 once it has passed; quiet those since lastAbove.   *)

LeastOf(a, b) == IF a < b THEN a ELSE b
Later(s) == [s EXCEPT !.cool = IF @ < 0 THEN @ ELSE @ - 1,
                      !.quiet = IF s.active THEN LeastOf(@ + 1, PostRoll) ELSE 0]

OffHours(s) == [s EXCEPT !.active = FALSE, !.consec = 0, !.streak = 0, !.quiet = 0]

(* Mutant: one frame more.                                                 *)
WatchingOffByOne(s, above) ==
    IF ~s.armed THEN [s EXCEPT !.armed = s.cool < 0]
    ELSE IF ~above THEN [s EXCEPT !.consec = 0]
    ELSE IF s.consec + 1 <= 3 THEN [s EXCEPT !.consec = @ + 1]
    ELSE [s EXCEPT !.consec = 4, !.active = TRUE, !.armed = FALSE, !.quiet = 0]
Watching(s, above) ==
    IF ~s.armed THEN [s EXCEPT !.armed = s.cool < 0]
    ELSE IF ~above THEN [s EXCEPT !.consec = 0]
    ELSE IF s.consec + 1 < 3 THEN [s EXCEPT !.consec = @ + 1]
    ELSE [s EXCEPT !.consec = 3, !.active = TRUE, !.armed = FALSE, !.quiet = 0]

(* Mutant: the count of frames above is not reset.                         *)
InEventKeepingCount(s, above) ==
    IF above THEN [s EXCEPT !.quiet = 0]
    ELSE IF s.quiet >= PostRoll
         THEN [s EXCEPT !.active = FALSE, !.cool = Cooldown, !.quiet = 0]
         ELSE s
(* Mutant: any frame counts as motion.                                     *)
InEventNeverQuiet(s, above) == [s EXCEPT !.quiet = 0]
InEvent(s, above) ==
    IF above THEN [s EXCEPT !.quiet = 0]
    ELSE IF s.quiet >= PostRoll
         THEN [s EXCEPT !.active = FALSE, !.consec = 0, !.cool = Cooldown, !.quiet = 0]
         ELSE s

Counted(s, above) == [s EXCEPT !.streak = IF above THEN LeastOf(@ + 1, 3) ELSE 0]

Analysed(old, onHours, above) ==
    LET s == Later(old) IN
    IF ~s.hasBg THEN [s EXCEPT !.hasBg = TRUE]
    ELSE IF ~onHours THEN OffHours(s)
    ELSE IF s.cool > 0 THEN s
    ELSE IF s.active
         THEN LET n == InEvent(s, above) IN [n EXCEPT !.streak = IF n.active THEN 3 ELSE 0]
         ELSE Watching(Counted(s, above), above)

(* A frame of another size (resized) starts a new background.              *)
Frame(e, onHours, above, resized) ==
    /\ engine[e].pc = "session"
    /\ above => moving
    /\ LET old == IF resized THEN [engine[e].s EXCEPT !.hasBg = FALSE] ELSE engine[e].s
           new == Analysed(old, onHours, above)
       IN  /\ SetEngine(e, [engine[e] EXCEPT !.s = new])
           /\ balance' = CASE new.active /\ ~old.active -> balance + 1
                           [] old.active /\ ~new.active -> balance - 1
                           [] OTHER -> balance

SceneChanges ==
    /\ moving' = ~moving
    /\ UNCHANGED <<detRow, detCall, engines, engine, balance, detOverlapped>>

----------------------------------------------------------------------------
(* Start has launched an engine if the row asks for one.                   *)
DetInit ==
    /\ detRow \in {"on", "off"}
    /\ detCall = [c \in DetCalls |-> [op |-> "none", pc |-> "idle", old |-> 0]]
    /\ engines = IF detRow = "on" THEN 1 ELSE 0
    /\ engine = [e \in Engines |-> FreshEngine(IF detRow = "on" /\ e = 1 THEN "dial" ELSE "none")]
    /\ moving = FALSE /\ balance = 0 /\ detOverlapped = FALSE

(* What an engine does of itself; frames come as long as the session lives.*)
GoodFrame(e) == \E above \in BOOLEAN : Frame(e, TRUE, above, FALSE)
EngineProceeds(e) ==
    GoodFrame(e) \/ Connect(e) \/ ConnectFails(e) \/ EngineBackoff(e)

DetNext ==
    \/ \E c \in DetCalls : \/ \E op \in {"on", "off", "edit", "delete"} : DetBegin(c, op)
                           \/ DetStep(c)
    \/ \E e \in Engines : \/ Connect(e) \/ ConnectFails(e) \/ SessionDies(e) \/ EngineBackoff(e)
                          \/ \E onHours, above, resized \in BOOLEAN : Frame(e, onHours, above, resized)
    \/ SceneChanges

(* Engines and calls run on by themselves: frames come and a dead session  *)
(* is dialled again; a session whose context is cancelled dies.            *)
DetFairness ==
    /\ \A e \in Engines : /\ WF_detVars(EngineProceeds(e))
                          /\ WF_detVars(engine[e].stop /\ SessionDies(e))
    /\ \A c \in DetCalls : WF_detVars(DetStep(c))

DetSpec == DetInit /\ [][DetNext]_detVars /\ DetFairness

----------------------------------------------------------------------------
(* Properties.                                                             *)

DetTypeOK ==
    /\ {moving, detOverlapped} \subseteq BOOLEAN /\ detRow \in {"on", "off", "gone"}
    /\ detCall \in [DetCalls -> [op : {"none", "on", "off", "edit", "delete"},
                                 pc : {"idle", "detach", "stop", "wait", "attach", "erase", "done"},
                                 old : Engines \cup {0}]]
    /\ engines \in Engines \cup {0}
    /\ \A e \in Engines :
         /\ engine[e].pc \in {"none", "dial", "session", "backoff", "done"}
         /\ engine[e].stop \in BOOLEAN
         /\ engine[e].s \in [hasBg : BOOLEAN, active : BOOLEAN, armed : BOOLEAN, consec : 0 .. 3,
                             cool : -1 .. Cooldown, quiet : 0 .. PostRoll, streak : 0 .. 3]

(* Every way out of an event publishes its end: the starts on the bus that *)
(* have no end yet are those of the engines that are in an event, and an   *)
(* engine that is not in a session is in none.                             *)
DetectPaired ==
    /\ balance = Cardinality({e \in Engines : engine[e].s.active})
    /\ \A e \in Engines : engine[e].s.active => engine[e].pc = "session"

(* Unless API calls overlap, two engines never run at once, so the         *)
(* camera's starts and ends alternate; Stop waits for the old engine.      *)
DetectOneAtATime == ~detOverlapped => Cardinality({e \in Engines : Running(e)}) <= 1

(* An engine the supervisor has lost track of was told to stop, or is      *)
(* about to be by the call that took it out of the map.                    *)
DetectNoneForgotten ==
    \A e \in Engines : Running(e) =>
        \/ engines = e \/ engine[e].stop
        \/ \E c \in DetCalls : detCall[c].pc = "stop" /\ detCall[c].old = e

(* The detector is a faithful source of events: starts and ends pair up,   *)
(* one engine at a time publishes them, and none runs on unknown.          *)
DetectSafe == DetTypeOK /\ DetectPaired /\ DetectOneAtATime /\ DetectNoneForgotten

(* docs/07-detection-notifications.md:41: an event opens after 3 analysed  *)
(* frames above in a row since the last event, when the cooldown is over.  *)
DetectThreeInARow ==
    [][\A e \in Engines : engine'[e].s.active /\ ~engine[e].s.active
          => engine'[e].s.streak >= 3 /\ engine'[e].s.cool < 0]_detVars

(* When the scene is quiet for good, no event stays open.                  *)
DetectEventsEnd ==
    <>[]~moving => \A e \in Engines : []<>~engine[e].s.active

(* Stop returns: supervisor.go:53 says teardown does not block the API     *)
(* handler; it does, but not for ever.                                     *)
DetectStopReturns == \A c \in DetCalls : detCall[c].pc = "wait" ~> detCall[c].pc # "wait"

(* What has begun ends: the event of a scene at rest and the wait for an   *)
(* engine that was stopped.                                                *)
DetectProgress == DetectEventsEnd /\ DetectStopReturns
===============================================================================
