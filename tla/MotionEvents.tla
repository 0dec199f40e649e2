----------------------------- MODULE MotionEvents -----------------------------
(***************************************************************************)
(* Motion signals on their way to event rows and recording windows. The    *)
(* software detector (detect) and the ONVIF pull client (onvif) publish    *)
(* motion.started and motion.ended on the in-process bus (events/bus.go);  *)
(* the events manager (events/manager.go) opens and closes an event row    *)
(* per camera, the bridge in main.go opens and closes the recorder's       *)
(* motion window. Each subscriber has one buffered channel per topic and   *)
(* selects over the two; a message that finds the buffer full is lost.     *)
(*                                                                         *)
(* Time is the number of signals published so far. Segment pins, has_motion*)
(* marks, snapshots and broadcasts that the handlers also make touch       *)
(* nothing kept here (pins are Archive's).                                 *)
(***************************************************************************)
EXTENDS Naturals, Sequences, FiniteSets, FiniteSetsExt

CONSTANTS
    Cams,        \* cameras
    Sources,     \* the detectors in use: "software", "onvif"
    Buf,         \* subBuf
    MaxSignals,  \* bound: signals published
    MaxErrors,   \* bound: database calls that fail
    MaxRestarts, \* bound: restarts of the daemon
    MaxCancels   \* bound: pull clients cancelled in mid-motion

ASSUME MotionEventsAssumption ==
    /\ Sources \subseteq {"software", "onvif"}
    /\ Buf \in Nat \ {0}
    /\ {MaxSignals, MaxErrors, MaxRestarts, MaxCancels} \subseteq Nat

Subs   == {"manager", "bridge"}
Topics == {"motion.started", "motion.ended"}

VARIABLES
    clock,        \* signals published so far
    motions,      \* history: what each detector saw, to = 0 while it sees it
    queue,        \* per subscriber and topic: the channel
    subscribed,   \* per subscriber: the topics it has subscribed to
    handler,      \* where the manager's goroutine is
    open,         \* Manager.open, the row's number per camera, 0 = none
    rows,         \* the events table: per camera, its rows in insert order
    orphaned,     \* history: rows a failed database call left to nobody
    motionActive, \* per camera, the recorder's motionActive
    errors, restarts, cancels

busVars     == <<queue, subscribed>>
managerVars == <<handler, open, rows, orphaned>>
counters    == <<errors, restarts, cancels>>
vars == <<clock, motions, busVars, managerVars, motionActive, counters>>

Idle == [pc |-> "idle"]

(* Which detectors see motion on c: their `active`.                        *)
Seeing(c) == {m \in motions : m.cam = c /\ m.to = 0}

----------------------------------------------------------------------------
(* The bus.                                                                *)

(* Publish: every channel of the topic that has room gets the message.     *)
Publish(topic, c, at) ==
    queue' = [s \in Subs |-> [queue[s] EXCEPT ![topic] =
                 IF topic \in subscribed[s] /\ Len(@) < Buf
                 THEN Append(@, [cam |-> c, at |-> at]) ELSE @]]

(* Run and bridgeMotionToRecorder subscribe to one topic, then the other.  *)
(* They are started after the detectors.                                   *)
Subscribe(s, topic) ==
    /\ topic \notin subscribed[s]
    /\ topic = "motion.ended" => "motion.started" \in subscribed[s]
    /\ subscribed' = [subscribed EXCEPT ![s] = @ \cup {topic}]
    /\ UNCHANGED <<clock, motions, queue, managerVars, motionActive, counters>>

----------------------------------------------------------------------------
(* The detectors. Each publishes a start when it turns active and an end   *)
(* when it turns inactive: Engine.process, pullLoop.                       *)

Start(src, c) ==
    /\ clock < MaxSignals
    /\ \A m \in Seeing(c) : m.src # src
    /\ clock' = clock + 1
    /\ motions' = motions \cup {[cam |-> c, src |-> src, from |-> clock + 1, to |-> 0]}
    /\ Publish("motion.started", c, clock + 1)
    /\ UNCHANGED <<subscribed, managerVars, motionActive, counters>>

(* The detector's end is the last time it saw motion, before the post-roll; *)
(* the pull client's is the time of the message.                           *)
End(m) ==
    /\ clock < MaxSignals
    /\ m.to = 0
    /\ clock' = clock + 1
    /\ \E at \in IF m.src = "software" THEN m.from .. clock + 1 ELSE {clock + 1} :
         /\ motions' = (motions \ {m}) \cup {[m EXCEPT !.to = at]}
         /\ Publish("motion.ended", m.cam, at)
    /\ UNCHANGED <<subscribed, managerVars, motionActive, counters>>

(* The pull client of an edited or disabled camera is cancelled: run       *)
(* returns, whatever `active` was. (An Engine publishes its end first.)    *)
CancelPull(m) ==
    /\ cancels < MaxCancels
    /\ m.src = "onvif" /\ m.to = 0
    /\ cancels' = cancels + 1
    /\ motions' = (motions \ {m}) \cup {[m EXCEPT !.to = clock]}
    /\ UNCHANGED <<clock, busVars, managerVars, motionActive, errors, restarts>>

----------------------------------------------------------------------------
(* The events manager: Run handles one message at a time, each database    *)
(* call a step.                                                            *)

Receive(s, topic) ==
    /\ queue[s][topic] # <<>>
    /\ queue' = [queue EXCEPT ![s][topic] = Tail(@)]

(* onStart: a start while an event is open is a no-op.                     *)
(* Mutant: no check.                                                       *)
OnStartAnyway ==
    /\ handler = Idle /\ Receive("manager", "motion.started")
    /\ LET msg == Head(queue["manager"]["motion.started"]) IN
       handler' = [pc |-> "insert", cam |-> msg.cam, at |-> msg.at]
    /\ UNCHANGED <<clock, motions, subscribed, open, rows, orphaned, motionActive, counters>>
OnStart ==
    /\ handler = Idle /\ Receive("manager", "motion.started")
    /\ LET msg == Head(queue["manager"]["motion.started"]) IN
       handler' = IF open[msg.cam] # 0 THEN Idle
                  ELSE [pc |-> "insert", cam |-> msg.cam, at |-> msg.at]
    /\ UNCHANGED <<clock, motions, subscribed, open, rows, orphaned, motionActive, counters>>

NewRow == [ts |-> handler.at, end |-> 0, clip |-> 0]

InsertOK ==
    /\ handler.pc = "insert"
    /\ rows' = [rows EXCEPT ![handler.cam] = Append(@, NewRow)]
    /\ open' = [open EXCEPT ![handler.cam] = Len(rows[handler.cam]) + 1]
    /\ handler' = Idle
    /\ UNCHANGED <<clock, motions, busVars, orphaned, motionActive, counters>>

(* The insert reports an error: usually there is no row, but a timeout     *)
(* after the commit leaves one.                                            *)
InsertFails ==
    /\ handler.pc = "insert" /\ errors < MaxErrors
    /\ errors' = errors + 1
    /\ \/ UNCHANGED <<rows, orphaned>>
       \/ /\ rows' = [rows EXCEPT ![handler.cam] = Append(@, NewRow)]
          /\ orphaned' = orphaned \cup {<<handler.cam, Len(rows[handler.cam]) + 1>>}
    /\ handler' = Idle
    /\ UNCHANGED <<clock, motions, busVars, open, motionActive, restarts, cancels>>

(* onEnd: the event leaves the open map before its row is closed.          *)
(* Mutant: it stays.                                                       *)
OnEndKeeping ==
    /\ handler = Idle /\ Receive("manager", "motion.ended")
    /\ LET msg == Head(queue["manager"]["motion.ended"]) IN
       handler' = IF open[msg.cam] = 0 THEN Idle
                  ELSE [pc |-> "close", cam |-> msg.cam, row |-> open[msg.cam], at |-> msg.at]
    /\ UNCHANGED <<clock, motions, subscribed, open, rows, orphaned, motionActive, counters>>
OnEnd ==
    /\ handler = Idle /\ Receive("manager", "motion.ended")
    /\ LET msg == Head(queue["manager"]["motion.ended"]) IN
       /\ handler' = IF open[msg.cam] = 0 THEN Idle
                     ELSE [pc |-> "close", cam |-> msg.cam, row |-> open[msg.cam], at |-> msg.at]
       /\ open' = [open EXCEPT ![msg.cam] = 0]
    /\ UNCHANGED <<clock, motions, subscribed, rows, orphaned, motionActive, counters>>

(* Store.Close, then SetClip with the same end.                            *)
(* Mutant: the clip is forgotten.                                          *)
CloseOnly ==
    /\ handler.pc = "close"
    /\ rows' = [rows EXCEPT ![handler.cam][handler.row].end = handler.at]
    /\ handler' = Idle
    /\ UNCHANGED <<clock, motions, busVars, open, orphaned, motionActive, counters>>
CloseOK ==
    /\ handler.pc = "close"
    /\ rows' = [rows EXCEPT ![handler.cam][handler.row].end = handler.at]
    /\ handler' = [handler EXCEPT !.pc = "clip"]
    /\ UNCHANGED <<clock, motions, busVars, open, orphaned, motionActive, counters>>

SetClip ==
    /\ handler.pc = "clip"
    /\ rows' = [rows EXCEPT ![handler.cam][handler.row].clip = handler.at]
    /\ handler' = Idle
    /\ UNCHANGED <<clock, motions, busVars, open, orphaned, motionActive, counters>>

(* Close fails: return. SetClip fails: a warning. Neither is retried. (A   *)
(* call that took effect before its error is a success here.)              *)
CloseFails ==
    /\ handler.pc \in {"close", "clip"} /\ errors < MaxErrors
    /\ errors' = errors + 1
    /\ orphaned' = orphaned \cup {<<handler.cam, handler.row>>}
    /\ handler' = Idle
    /\ UNCHANGED <<clock, motions, busVars, open, rows, motionActive, restarts, cancels>>

----------------------------------------------------------------------------
(* The bridge: MotionSignal on the recorder, which ignores a repetition.   *)
Bridge(topic) ==
    /\ Receive("bridge", topic)
    /\ motionActive' = [motionActive EXCEPT ![Head(queue["bridge"][topic]).cam] =
                           (topic = "motion.started")]
    /\ UNCHANGED <<clock, motions, subscribed, managerVars, counters>>

----------------------------------------------------------------------------
(* The daemon stops in any way and boots again. CloseAllOpen runs before   *)
(* the detectors start; it may fail, which is only logged.                 *)
ClosedAtBoot(row) ==
    IF row.end # 0 THEN row
    ELSE LET end == Max({row.ts, clock - 1}) IN [row EXCEPT !.end = end, !.clip = end]

EmptyQueues == [s \in Subs |-> [t \in Topics |-> <<>>]]

(* What a restart leaves half done: an event closed but without its clip.  *)
HalfDone == IF handler.pc = "clip" THEN {<<handler.cam, handler.row>>} ELSE {}
OpenRows == UNION {{<<c, i>> : i \in {j \in DOMAIN rows[c] : rows[c][j].end = 0}} : c \in Cams}

MemoryLost ==
    /\ motions' = {IF m.to = 0 THEN [m EXCEPT !.to = clock] ELSE m : m \in motions}
    /\ queue' = EmptyQueues /\ subscribed' = [s \in Subs |-> {}]
    /\ handler' = Idle /\ open' = [c \in Cams |-> 0]
    /\ motionActive' = [c \in Cams |-> FALSE]

(* Mutant: CloseAllOpen is not called.                                     *)
RestartOnly ==
    /\ restarts < MaxRestarts
    /\ restarts' = restarts + 1
    /\ MemoryLost
    /\ UNCHANGED <<clock, rows, orphaned, errors, cancels>>
Restart ==
    /\ restarts < MaxRestarts
    /\ restarts' = restarts + 1
    /\ MemoryLost
    /\ \/ /\ rows' = [c \in Cams |-> [i \in DOMAIN rows[c] |-> ClosedAtBoot(rows[c][i])]]
          /\ orphaned' = orphaned \cup HalfDone
          /\ UNCHANGED errors
       \/ /\ errors < MaxErrors /\ errors' = errors + 1
          /\ orphaned' = orphaned \cup HalfDone \cup OpenRows
          /\ UNCHANGED rows
    /\ UNCHANGED <<clock, cancels>>

----------------------------------------------------------------------------
Init ==
    /\ clock = 0 /\ motions = {}
    /\ queue = EmptyQueues /\ subscribed = [s \in Subs |-> {}]
    /\ handler = Idle /\ open = [c \in Cams |-> 0]
    /\ rows = [c \in Cams |-> <<>>] /\ orphaned = {}
    /\ motionActive = [c \in Cams |-> FALSE]
    /\ errors = 0 /\ restarts = 0 /\ cancels = 0

Detectors ==
    \/ \E src \in Sources, c \in Cams : Start(src, c)
    \/ \E m \in motions : End(m) \/ CancelPull(m)

ManagerSucceeds == InsertOK \/ CloseOK \/ SetClip

Next ==
    \/ Detectors
    \/ \E s \in Subs, t \in Topics : Subscribe(s, t)
    \/ OnStart \/ OnEnd \/ ManagerSucceeds \/ InsertFails \/ CloseFails
    \/ \E t \in Topics : Bridge(t)
    \/ Restart

Spec == Init /\ [][Next]_vars

(* The same from the moment both subscribers have subscribed, the daemon   *)
(* having seen no motion before.                                           *)
RunningInit ==
    /\ subscribed = [s \in Subs |-> Topics]
    /\ clock = 0 /\ motions = {} /\ queue = EmptyQueues
    /\ handler = Idle /\ open = [c \in Cams |-> 0]
    /\ rows = [c \in Cams |-> <<>>] /\ orphaned = {}
    /\ motionActive = [c \in Cams |-> FALSE]
    /\ errors = 0 /\ restarts = 0 /\ cancels = 0
RunningSpec == RunningInit /\ [][Next]_vars

(* A database call returns; a select that is offered both channels again   *)
(* and again takes each again and again (Go chooses at random).            *)
Fairness == WF_vars(ManagerSucceeds) /\ SF_vars(OnStart) /\ SF_vars(OnEnd)
FairSpec == Spec /\ Fairness

----------------------------------------------------------------------------
(* Properties.                                                             *)

Rows == [ts : 1 .. MaxSignals, end : 0 .. MaxSignals, clip : 0 .. MaxSignals]
Messages == [cam : Cams, at : 1 .. MaxSignals]
Motions == [cam : Cams, src : Sources, from : 1 .. MaxSignals, to : 0 .. MaxSignals]
Handlers ==
    {Idle} \cup [pc : {"insert"}, cam : Cams, at : 1 .. MaxSignals]
           \cup [pc : {"close", "clip"}, cam : Cams, row : Nat \ {0}, at : 1 .. MaxSignals]

(* Types, and: no channel holds more than Buf messages, the manager's      *)
(* references are to rows that exist.                                      *)
TypeOK ==
    /\ clock \in 0 .. MaxSignals
    /\ motions \subseteq Motions
    /\ queue \in [Subs -> [Topics -> Seq(Messages)]]
    /\ \A s \in Subs, t \in Topics : Len(queue[s][t]) <= Buf
    /\ subscribed \in [Subs -> SUBSET Topics]
    /\ handler \in Handlers
    /\ rows \in [Cams -> Seq(Rows)]
    /\ open \in [Cams -> Nat] /\ \A c \in Cams : open[c] \in 0 .. Len(rows[c])
    /\ handler.pc \in {"close", "clip"} => handler.row \in DOMAIN rows[handler.cam]
    /\ motionActive \in [Cams -> BOOLEAN]
    /\ errors \in 0 .. MaxErrors /\ restarts \in 0 .. MaxRestarts /\ cancels \in 0 .. MaxCancels

(* Every open row is the one the manager's map names or the one it is      *)
(* closing, and every closed row has its clip: only a database error, or a *)
(* restart between Close and SetClip, leaves a row to nobody. What the map *)
(* names is open.                                                          *)
Tracked(c, i) ==
    \/ <<c, i>> \in orphaned
    \/ rows[c][i].end = 0 /\ open[c] = i
    \/ rows[c][i].end # 0 /\ rows[c][i].clip = rows[c][i].end
    \/ /\ handler.pc = IF rows[c][i].end = 0 THEN "close" ELSE "clip"
       /\ handler.cam = c /\ handler.row = i
RowsTracked ==
    /\ \A c \in Cams : \A i \in DOMAIN rows[c] : Tracked(c, i)
    /\ \A c \in Cams : open[c] # 0 => rows[c][open[c]].end = 0

(* The events table is an EventLog: one row per active window              *)
(* (docs/07-detection-notifications.md:42), and a database call that fails *)
(* costs that row and no other.                                            *)
Window(c, i) ==
    [ts |-> rows[c][i].ts, end |-> rows[c][i].end, lost |-> <<c, i>> \in orphaned]
Windows == [c \in Cams |-> [i \in DOMAIN rows[c] |-> Window(c, i)]]
Log == INSTANCE EventLog WITH log <- Windows, Times <- 1 .. MaxSignals
ImplementsEventLog == Log!Spec

(* An event that is open when an end is queued is closed, with its clip,   *)
(* unless a database call fails or a restart intervenes.                   *)
EndQueued(c) ==
    \E k \in DOMAIN queue["manager"]["motion.ended"] :
        queue["manager"]["motion.ended"][k].cam = c
EventsClose ==
    \A c \in Cams : \A i \in 1 .. MaxSignals :
        (open[c] = i /\ EndQueued(c)) ~>
        (\/ i \in DOMAIN rows[c] /\ rows[c][i].end # 0 /\ rows[c][i].clip # 0
         \/ <<c, i>> \in orphaned)

(* manager.go:19 "Software detection and ONVIF pull-point signals are      *)
(* OR'ed": when an event ends, no detector sees motion any longer.         *)
EndsWhenQuiet ==
    \A c \in Cams : \A i \in DOMAIN rows[c] : \A m \in motions :
        rows[c][i].end # 0 /\ m.cam = c /\ m.from < rows[c][i].end
            => m.to # 0 /\ m.to <= rows[c][i].end

(* manager.go:17 "on motion.ended it closes it": once the manager has      *)
(* handled everything and no detector sees motion, no event is open.       *)
QuietMeansClosed ==
    \A c \in Cams :
        Seeing(c) = {} /\ handler = Idle /\ queue["manager"] = EmptyQueues["manager"]
            => open[c] = 0

(* docs/06-storage.md:94 "on motion end + post-roll it stops": once the    *)
(* bridge has handled everything and no detector sees motion, the recorder *)
(* is not in a motion window.                                              *)
RecorderStops ==
    \A c \in Cams :
        Seeing(c) = {} /\ queue["bridge"] = EmptyQueues["bridge"] => ~motionActive[c]
===============================================================================
