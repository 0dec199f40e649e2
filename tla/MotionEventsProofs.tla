------------------------- MODULE MotionEventsProofs -------------------------
(***************************************************************************)
(* Proofs about MotionEvents, for every set of cameras and detectors, any  *)
(* buffer size and any number of signals, errors, restarts and cancelled   *)
(* pull clients:                                                           *)
(*   TypeCorrect     Spec => []TypeOK                                      *)
(*   RowsAreTracked  Spec => []RowsTracked, from the invariant IInv        *)
(*   LogImplemented  Spec => ImplementsEventLog                            *)
(***************************************************************************)
EXTENDS MotionEvents, SequenceTheorems, TLAPS

QueueOK ==
    /\ queue \in [Subs -> [Topics -> Seq(Messages)]]
    /\ \A s \in Subs, t \in Topics : Len(queue[s][t]) <= Buf

RowsOK ==
    /\ rows \in [Cams -> Seq(Rows)]
    /\ open \in [Cams -> Nat] /\ \A c \in Cams : open[c] \in 0 .. Len(rows[c])
    /\ handler \in Handlers
    /\ handler.pc \in {"close", "clip"} => handler.row \in DOMAIN rows[handler.cam]

(* A published message fits where there is room.                           *)
LEMMA PublishType ==
  ASSUME QueueOK, NEW topic \in Topics, NEW c \in Cams, NEW at \in 1 .. MaxSignals,
         Publish(topic, c, at)
  PROVE  QueueOK'
<1>1. [cam |-> c, at |-> at] \in Messages
  BY DEF Messages
<1>2. Buf \in Nat
  BY MotionEventsAssumption
<1> QED BY <1>1, <1>2 DEF Publish, QueueOK

(* A received message is a message; what is left is a queue.               *)
LEMMA ReceiveType ==
  ASSUME QueueOK, NEW s \in Subs, NEW topic \in Topics, Receive(s, topic)
  PROVE  QueueOK' /\ Head(queue[s][topic]) \in Messages
<1>1. queue[s][topic] \in Seq(Messages) /\ queue[s][topic] # <<>>
  BY DEF Receive, QueueOK
<1>2. /\ Head(queue[s][topic]) \in Messages
      /\ Tail(queue[s][topic]) \in Seq(Messages)
      /\ Len(Tail(queue[s][topic])) <= Len(queue[s][topic])
  BY <1>1
<1>3. \A x \in Subs, t \in Topics : Len(queue[x][t]) \in Nat
  BY DEF QueueOK
<1> QED BY <1>1, <1>2, <1>3, MotionEventsAssumption DEF Receive, QueueOK

(* The later of two times.                                                 *)
LEMMA MaxOfTwo ==
  ASSUME NEW a \in Int, NEW b \in Int
  PROVE  Max({a, b}) \in {a, b} /\ Max({a, b}) >= a /\ Max({a, b}) >= b
<1>1. \E x \in {a, b} : \A y \in {a, b} : x >= y
  OBVIOUS
<1> QED BY <1>1 DEF Max

(* A row closed at boot is a row, closed, and its clip ends with it.       *)
LEMMA BootType ==
  ASSUME clock \in 0 .. MaxSignals, NEW r \in Rows
  PROVE  /\ ClosedAtBoot(r) \in Rows
         /\ ClosedAtBoot(r).ts = r.ts
         /\ ClosedAtBoot(r).end \in 1 .. MaxSignals
         /\ r.end # 0 => ClosedAtBoot(r) = r
         /\ r.end = 0 => ClosedAtBoot(r).clip = ClosedAtBoot(r).end
<1>1. MaxSignals \in Nat
  BY MotionEventsAssumption
<1>2. r.ts \in 1 .. MaxSignals /\ r.end \in 0 .. MaxSignals /\ r.clip \in 0 .. MaxSignals
  BY DEF Rows
<1>3. Max({r.ts, clock - 1}) \in 1 .. MaxSignals
  <2>1. r.ts \in Int /\ clock - 1 \in Int
    BY <1>1, <1>2
  <2>2. /\ Max({r.ts, clock - 1}) \in {r.ts, clock - 1}
        /\ Max({r.ts, clock - 1}) >= r.ts
    BY <2>1, MaxOfTwo
  <2> QED BY <1>1, <1>2, <2>2
<1> DEFINE end == Max({r.ts, clock - 1})
<1>4. CASE r.end # 0
  BY <1>2, <1>4 DEF ClosedAtBoot
<1>5. CASE r.end = 0
  <2>1. ClosedAtBoot(r) = [ts |-> r.ts, end |-> end, clip |-> end]
    BY <1>5 DEF ClosedAtBoot, Rows
  <2>2. end \in 1 .. MaxSignals
    BY <1>3
  <2> HIDE DEF end
  <2>3. end \in 0 .. MaxSignals /\ end # 0
    BY <1>1, <2>2
  <2> QED BY <1>2, <1>5, <2>1, <2>2, <2>3 DEF Rows
<1> QED BY <1>4, <1>5

----------------------------------------------------------------------------
(* Every action keeps TypeOK.                                              *)

(* TypeOK, with the parts about channels and rows folded into QueueOK and  *)
(* RowsOK.                                                                 *)
LEMMA TypeParts ==
  /\ TypeOK => QueueOK /\ RowsOK
  /\ TypeOK <=> /\ clock \in 0 .. MaxSignals
                /\ motions \subseteq Motions
                /\ QueueOK
                /\ subscribed \in [Subs -> SUBSET Topics]
                /\ RowsOK
                /\ motionActive \in [Cams -> BOOLEAN]
                /\ errors \in 0 .. MaxErrors /\ restarts \in 0 .. MaxRestarts
                /\ cancels \in 0 .. MaxCancels
BY DEF TypeOK, QueueOK, RowsOK

(* The bounds are numbers.                                                 *)
LEMMA Bounds ==
  MaxSignals \in Nat /\ MaxErrors \in Nat /\ MaxRestarts \in Nat /\ MaxCancels \in Nat
BY MotionEventsAssumption

(* TypeOK, actor by actor: the detectors publish into channels that have   *)
(* room.                                                                   *)
LEMMA DetectorsType ==
  ASSUME TypeOK, Detectors
  PROVE  TypeOK'
<1> USE Bounds DEF busVars, managerVars, counters
<1>1. ASSUME NEW src \in Sources, NEW c \in Cams, Start(src, c) PROVE TypeOK'
  <2>1. clock + 1 \in 1 .. MaxSignals /\ clock' = clock + 1
    BY <1>1 DEF Start, TypeOK
  <2>2. motions' \subseteq Motions
    BY <1>1, <2>1 DEF Start, Motions, TypeOK
  <2>3. QueueOK'
    BY <1>1, <2>1, TypeParts, PublishType DEF Start, Topics
  <2> QED BY <1>1, <2>1, <2>2, <2>3 DEF Start, TypeOK, QueueOK
<1>2. ASSUME NEW m \in motions, End(m) PROVE TypeOK'
  <2>1. clock + 1 \in 1 .. MaxSignals /\ clock' = clock + 1
    BY <1>2 DEF End, TypeOK
  <2>2. m \in Motions
    BY DEF TypeOK
  <2>3. PICK at \in IF m.src = "software" THEN m.from .. clock + 1 ELSE {clock + 1} :
          /\ motions' = (motions \ {m}) \cup {[m EXCEPT !.to = at]}
          /\ Publish("motion.ended", m.cam, at)
    BY <1>2 DEF End
  <2>4. at \in 1 .. MaxSignals /\ m.cam \in Cams
    BY <2>1, <2>2, <2>3 DEF Motions, TypeOK
  <2>5. [m EXCEPT !.to = at] \in Motions
    BY <2>2, <2>4 DEF Motions
  <2>6. QueueOK'
    BY <2>3, <2>4, TypeParts, PublishType DEF Topics
  <2>7. motions' \subseteq Motions
    BY <2>3, <2>5 DEF TypeOK
  <2> QED BY <1>2, <2>1, <2>6, <2>7 DEF End, TypeOK, QueueOK
<1>3. ASSUME NEW m \in motions, CancelPull(m) PROVE TypeOK'
  <2>1. [m EXCEPT !.to = clock] \in Motions
    BY DEF TypeOK, Motions
  <2>2. motions' \subseteq Motions
    BY <1>3, <2>1 DEF CancelPull, TypeOK
  <2> QED BY <1>3, <2>2 DEF CancelPull, TypeOK
<1> QED BY <1>1, <1>2, <1>3 DEF Detectors

(* The records a handler is in.                                            *)
LEMMA HandlerType ==
  ASSUME NEW c \in Cams, NEW at \in 1 .. MaxSignals, NEW i \in Nat \ {0}
  PROVE  /\ [pc |-> "insert", cam |-> c, at |-> at] \in Handlers
         /\ [pc |-> "close", cam |-> c, row |-> i, at |-> at] \in Handlers
         /\ [pc |-> "clip", cam |-> c, row |-> i, at |-> at] \in Handlers
BY DEF Handlers

(* What the manager's goroutine holds at each point.                       *)
LEMMA HandlerFields ==
  ASSUME handler \in Handlers
  PROVE  /\ handler.pc \in {"idle", "insert", "close", "clip"}
         /\ handler.pc = "idle" <=> handler = Idle
         /\ handler.pc = "insert" =>
              /\ handler.cam \in Cams /\ handler.at \in 1 .. MaxSignals
         /\ handler.pc \in {"close", "clip"} =>
              /\ handler.cam \in Cams /\ handler.at \in 1 .. MaxSignals
              /\ handler.row \in Nat \ {0}
              /\ handler = [pc |-> handler.pc, cam |-> handler.cam,
                            row |-> handler.row, at |-> handler.at]
BY DEF Handlers, Idle

(* The idle handler is one of them.                                        *)
LEMMA HandlerIdle == Idle \in Handlers /\ Idle.pc = "idle"
BY DEF Handlers, Idle

(* Storing a time in a row of the table.                                   *)
LEMMA RowUpdate ==
  ASSUME rows \in [Cams -> Seq(Rows)], NEW c \in Cams, NEW i \in DOMAIN rows[c],
         NEW at \in 1 .. MaxSignals,
         \/ rows' = [rows EXCEPT ![c][i].end = at]
         \/ rows' = [rows EXCEPT ![c][i].clip = at]
  PROVE  /\ rows' \in [Cams -> Seq(Rows)]
         /\ \A d \in Cams : Len(rows'[d]) = Len(rows[d])
<1>1. /\ rows[c] \in Seq(Rows) /\ rows[c][i] \in Rows
      /\ at \in 0 .. MaxSignals
  BY Bounds
<1>2. [rows[c][i] EXCEPT !.end = at] \in Rows /\ [rows[c][i] EXCEPT !.clip = at] \in Rows
  BY <1>1 DEF Rows
<1>3. ASSUME NEW r \in Rows
      PROVE  [rows[c] EXCEPT ![i] = r] \in Seq(Rows) /\ Len([rows[c] EXCEPT ![i] = r]) = Len(rows[c])
  BY <1>1
<1> QED BY <1>2, <1>3

(* Taking a message sets the handler to a row that exists.                 *)
LEMMA ReceiveStartOrEndType ==
  ASSUME TypeOK, OnStart \/ OnEnd
  PROVE  TypeOK'
<1> USE DEF managerVars, counters
<1>1. CASE OnStart
  <2> DEFINE msg == Head(queue["manager"]["motion.started"])
  <2>1. QueueOK' /\ msg \in Messages
    BY <1>1, TypeParts, ReceiveType DEF OnStart, Subs, Topics
  <2>2. msg.cam \in Cams /\ msg.at \in 1 .. MaxSignals
    BY <2>1 DEF Messages
  <2>3. handler' \in Handlers /\ handler'.pc \in {"idle", "insert"}
    <3>1. handler' = Idle \/ handler' = [pc |-> "insert", cam |-> msg.cam, at |-> msg.at]
      BY <1>1 DEF OnStart
    <3> HIDE DEF msg
    <3>2. [pc |-> "insert", cam |-> msg.cam, at |-> msg.at] \in Handlers
      BY <2>2 DEF Handlers
    <3> QED BY <3>1, <3>2, HandlerIdle
  <2>4. RowsOK'
    BY <1>1, <2>3 DEF OnStart, RowsOK, TypeOK
  <2> QED BY <1>1, <2>1, <2>4 DEF OnStart, TypeOK, RowsOK, QueueOK
<1>2. CASE OnEnd
  <2> DEFINE msg == Head(queue["manager"]["motion.ended"])
  <2>1. QueueOK' /\ msg \in Messages
    BY <1>2, TypeParts, ReceiveType DEF OnEnd, Subs, Topics
  <2>2. msg.cam \in Cams /\ msg.at \in 1 .. MaxSignals
    BY <2>1 DEF Messages
  <2>3. open[msg.cam] \in Nat /\ open[msg.cam] \in 0 .. Len(rows[msg.cam])
    BY <2>2 DEF TypeOK
  <2>4. rows[msg.cam] \in Seq(Rows)
    BY <2>2 DEF TypeOK
  <2>5. open[msg.cam] # 0 => open[msg.cam] \in Nat \ {0} /\ open[msg.cam] \in DOMAIN rows[msg.cam]
    BY <2>3, <2>4, SMTT(30)
  <2>6. CASE open[msg.cam] = 0
    <3>1. handler' = Idle
      BY <1>2, <2>6 DEF OnEnd
    <3>2. RowsOK'
      BY <1>2, <2>2, <2>6, <3>1, HandlerType, HandlerIdle DEF OnEnd, RowsOK, TypeOK
    <3> QED BY <1>2, <2>1, <3>2 DEF OnEnd, TypeOK, RowsOK, QueueOK
  <2>7. CASE open[msg.cam] # 0
    <3>1. handler' = [pc |-> "close", cam |-> msg.cam, row |-> open[msg.cam], at |-> msg.at]
      BY <1>2, <2>7 DEF OnEnd
    <3>2. handler' \in Handlers
      BY <3>1, <2>2, <2>5, <2>7, HandlerType
    <3>3. RowsOK'
      BY <1>2, <2>2, <2>5, <2>7, <3>1, <3>2 DEF OnEnd, RowsOK, TypeOK
    <3> QED BY <1>2, <2>1, <3>3 DEF OnEnd, TypeOK, RowsOK, QueueOK
  <2> QED BY <2>6, <2>7
<1> QED BY <1>1, <1>2

(* Adding a row leaves the manager's references good.                      *)
LEMMA InsertType ==
  ASSUME TypeOK, handler.pc = "insert"
  PROVE  /\ NewRow \in Rows /\ handler.cam \in Cams /\ handler.at \in 1 .. MaxSignals
         /\ [rows EXCEPT ![handler.cam] = Append(@, NewRow)] \in [Cams -> Seq(Rows)]
         /\ \A c \in Cams : Len(rows[c]) \in Nat
         /\ \A c \in Cams : Len([rows EXCEPT ![handler.cam] = Append(@, NewRow)][c])
                 = IF c = handler.cam THEN Len(rows[c]) + 1 ELSE Len(rows[c])
<1>1. handler.cam \in Cams /\ handler.at \in 1 .. MaxSignals
  BY HandlerFields DEF TypeOK
<1>2. NewRow \in Rows
  BY <1>1, Bounds DEF NewRow, Rows
<1>3. rows \in [Cams -> Seq(Rows)]
  BY DEF TypeOK
<1> QED BY <1>1, <1>2, <1>3

(* The manager's database calls, successful or not.                        *)
LEMMA DatabaseType ==
  ASSUME TypeOK, ManagerSucceeds \/ InsertFails \/ CloseFails
  PROVE  TypeOK'
<1> USE Bounds DEF busVars, counters
<1>1. CASE InsertOK
  <2>1. handler.pc = "insert" /\ handler.cam \in Cams
    BY <1>1, InsertType DEF InsertOK
  <2>2. RowsOK'
    <3>1. /\ rows' \in [Cams -> Seq(Rows)]
          /\ \A c \in Cams : Len(rows[c]) \in Nat
          /\ \A c \in Cams : Len(rows'[c]) = IF c = handler.cam THEN Len(rows[c]) + 1 ELSE Len(rows[c])
      BY <1>1, <2>1, InsertType DEF InsertOK
    <3>2. /\ open' \in [Cams -> Nat]
          /\ \A c \in Cams : open'[c] \in 0 .. Len(rows'[c])
      BY <1>1, <2>1, <3>1 DEF InsertOK, TypeOK
    <3>3. handler' \in Handlers /\ handler'.pc = "idle"
      BY <1>1, HandlerIdle DEF InsertOK
    <3> QED BY <3>1, <3>2, <3>3 DEF RowsOK
  <2> QED BY <1>1, <2>2 DEF InsertOK, TypeOK, RowsOK
<1>2. CASE InsertFails
  <2>1. handler.pc = "insert" /\ handler.cam \in Cams
    BY <1>2, InsertType DEF InsertFails
  <2>2. RowsOK'
    <3>1. /\ rows' \in [Cams -> Seq(Rows)]
          /\ \A c \in Cams : Len(rows[c]) \in Nat /\ Len(rows'[c]) \in Nat
          /\ \A c \in Cams : Len(rows[c]) <= Len(rows'[c])
      <4>1. CASE UNCHANGED <<rows, orphaned>>
        BY <4>1, <2>1, InsertType DEF TypeOK
      <4>2. CASE rows' = [rows EXCEPT ![handler.cam] = Append(@, NewRow)]
        BY <4>2, <2>1, InsertType
      <4> QED BY <1>2, <4>1, <4>2 DEF InsertFails
    <3>2. /\ open' \in [Cams -> Nat]
          /\ \A c \in Cams : open'[c] \in 0 .. Len(rows'[c])
      BY <1>2, <3>1 DEF InsertFails, TypeOK
    <3>3. handler' \in Handlers /\ handler'.pc = "idle"
      BY <1>2, HandlerIdle DEF InsertFails
    <3> QED BY <3>1, <3>2, <3>3 DEF RowsOK
  <2>3. errors' \in 0 .. MaxErrors
    BY <1>2 DEF InsertFails, TypeOK
  <2> QED BY <1>2, <2>2, <2>3 DEF InsertFails, TypeOK, RowsOK
<1>3. CASE CloseOK \/ SetClip
  <2>1. /\ handler.pc \in {"close", "clip"}
        /\ handler.cam \in Cams /\ handler.at \in 1 .. MaxSignals
        /\ handler.row \in Nat \ {0} /\ handler.row \in DOMAIN rows[handler.cam]
    BY <1>3, HandlerFields DEF CloseOK, SetClip, TypeOK
  <2>2. rows \in [Cams -> Seq(Rows)]
    BY DEF TypeOK
  <2>3. /\ rows' \in [Cams -> Seq(Rows)]
        /\ \A c \in Cams : Len(rows'[c]) = Len(rows[c])
    BY <1>3, <2>1, <2>2, RowUpdate DEF CloseOK, SetClip
  <2>4. \A c \in Cams : DOMAIN rows'[c] = DOMAIN rows[c]
    BY <2>2, <2>3
  <2>5. /\ handler' \in Handlers
        /\ handler'.pc \in {"close", "clip"} => handler'.row = handler.row /\ handler'.cam = handler.cam
    <3>1. CASE CloseOK
      <4>1. handler' = [pc |-> "clip", cam |-> handler.cam, row |-> handler.row, at |-> handler.at]
        BY <3>1, HandlerFields DEF CloseOK, TypeOK
      <4> QED BY <2>1, <4>1, HandlerType
    <3>2. CASE SetClip
      BY <3>2, HandlerType, HandlerIdle DEF SetClip
    <3> QED BY <1>3, <3>1, <3>2
  <2>6. RowsOK'
    BY <1>3, <2>1, <2>3, <2>4, <2>5 DEF CloseOK, SetClip, RowsOK, TypeOK
  <2> QED BY <1>3, <2>6 DEF CloseOK, SetClip, TypeOK, RowsOK
<1>4. CASE CloseFails
  <2>1. errors' \in 0 .. MaxErrors
    BY <1>4 DEF CloseFails, TypeOK
  <2>2. RowsOK'
    BY <1>4, HandlerIdle DEF CloseFails, RowsOK, TypeOK
  <2> QED BY <1>4, <2>1, <2>2 DEF CloseFails, TypeOK, RowsOK
<1> QED BY <1>1, <1>2, <1>3, <1>4 DEF ManagerSucceeds

(* A restart empties the queues and forgets; the rows change only by being *)
(* closed.                                                                 *)
LEMMA RestartRows ==
  ASSUME TypeOK, Restart
  PROVE  /\ rows' \in [Cams -> Seq(Rows)]
         /\ \A c \in Cams : Len(rows'[c]) = Len(rows[c]) /\ DOMAIN rows'[c] = DOMAIN rows[c]
         /\ \A c \in Cams : \A i \in DOMAIN rows[c] :
              rows[c][i] \in Rows /\ (rows'[c][i] = rows[c][i] \/ rows'[c][i] = ClosedAtBoot(rows[c][i]))
<1>1. rows \in [Cams -> Seq(Rows)] /\ clock \in 0 .. MaxSignals
  BY DEF TypeOK
<1>2. CASE UNCHANGED rows
  BY <1>1, <1>2
<1>3. CASE rows' = [c \in Cams |-> [i \in DOMAIN rows[c] |-> ClosedAtBoot(rows[c][i])]]
  <2>1. ASSUME NEW c \in Cams
        PROVE  /\ rows'[c] = [i \in DOMAIN rows[c] |-> ClosedAtBoot(rows[c][i])]
               /\ rows[c] \in Seq(Rows)
               /\ DOMAIN rows[c] = 1 .. Len(rows[c]) /\ Len(rows[c]) \in Nat
               /\ \A i \in DOMAIN rows[c] : rows[c][i] \in Rows /\ ClosedAtBoot(rows[c][i]) \in Rows
    BY <1>1, <1>3, BootType
  <2>2. ASSUME NEW c \in Cams
        PROVE  rows'[c] \in [1 .. Len(rows[c]) -> Rows]
    BY <2>1
  <2>3. \A c \in Cams : rows'[c] \in Seq(Rows) /\ Len(rows'[c]) = Len(rows[c])
    BY <2>1, <2>2
  <2> QED BY <1>3, <2>1, <2>3
<1> QED BY <1>2, <1>3 DEF Restart

(* A restart empties what is in memory.                                    *)
LEMMA RestartType ==
  ASSUME TypeOK, Restart
  PROVE  TypeOK'
<1> USE Bounds
<1>1. motions' \subseteq Motions
  <2>1. \A m \in motions : [m EXCEPT !.to = clock] \in Motions
    BY DEF TypeOK, Motions
  <2> QED BY <2>1 DEF Restart, MemoryLost, TypeOK
<1>2. QueueOK'
  BY MotionEventsAssumption DEF Restart, MemoryLost, EmptyQueues, QueueOK
<1>3. subscribed' \in [Subs -> SUBSET Topics] /\ motionActive' \in [Cams -> BOOLEAN]
  BY DEF Restart, MemoryLost
<1>4. RowsOK'
  <2>1. \A c \in Cams : Len(rows'[c]) \in Nat
    BY RestartRows
  <2> QED BY <2>1, RestartRows, HandlerIdle DEF Restart, MemoryLost, RowsOK
<1>5. /\ clock' \in 0 .. MaxSignals /\ errors' \in 0 .. MaxErrors
      /\ restarts' \in 0 .. MaxRestarts /\ cancels' \in 0 .. MaxCancels
  BY DEF Restart, TypeOK
<1> QED BY <1>1, <1>2, <1>3, <1>4, <1>5 DEF TypeOK, QueueOK, RowsOK

(* Subscribing, and the recorder bridge.                                   *)
LEMMA SubscriberType ==
  ASSUME TypeOK,
         \/ \E s \in Subs, t \in Topics : Subscribe(s, t)
         \/ \E t \in Topics : Bridge(t)
  PROVE  TypeOK'
<1> USE DEF managerVars, counters
<1>1. ASSUME NEW s \in Subs, NEW t \in Topics, Subscribe(s, t) PROVE TypeOK'
  BY <1>1 DEF Subscribe, TypeOK
<1>2. ASSUME NEW t \in Topics, Bridge(t) PROVE TypeOK'
  <2>1. QueueOK'
    BY <1>2, TypeParts, ReceiveType DEF Bridge, Subs
  <2>2. motionActive' \in [Cams -> BOOLEAN]
    BY <1>2 DEF Bridge, TypeOK
  <2> QED BY <1>2, <2>1, <2>2 DEF Bridge, TypeOK, QueueOK
<1> QED BY <1>1, <1>2

(* Nothing changes.                                                        *)
LEMMA StutterType ==
  ASSUME TypeOK, UNCHANGED vars
  PROVE  TypeOK'
BY DEF TypeOK, vars, busVars, managerVars, counters

(* The initial state is well typed.                                        *)
LEMMA InitType == Init => TypeOK
<1> SUFFICES ASSUME Init PROVE TypeOK
  OBVIOUS
<1>1. QueueOK
  BY MotionEventsAssumption DEF Init, EmptyQueues, QueueOK
<1>2. RowsOK
  BY HandlerIdle DEF Init, RowsOK
<1> QED BY <1>1, <1>2, Bounds DEF Init, TypeOK, QueueOK, RowsOK

(* Every step keeps TypeOK.                                                *)
LEMMA StepType == TypeOK /\ [Next]_vars => TypeOK'
BY DetectorsType, ReceiveStartOrEndType, DatabaseType, RestartType, SubscriberType,
   StutterType DEF Next

(* Every variable keeps its type; no channel ever holds more than subBuf   *)
(* messages (bus.go:33), and the manager's references are to rows that     *)
(* exist.                                                                  *)
THEOREM TypeCorrect == Spec => []TypeOK
BY InitType, StepType, PTL DEF Spec

----------------------------------------------------------------------------
(* The inductive invariant. RowsTracked says who knows of an open row, but  *)
(* not that the manager, which forgot the camera before it went to the     *)
(* database, still means an open row when it closes one, nor that it has   *)
(* nothing to overwrite when it inserts one.                               *)

Handled ==
    /\ handler.pc \in {"insert", "close"} => open[handler.cam] = 0
    /\ handler.pc = "close" => rows[handler.cam][handler.row].end = 0
    /\ handler.pc = "clip" => rows[handler.cam][handler.row].end = handler.at

(* Orphaned rows exist.                                                    *)
Orphans ==
    \A o \in orphaned : o[1] \in Cams /\ o[2] \in DOMAIN rows[o[1]]

IInv == TypeOK /\ RowsTracked /\ Handled /\ Orphans

(* The initial state satisfies the inductive invariant.                    *)
LEMMA InitInv == Init => IInv
<1> SUFFICES ASSUME Init PROVE IInv
  OBVIOUS
<1>1. TypeOK
  BY InitType
<1>2. \A c \in Cams : DOMAIN rows[c] = {} /\ open[c] = 0
  BY DEF Init
<1>3. handler.pc = "idle" /\ orphaned = {}
  BY HandlerIdle DEF Init
<1> QED BY <1>1, <1>2, <1>3 DEF IInv, RowsTracked, Handled, Orphans

(* Steps that leave the manager and the table alone.                       *)
LEMMA FrameInv ==
  ASSUME IInv, TypeOK', UNCHANGED managerVars
  PROVE  IInv'
BY DEF IInv, RowsTracked, Handled, Orphans, managerVars, Tracked

(* onStart and onEnd move a row between the map and the handler.           *)
LEMMA ReceiveInv ==
  ASSUME IInv, TypeOK', OnStart \/ OnEnd
  PROVE  IInv'
<1>1. TypeOK /\ RowsTracked /\ Orphans
  BY DEF IInv
<1>2. handler.pc = "idle" /\ rows' = rows /\ orphaned' = orphaned
  BY HandlerIdle DEF OnStart, OnEnd
<1>3. Orphans'
  BY <1>1, <1>2 DEF Orphans
<1>4. CASE OnStart
  <2> DEFINE msg == Head(queue["manager"]["motion.started"])
  <2>1. open' = open
    BY <1>4 DEF OnStart
  <2>2. \/ handler'.pc = "idle"
        \/ handler'.pc = "insert" /\ open[handler'.cam] = 0
    <3>1. CASE open[msg.cam] # 0
      BY <1>4, <3>1, HandlerIdle DEF OnStart
    <3>2. CASE open[msg.cam] = 0
      BY <1>4, <3>2 DEF OnStart
    <3> QED BY <3>1, <3>2
  <2>3. Handled'
    BY <2>1, <2>2 DEF Handled
  <2>4. RowsTracked'
    BY <1>1, <1>2, <2>1, <2>2 DEF RowsTracked, Tracked
  <2> QED BY <1>3, <2>3, <2>4 DEF IInv
<1>5. CASE OnEnd
  <2> DEFINE msg == Head(queue["manager"]["motion.ended"])
  <2>1. msg.cam \in Cams
    BY <1>5, <1>1, TypeParts, ReceiveType DEF OnEnd, Messages, Subs, Topics
  <2>2. open \in [Cams -> Nat]
    BY <1>1 DEF TypeOK
  <2> DEFINE c0 == msg.cam
  <2>3. open' = [open EXCEPT ![c0] = 0]
    BY <1>5 DEF OnEnd
  <2>4. CASE open[c0] = 0
    <3>1. open' = open /\ handler'.pc = "idle"
      BY <1>5, <2>2, <2>3, <2>4, HandlerIdle DEF OnEnd
    <3>2. Handled' /\ RowsTracked'
      BY <1>1, <1>2, <3>1 DEF Handled, RowsTracked, Tracked
    <3> QED BY <1>3, <3>2 DEF IInv
  <2>5. CASE open[c0] # 0
    <3>1. handler'.pc = "close" /\ handler'.cam = c0 /\ handler'.row = open[c0]
      BY <1>5, <2>5 DEF OnEnd
    <3> HIDE DEF c0
    <3>2. c0 \in Cams
      BY <2>1 DEF c0
    <3>3. rows[c0][open[c0]].end = 0
      BY <1>1, <2>5, <3>2 DEF RowsTracked
    <3>4. open'[c0] = 0 /\ \A c \in Cams : c # c0 => open'[c] = open[c]
      BY <2>2, <2>3, <3>2
    <3>5. Handled'
      BY <1>2, <3>1, <3>3, <3>4 DEF Handled
    <3>6. RowsTracked'
      BY <1>1, <1>2, <3>1, <3>2, <3>4 DEF RowsTracked, Tracked
    <3> QED BY <1>3, <3>5, <3>6 DEF IInv
  <2> QED BY <2>4, <2>5
<1> QED BY <1>4, <1>5

(* What inserting a row changes.                                           *)
LEMMA AppendRow ==
  ASSUME TypeOK, handler.pc = "insert",
         rows' = [rows EXCEPT ![handler.cam] = Append(@, NewRow)]
  PROVE  /\ \A c \in Cams : \A i \in DOMAIN rows[c] :
              i \in DOMAIN rows'[c] /\ rows'[c][i] = rows[c][i]
         /\ \A c \in Cams : \A i \in DOMAIN rows'[c] :
              i \in DOMAIN rows[c] \/ (c = handler.cam /\ i = Len(rows[c]) + 1)
         /\ LET new == Len(rows[handler.cam]) + 1 IN
              /\ new \in DOMAIN rows'[handler.cam] /\ new \notin DOMAIN rows[handler.cam]
              /\ rows'[handler.cam][new] = NewRow /\ new # 0
<1>1. handler.cam \in Cams /\ rows \in [Cams -> Seq(Rows)] /\ NewRow \in Rows
  BY InsertType DEF TypeOK
<1>2. rows[handler.cam] \in Seq(Rows)
  BY <1>1
<1> QED BY <1>1, <1>2

(* A new row is named by the map, or orphaned by an error.                 *)
LEMMA InsertInv ==
  ASSUME IInv, TypeOK', InsertOK \/ InsertFails
  PROVE  IInv'
<1> DEFINE c0  == handler.cam
           new == Len(rows[c0]) + 1
<1>1. TypeOK /\ RowsTracked /\ Handled /\ Orphans
  BY DEF IInv
<1>2. handler.pc = "insert" /\ c0 \in Cams /\ handler'.pc = "idle"
  BY <1>1, InsertType, HandlerIdle DEF InsertOK, InsertFails
<1>3. open[c0] = 0 /\ NewRow.end = 0
  BY <1>1, <1>2 DEF Handled, NewRow
<1>4. Handled'
  BY <1>2 DEF Handled
<1>5. CASE InsertFails /\ UNCHANGED <<rows, orphaned>>
  BY <1>1, <1>2, <1>4, <1>5 DEF InsertFails, IInv, RowsTracked, Orphans, Tracked
<1>6. CASE rows' = [rows EXCEPT ![c0] = Append(@, NewRow)]
  <2>1. /\ \A c \in Cams : \A i \in DOMAIN rows[c] :
             i \in DOMAIN rows'[c] /\ rows'[c][i] = rows[c][i]
        /\ \A c \in Cams : \A i \in DOMAIN rows'[c] :
             i \in DOMAIN rows[c] \/ (c = c0 /\ i = new)
        /\ new \in DOMAIN rows'[c0] /\ new \notin DOMAIN rows[c0]
        /\ rows'[c0][new] = NewRow /\ new # 0
    BY <1>1, <1>2, <1>6, AppendRow
  <2>2. \A c \in Cams : 0 \notin DOMAIN rows[c] /\ (open[c] # 0 => open[c] \in DOMAIN rows[c])
    <3>1. \A c \in Cams : rows[c] \in Seq(Rows) /\ open[c] \in 0 .. Len(rows[c])
      BY <1>1 DEF TypeOK
    <3> QED BY <3>1
  <2>3. open \in [Cams -> Nat]
    BY <1>1 DEF TypeOK
  <2> HIDE DEF c0, new
  <2>4. CASE InsertOK
    <3>1. open' = [open EXCEPT ![c0] = new] /\ orphaned' = orphaned
      BY <2>4 DEF InsertOK, c0, new
    <3>2. open'[c0] = new /\ \A c \in Cams : c # c0 => open'[c] = open[c]
      BY <1>2, <2>3, <3>1
    <3>3. RowsTracked'
      <4>1. \A c \in Cams : open'[c] # 0 => rows'[c][open'[c]].end = 0
        BY <1>1, <1>3, <2>1, <2>2, <3>2 DEF RowsTracked
      <4>2. ASSUME NEW c \in Cams, NEW i \in DOMAIN rows[c] PROVE Tracked(c, i)'
        <5>1. Tracked(c, i) /\ rows'[c][i] = rows[c][i] /\ i # 0
          BY <1>1, <2>1, <2>2 DEF RowsTracked
        <5>2. open[c] = i => c # c0
          BY <1>3, <5>1
        <5>3. handler.pc # "close" /\ handler.pc # "clip"
          BY <1>2
        <5> QED BY <3>1, <3>2, <5>1, <5>2, <5>3 DEF Tracked
      <4>3. \A c \in Cams : \A i \in DOMAIN rows'[c] : c = c0 /\ i = new => Tracked(c, i)'
        BY <1>3, <2>1, <3>2 DEF Tracked
      <4> QED BY <2>1, <4>1, <4>2, <4>3 DEF RowsTracked
    <3>4. Orphans'
      BY <1>1, <2>1, <3>1 DEF Orphans
    <3> QED BY <1>4, <3>3, <3>4 DEF IInv
  <2>5. CASE InsertFails /\ ~UNCHANGED <<rows, orphaned>>
    <3>1. open' = open /\ orphaned' = orphaned \cup {<<c0, new>>}
      BY <1>1, <2>5 DEF InsertFails, c0, new, TypeOK
    <3>2. RowsTracked'
      <4>1. \A c \in Cams : open'[c] # 0 => rows'[c][open'[c]].end = 0
        BY <1>1, <2>1, <2>2, <3>1 DEF RowsTracked
      <4>2. \A c \in Cams : \A i \in DOMAIN rows[c] : Tracked(c, i)'
        BY <1>1, <1>2, <2>1, <3>1 DEF RowsTracked, Tracked
      <4>3. \A c \in Cams : \A i \in DOMAIN rows'[c] : c = c0 /\ i = new => Tracked(c, i)'
        BY <3>1 DEF Tracked
      <4> QED BY <2>1, <4>1, <4>2, <4>3 DEF RowsTracked
    <3>3. Orphans'
      BY <1>1, <1>2, <2>1, <3>1 DEF Orphans
    <3> QED BY <1>4, <3>2, <3>3 DEF IInv
  <2> QED BY <1>5, <2>4, <2>5
<1> QED BY <1>5, <1>6 DEF InsertOK, InsertFails

(* What writing a time to a row changes.                                   *)
LEMMA UpdateRow ==
  ASSUME rows \in [Cams -> Seq(Rows)], NEW c \in Cams, NEW i \in DOMAIN rows[c], NEW at,
         \/ rows' = [rows EXCEPT ![c][i].end = at]
         \/ rows' = [rows EXCEPT ![c][i].clip = at]
  PROVE  /\ rows' = [rows EXCEPT ![c][i].end = at] =>
              rows'[c][i].end = at /\ rows'[c][i].ts = rows[c][i].ts
         /\ rows' = [rows EXCEPT ![c][i].clip = at] =>
              /\ rows'[c][i].end = rows[c][i].end /\ rows'[c][i].ts = rows[c][i].ts
              /\ rows'[c][i].clip = at
         /\ \A d \in Cams : DOMAIN rows'[d] = DOMAIN rows[d]
         /\ \A d \in Cams : \A j \in DOMAIN rows[d] :
              <<d, j>> # <<c, i>> => rows'[d][j] = rows[d][j]
<1>1. rows[c] \in Seq(Rows) /\ rows[c][i] \in Rows
  OBVIOUS
<1>2. ASSUME NEW r, rows' = [rows EXCEPT ![c] = [rows[c] EXCEPT ![i] = r]]
      PROVE  /\ rows'[c][i] = r
             /\ \A d \in Cams : DOMAIN rows'[d] = DOMAIN rows[d]
             /\ \A d \in Cams : \A j \in DOMAIN rows[d] :
                  <<d, j>> # <<c, i>> => rows'[d][j] = rows[d][j]
  BY <1>1, <1>2
<1>3. ASSUME rows' = [rows EXCEPT ![c][i].end = at]
      PROVE  /\ rows'[c][i].end = at /\ rows'[c][i].ts = rows[c][i].ts
             /\ rows' = [rows EXCEPT ![c] = [rows[c] EXCEPT ![i] = [rows[c][i] EXCEPT !.end = at]]]
  <2>1. rows' = [rows EXCEPT ![c] = [rows[c] EXCEPT ![i] = [rows[c][i] EXCEPT !.end = at]]]
    BY <1>3
  <2>2. rows'[c][i] = [rows[c][i] EXCEPT !.end = at]
    BY <1>2, <2>1
  <2> QED BY <1>1, <2>1, <2>2 DEF Rows
<1>4. ASSUME rows' = [rows EXCEPT ![c][i].clip = at]
      PROVE  /\ rows'[c][i].end = rows[c][i].end /\ rows'[c][i].ts = rows[c][i].ts
             /\ rows'[c][i].clip = at
             /\ rows' = [rows EXCEPT ![c] = [rows[c] EXCEPT ![i] = [rows[c][i] EXCEPT !.clip = at]]]
  <2>1. rows' = [rows EXCEPT ![c] = [rows[c] EXCEPT ![i] = [rows[c][i] EXCEPT !.clip = at]]]
    BY <1>4
  <2>2. rows'[c][i] = [rows[c][i] EXCEPT !.clip = at]
    BY <1>2, <2>1
  <2> QED BY <1>1, <2>1, <2>2 DEF Rows
<1>5. /\ \A d \in Cams : DOMAIN rows'[d] = DOMAIN rows[d]
      /\ \A d \in Cams : \A j \in DOMAIN rows[d] :
           <<d, j>> # <<c, i>> => rows'[d][j] = rows[d][j]
  BY <1>2, <1>3, <1>4
<1> QED BY <1>3, <1>4, <1>5

(* Close, SetClip and their failures.                                      *)
LEMMA CloseInv ==
  ASSUME IInv, TypeOK', CloseOK \/ SetClip \/ CloseFails
  PROVE  IInv'
<1> DEFINE c0 == handler.cam
           i0 == handler.row
<1>1. TypeOK /\ RowsTracked /\ Handled /\ Orphans
  BY DEF IInv
<1>2. /\ handler.pc \in {"close", "clip"} /\ c0 \in Cams /\ i0 \in DOMAIN rows[c0]
      /\ handler.at # 0
  BY <1>1, HandlerFields DEF CloseOK, SetClip, CloseFails, TypeOK
<1>3. /\ rows \in [Cams -> Seq(Rows)] /\ open' = open
  BY <1>1 DEF CloseOK, SetClip, CloseFails, TypeOK
<1>4. CASE CloseOK
  <2>1. /\ handler.pc = "close" /\ open[c0] = 0 /\ rows[c0][i0].end = 0
        /\ handler'.pc = "clip" /\ handler'.cam = c0 /\ handler'.row = i0
        /\ handler'.at = handler.at /\ orphaned' = orphaned
    BY <1>1, <1>4, HandlerFields DEF CloseOK, Handled, TypeOK
  <2>2. rows' = [rows EXCEPT ![c0][i0].end = handler.at]
    BY <1>4 DEF CloseOK
  <2>3. /\ rows'[c0][i0].end = handler.at
        /\ \A d \in Cams : DOMAIN rows'[d] = DOMAIN rows[d]
        /\ \A d \in Cams : \A j \in DOMAIN rows[d] :
             <<d, j>> # <<c0, i0>> => rows'[d][j] = rows[d][j]
    <3> HIDE DEF c0, i0
    <3> QED BY <1>2, <1>3, <2>2, UpdateRow
  <2> HIDE DEF c0, i0
  <2>4. RowsTracked'
    <3>1. \A c \in Cams : open[c] # 0 => open[c] \in DOMAIN rows[c] /\ <<c, open[c]>> # <<c0, i0>>
      <4>1. \A c \in Cams : rows[c] \in Seq(Rows) /\ open[c] \in 0 .. Len(rows[c])
        BY <1>1 DEF TypeOK
      <4> QED BY <2>1, <4>1
    <3>2. \A c \in Cams : open'[c] # 0 => rows'[c][open'[c]].end = 0
      BY <1>1, <1>3, <2>3, <3>1 DEF RowsTracked
    <3>3. \A c \in Cams : \A i \in DOMAIN rows[c] : c = c0 /\ i = i0 => Tracked(c, i)'
      BY <1>2, <2>1, <2>3 DEF Tracked
    <3>4. \A c \in Cams : \A i \in DOMAIN rows[c] : <<c, i>> # <<c0, i0>> => Tracked(c, i)'
      BY <1>1, <1>3, <2>1, <2>3 DEF RowsTracked, Tracked, c0, i0
    <3> QED BY <2>3, <3>2, <3>3, <3>4 DEF RowsTracked
  <2>5. Handled' /\ Orphans'
    BY <1>1, <1>2, <2>1, <2>3 DEF Handled, Orphans
  <2> QED BY <2>4, <2>5 DEF IInv
<1>5. CASE SetClip
  <2>1. /\ handler.pc = "clip" /\ rows[c0][i0].end = handler.at
        /\ handler'.pc = "idle" /\ orphaned' = orphaned
    BY <1>1, <1>5, HandlerIdle DEF SetClip, Handled
  <2>2. rows' = [rows EXCEPT ![c0][i0].clip = handler.at]
    BY <1>5 DEF SetClip
  <2>3. /\ rows'[c0][i0].end = handler.at /\ rows'[c0][i0].clip = handler.at
        /\ \A d \in Cams : DOMAIN rows'[d] = DOMAIN rows[d]
        /\ \A d \in Cams : \A j \in DOMAIN rows[d] :
             <<d, j>> # <<c0, i0>> => rows'[d][j] = rows[d][j]
    <3>1. /\ rows'[c0][i0].end = rows[c0][i0].end /\ rows'[c0][i0].clip = handler.at
          /\ \A d \in Cams : DOMAIN rows'[d] = DOMAIN rows[d]
          /\ \A d \in Cams : \A j \in DOMAIN rows[d] :
               <<d, j>> # <<c0, i0>> => rows'[d][j] = rows[d][j]
      <4> HIDE DEF c0, i0
      <4> QED BY <1>2, <1>3, <2>2, UpdateRow, SMTT(30)
    <3> QED BY <2>1, <3>1
  <2>4. \A c \in Cams : open[c] # 0 => open[c] \in DOMAIN rows[c] /\ <<c, open[c]>> # <<c0, i0>>
    <3>1. \A c \in Cams : rows[c] \in Seq(Rows) /\ open[c] \in 0 .. Len(rows[c])
      BY <1>1 DEF TypeOK
    <3> QED BY <1>1, <1>2, <2>1, <3>1 DEF RowsTracked
  <2> HIDE DEF c0, i0
  <2>5. RowsTracked'
    BY <1>1, <1>2, <1>3, <2>1, <2>3, <2>4, SMTT(30) DEF RowsTracked, c0, i0, Tracked
  <2>6. Handled' /\ Orphans'
    BY <1>1, <1>2, <2>1, <2>3 DEF Handled, Orphans
  <2> QED BY <2>5, <2>6 DEF IInv
<1>6. CASE CloseFails
  <2>1. /\ rows' = rows /\ orphaned' = orphaned \cup {<<c0, i0>>} /\ handler'.pc = "idle"
    BY <1>1, <1>6, HandlerIdle DEF CloseFails, TypeOK
  <2>2. RowsTracked' /\ Handled' /\ Orphans'
    BY <1>1, <1>2, <1>3, <2>1 DEF RowsTracked, Handled, Orphans, Tracked
  <2> QED BY <2>2 DEF IInv
<1> QED BY <1>4, <1>5, <1>6

(* CloseAllOpen closes what it finds; what it cannot close is orphaned.    *)
LEMMA RestartInv ==
  ASSUME IInv, TypeOK', Restart
  PROVE  IInv'
<1>1. TypeOK /\ RowsTracked /\ Handled /\ Orphans
  BY DEF IInv
<1>2. handler'.pc = "idle" /\ \A c \in Cams : open'[c] = 0
  BY HandlerIdle DEF Restart, MemoryLost
<1>3. \A c \in Cams : DOMAIN rows'[c] = DOMAIN rows[c]
  BY <1>1, RestartRows
<1>4. \A c \in Cams : \A i \in DOMAIN rows[c] : rows[c][i] \in Rows
  BY <1>1, RestartRows
<1>5. HalfDone \subseteq orphaned' /\ orphaned \subseteq orphaned'
  BY DEF Restart
<1>6. ASSUME NEW c \in Cams, NEW i \in DOMAIN rows[c], rows[c][i].end # 0,
             rows'[c][i] = rows[c][i]
      PROVE  Tracked(c, i)'
  <2>1. Tracked(c, i)
    BY <1>1 DEF RowsTracked
  <2>2. CASE handler.pc = "clip" /\ handler.cam = c /\ handler.row = i
    BY <1>5, <2>2 DEF HalfDone, Tracked
  <2> QED BY <1>5, <1>6, <2>1, <2>2 DEF Tracked
<1>7. \A o \in HalfDone : o[1] \in Cams /\ o[2] \in DOMAIN rows[o[1]]
  <2>1. handler.pc = "clip" => handler.cam \in Cams /\ handler.row \in DOMAIN rows[handler.cam]
    BY <1>1, HandlerFields DEF TypeOK
  <2> QED BY <2>1 DEF HalfDone
<1>8. CASE /\ rows' = [c \in Cams |-> [i \in DOMAIN rows[c] |-> ClosedAtBoot(rows[c][i])]]
           /\ orphaned' = orphaned \cup HalfDone
  <2>1. ASSUME NEW c \in Cams, NEW i \in DOMAIN rows[c]
        PROVE  /\ rows'[c][i] = ClosedAtBoot(rows[c][i])
               /\ rows'[c][i].end # 0
               /\ rows[c][i].end # 0 => rows'[c][i] = rows[c][i]
               /\ rows[c][i].end = 0 => rows'[c][i].clip = rows'[c][i].end
    <3>1. rows'[c][i] = ClosedAtBoot(rows[c][i])
      BY <1>8
    <3>2. clock \in 0 .. MaxSignals /\ rows[c][i] \in Rows
      BY <1>1, <1>4 DEF TypeOK
    <3> QED BY <3>1, <3>2, BootType
  <2>2. \A c \in Cams : \A i \in DOMAIN rows[c] : Tracked(c, i)'
    BY <1>6, <2>1 DEF Tracked
  <2>3. RowsTracked'
    BY <1>2, <1>3, <2>2 DEF RowsTracked
  <2>4. Orphans'
    BY <1>1, <1>3, <1>7, <1>8, <2>1 DEF Orphans
  <2> QED BY <1>2, <2>3, <2>4 DEF IInv, Handled
<1>9. CASE /\ errors < MaxErrors /\ UNCHANGED rows
           /\ orphaned' = orphaned \cup HalfDone \cup OpenRows
  <2>1. \A c \in Cams : \A i \in DOMAIN rows[c] : rows[c][i].end = 0 => <<c, i>> \in orphaned'
    BY <1>9 DEF OpenRows
  <2>2. \A o \in OpenRows : o[1] \in Cams /\ o[2] \in DOMAIN rows[o[1]]
    BY DEF OpenRows
  <2>3. \A c \in Cams : \A i \in DOMAIN rows[c] : Tracked(c, i)'
    BY <1>6, <1>9, <2>1 DEF Tracked
  <2>4. RowsTracked'
    BY <1>2, <1>3, <2>3 DEF RowsTracked
  <2>5. Orphans'
    BY <1>1, <1>7, <1>9, <2>2 DEF Orphans
  <2> QED BY <1>2, <2>4, <2>5 DEF IInv, Handled
<1> QED BY <1>8, <1>9 DEF Restart

(* Every step keeps the inductive invariant.                               *)
LEMMA StepInv == IInv /\ [Next]_vars => IInv'
<1> SUFFICES ASSUME IInv, [Next]_vars PROVE IInv'
  OBVIOUS
<1>1. TypeOK'
  BY StepType DEF IInv
<1>2. CASE Detectors
  BY <1>1, <1>2, FrameInv DEF Detectors, Start, End, CancelPull
<1>3. CASE OnStart \/ OnEnd
  BY <1>1, <1>3, ReceiveInv
<1>4. CASE ManagerSucceeds \/ InsertFails \/ CloseFails
  BY <1>1, <1>4, InsertInv, CloseInv DEF ManagerSucceeds
<1>5. CASE \/ \E s \in Subs, t \in Topics : Subscribe(s, t)
           \/ \E t \in Topics : Bridge(t)
  BY <1>1, <1>5, FrameInv DEF Subscribe, Bridge
<1>6. CASE Restart
  BY <1>1, <1>6, RestartInv
<1>7. CASE UNCHANGED vars
  BY <1>1, <1>7, FrameInv DEF vars
<1> QED BY <1>2, <1>3, <1>4, <1>5, <1>6, <1>7 DEF Next

(* The inductive invariant holds throughout.                               *)
THEOREM Invariant == Spec => []IInv
BY InitInv, StepInv, PTL DEF Spec

(* Whatever is dropped, reordered, interrupted or fails: an open event row *)
(* is the one the manager's map names, or the one it is closing, or one a  *)
(* failed call left (manager.go:99, 132); closed rows have their clip.     *)
THEOREM RowsAreTracked == Spec => []RowsTracked
<1>1. IInv => RowsTracked
  BY DEF IInv
<1> QED BY Invariant, <1>1, PTL

----------------------------------------------------------------------------
(* The events table is an EventLog. A step of the manager or of the boot   *)
(* is a step of the log; everything else leaves the windows alone.         *)

(* What the refinement mapping makes of a table.                           *)
LEMMA WindowsOf ==
  ASSUME NEW c \in Cams
  PROVE  /\ DOMAIN Windows = Cams /\ DOMAIN Windows[c] = DOMAIN rows[c]
         /\ Windows[c] = [i \in DOMAIN rows[c] |-> Window(c, i)]
         /\ \A i \in DOMAIN rows[c] :
              /\ Windows[c][i] = Window(c, i)
              /\ Windows[c][i].ts = rows[c][i].ts /\ Windows[c][i].end = rows[c][i].end
              /\ Windows[c][i].lost = (<<c, i>> \in orphaned)
BY DEF Windows, Window

(* The initial table is the empty log.                                     *)
LEMMA LogInit == Init => Log!Init
BY DEF Init, Log!Init, Windows

(* An added row opens a window, unless it is lost at once one after the    *)
(* others.                                                                 *)
LEMMA InsertOpens ==
  ASSUME rows \in [Cams -> Seq(Rows)], NEW c0 \in Cams, NEW r \in Rows, r.end = 0,
         rows' = [rows EXCEPT ![c0] = Append(@, r)],
         \A c \in Cams : \A i \in DOMAIN rows[c] :
            (<<c, i>> \in orphaned') <=> (<<c, i>> \in orphaned),
         \/ <<c0, Len(rows[c0]) + 1>> \in orphaned'
         \/ \A i \in DOMAIN rows[c0] : rows[c0][i].end # 0 \/ <<c0, i>> \in orphaned
  PROVE  Log!Next
<1> DEFINE q == rows[c0]
           n == Len(q) + 1
           w == [ts |-> r.ts, end |-> 0, lost |-> <<c0, n>> \in orphaned']
           W == [ts : 1 .. MaxSignals, end : 0 .. MaxSignals, lost : BOOLEAN]
           f == Windows[c0]
<1>1. /\ q \in Seq(Rows) /\ Len(q) \in Nat /\ DOMAIN q = 1 .. Len(q)
      /\ \A i \in DOMAIN q : q[i] \in Rows
  OBVIOUS
<1>2. /\ rows'[c0] = Append(q, r) /\ DOMAIN rows'[c0] = 1 .. n
      /\ \A i \in 1 .. Len(q) : rows'[c0][i] = q[i]
      /\ rows'[c0][n] = r
  BY <1>1
<1>3. \A c \in Cams : c # c0 => rows'[c] = rows[c]
  OBVIOUS
<1>4. f \in Seq(W) /\ Len(f) = Len(q)
  <2>1. f = [i \in 1 .. Len(q) |-> Window(c0, i)]
    BY <1>1, WindowsOf
  <2>2. \A i \in 1 .. Len(q) : Window(c0, i) \in W
    <3> TAKE i \in 1 .. Len(q)
    <3>1. rows[c0][i] \in Rows
      BY <1>1
    <3>2. rows[c0][i].ts \in 1 .. MaxSignals /\ rows[c0][i].end \in 0 .. MaxSignals
      BY <3>1 DEF Rows
    <3>3. (<<c0, i>> \in orphaned) \in BOOLEAN
      OBVIOUS
    <3> QED BY <3>2, <3>3, Zenon DEF Window
  <2> HIDE DEF f, W, q
  <2> QED BY <1>1, <2>1, <2>2
<1>5. w \in W /\ w.ts \in 1 .. MaxSignals
  BY Bounds DEF Rows
<1>6. Windows'[c0] = Append(f, w)
  <2>1. /\ DOMAIN Windows'[c0] = 1 .. n
        /\ Windows'[c0] = [i \in 1 .. n |-> Window(c0, i)']
    BY <1>2 DEF Windows
  <2>2. \A i \in 1 .. Len(q) : Window(c0, i)' = f[i]
    <3> TAKE i \in 1 .. Len(q)
    <3>1. i \in DOMAIN rows[c0] /\ f[i] = Window(c0, i)
      BY <1>1, WindowsOf
    <3> QED BY <1>2, <3>1 DEF Window
  <2>3. \A i : i = n => Window(c0, i)' = w
    <3> SUFFICES ASSUME NEW i, i = n PROVE Window(c0, i)' = w
      OBVIOUS
    <3>1. rows'[c0][i] = r
      BY <1>2
    <3>2. Window(c0, i)' = [ts |-> r.ts, end |-> r.end, lost |-> <<c0, i>> \in orphaned']
      BY <3>1 DEF Window
    <3> HIDE DEF n
    <3> QED BY <3>2
  <2> HIDE DEF f, w, W, q
  <2>4. /\ Append(f, w) = [i \in 1 .. Len(q) + 1 |-> Append(f, w)[i]]
        /\ \A i \in 1 .. Len(q) : Append(f, w)[i] = f[i]
        /\ Append(f, w)[Len(q) + 1] = w
    <3>1. /\ Append(f, w) \in Seq(W) /\ Len(Append(f, w)) = Len(q) + 1
          /\ \A i \in 1 .. Len(q) : Append(f, w)[i] = f[i]
          /\ Append(f, w)[Len(q) + 1] = w
      BY <1>4, <1>5, AppendProperties
    <3> QED BY <3>1, LenProperties
  <2>5. \A i \in 1 .. n : Window(c0, i)' = Append(f, w)[i]
    <3> TAKE i \in 1 .. n
    <3>1. i = n \/ i \in 1 .. Len(q)
      BY <1>1
    <3> QED BY <2>2, <2>3, <2>4, <3>1
  <2> QED BY <2>1, <2>4, <2>5
<1>7. \A c \in Cams : c # c0 => Windows'[c] = Windows[c]
  <2> SUFFICES ASSUME NEW c \in Cams, c # c0 PROVE Windows'[c] = Windows[c]
    OBVIOUS
  <2>1. \A i \in DOMAIN rows[c] : Window(c, i)' = Window(c, i)
    BY <1>3 DEF Window
  <2>2. /\ Windows'[c] = [i \in DOMAIN rows[c] |-> Window(c, i)']
        /\ Windows[c] = [i \in DOMAIN rows[c] |-> Window(c, i)]
    BY <1>3 DEF Windows
  <2> QED BY <2>1, <2>2
<1>8. Windows' = [Windows EXCEPT ![c0] = Append(@, w)]
  <2>1. DOMAIN Windows = Cams /\ DOMAIN Windows' = Cams
    BY DEF Windows
  <2>2. Windows' = [c \in Cams |-> Windows'[c]] /\ Windows = [c \in Cams |-> Windows[c]]
    BY DEF Windows
  <2> HIDE DEF w, f
  <2> QED BY <1>6, <1>7, <2>1, <2>2 DEF f
<1>9. w.lost \/ Log!AllClosed(c0)
  <2>1. CASE \A i \in DOMAIN rows[c0] : rows[c0][i].end # 0 \/ <<c0, i>> \in orphaned
    BY <2>1, WindowsOf DEF Log!AllClosed
  <2> QED BY <2>1
<1>10. Log!Open(c0)
  <2>1. w.lost \in BOOLEAN /\ w = [ts |-> w.ts, end |-> 0, lost |-> w.lost]
    OBVIOUS
  <2> HIDE DEF w
  <2> QED BY <1>5, <1>8, <1>9, <2>1 DEF Log!Open
<1> QED BY <1>10 DEF Log!Next

(* Closing rows, one by the manager or all by the boot, closes windows;    *)
(* giving rows up loses windows.                                           *)
LEMMA ClosingCloses ==
  ASSUME \A c \in Cams : DOMAIN rows'[c] = DOMAIN rows[c],
         orphaned \subseteq orphaned',
         \A c \in Cams : \A i \in DOMAIN rows[c] :
            /\ rows'[c][i].ts = rows[c][i].ts
            /\ \/ rows'[c][i].end = rows[c][i].end
               \/ rows[c][i].end = 0 /\ rows'[c][i].end \in 1 .. MaxSignals
  PROVE  Log!Next
<1>1. /\ DOMAIN Windows' = Cams
      /\ \A c \in Cams : /\ DOMAIN Windows[c] = DOMAIN rows[c]
                         /\ DOMAIN Windows'[c] = DOMAIN rows'[c]
  BY DEF Windows
<1>2. ASSUME NEW c \in Cams, NEW i \in DOMAIN rows[c]
      PROVE  Log!Moved(Windows[c][i], Windows'[c][i])
  <2>1. Windows'[c][i] = Window(c, i)' /\ Windows[c][i] = Window(c, i)
    BY DEF Windows
  <2>2. /\ Windows'[c][i].ts = rows'[c][i].ts /\ Windows[c][i].ts = rows[c][i].ts
        /\ Windows'[c][i].end = rows'[c][i].end /\ Windows[c][i].end = rows[c][i].end
        /\ Windows'[c][i].lost = (<<c, i>> \in orphaned')
        /\ Windows[c][i].lost = (<<c, i>> \in orphaned)
    BY <2>1 DEF Window
  <2> QED BY <2>2 DEF Log!Moved
<1> QED BY <1>1, <1>2 DEF Log!Next, Log!CloseSome

(* Every step of the manager is a step of the log, or a stutter.           *)
LEMMA LogStep ==
  ASSUME IInv, [Next]_vars
  PROVE  [Log!Next]_Windows
<1> USE DEF managerVars
<1>1. TypeOK /\ RowsTracked /\ Handled /\ Orphans /\ rows \in [Cams -> Seq(Rows)]
  BY DEF IInv, TypeOK
<1>2. CASE UNCHANGED <<rows, orphaned>>
  BY <1>2 DEF Windows, Window
<1>3. ASSUME handler.pc = "insert"
      PROVE  /\ handler.cam \in Cams /\ NewRow \in Rows /\ NewRow.end = 0
             /\ open[handler.cam] = 0
  BY <1>1, <1>3, InsertType DEF NewRow, Handled
<1>4. CASE InsertOK
  <2> DEFINE c0 == handler.cam
  <2>1. /\ handler.pc = "insert" /\ orphaned' = orphaned
        /\ rows' = [rows EXCEPT ![c0] = Append(@, NewRow)]
    BY <1>4 DEF InsertOK
  <2>2. ASSUME NEW i \in DOMAIN rows[c0] PROVE rows[c0][i].end # 0 \/ <<c0, i>> \in orphaned
    <3>1. Tracked(c0, i) /\ i # 0
      BY <1>1, <1>3, <2>1 DEF RowsTracked
    <3> QED BY <1>3, <2>1, <3>1 DEF Tracked
  <2> QED BY <1>1, <1>3, <2>1, <2>2, InsertOpens
<1>5. CASE InsertFails
  <2>1. CASE UNCHANGED <<rows, orphaned>>
    BY <1>2, <2>1
  <2> DEFINE c0 == handler.cam
             n == Len(rows[c0]) + 1
  <2>2. CASE /\ rows' = [rows EXCEPT ![c0] = Append(@, NewRow)]
             /\ orphaned' = orphaned \cup {<<c0, n>>}
    <3>1. handler.pc = "insert"
      BY <1>5 DEF InsertFails
    <3>2. \A c \in Cams : \A i \in DOMAIN rows[c] : <<c, i>> # <<c0, n>>
      <4>1. \A c \in Cams : DOMAIN rows[c] = 1 .. Len(rows[c]) /\ Len(rows[c]) \in Nat
        BY <1>1
      <4> QED BY <4>1
    <3>3. <<c0, n>> \in orphaned'
      BY <2>2
    <3>4. \A c \in Cams : \A i \in DOMAIN rows[c] :
             (<<c, i>> \in orphaned') <=> (<<c, i>> \in orphaned)
      BY <2>2, <3>2
    <3> QED BY <1>1, <1>3, <2>2, <3>1, <3>3, <3>4, InsertOpens
  <2> QED BY <1>5, <2>1, <2>2 DEF InsertFails
<1>6. CASE CloseOK \/ SetClip
  <2> DEFINE c0 == handler.cam
             i0 == handler.row
  <2>1. /\ c0 \in Cams /\ i0 \in DOMAIN rows[c0] /\ handler.at \in 1 .. MaxSignals
        /\ orphaned \subseteq orphaned'
    BY <1>1, <1>6, HandlerFields DEF CloseOK, SetClip, TypeOK
  <2>2. \/ CloseOK /\ rows' = [rows EXCEPT ![c0][i0].end = handler.at]
        \/ SetClip /\ rows' = [rows EXCEPT ![c0][i0].clip = handler.at]
    BY <1>6 DEF CloseOK, SetClip
  <2>3. /\ \A d \in Cams : DOMAIN rows'[d] = DOMAIN rows[d]
        /\ \A d \in Cams : \A j \in DOMAIN rows[d] :
             <<d, j>> # <<c0, i0>> => rows'[d][j] = rows[d][j]
    <3>1. CASE rows' = [rows EXCEPT ![c0][i0].end = handler.at]
      BY ONLY <1>1, <2>1, <3>1, UpdateRow, SMTT(30)
    <3>2. CASE rows' = [rows EXCEPT ![c0][i0].clip = handler.at]
      BY ONLY <1>1, <2>1, <3>2, UpdateRow
    <3> QED BY <2>2, <3>1, <3>2
  <2>4. /\ rows'[c0][i0].ts = rows[c0][i0].ts
        /\ \/ rows'[c0][i0].end = rows[c0][i0].end
           \/ rows[c0][i0].end = 0 /\ rows'[c0][i0].end \in 1 .. MaxSignals
    <3>1. CASE CloseOK
      <4>1. rows[c0][i0].end = 0
        BY <1>1, <3>1, SMTT(30) DEF CloseOK, Handled
      <4>2. rows'[c0][i0].end = handler.at /\ rows'[c0][i0].ts = rows[c0][i0].ts
        BY <1>1, <2>1, <3>1, UpdateRow DEF CloseOK
      <4> HIDE DEF c0, i0
      <4> QED BY <2>1, <4>1, <4>2
    <3>2. CASE SetClip
      BY <1>1, <2>1, <3>2, UpdateRow DEF SetClip
    <3> QED BY <1>6, <3>1, <3>2
  <2> HIDE DEF c0, i0
  <2>5. \A c \in Cams : \A i \in DOMAIN rows[c] :
          /\ rows'[c][i].ts = rows[c][i].ts
          /\ \/ rows'[c][i].end = rows[c][i].end
             \/ rows[c][i].end = 0 /\ rows'[c][i].end \in 1 .. MaxSignals
    BY <2>3, <2>4
  <2> QED BY <2>1, <2>3, <2>5, ClosingCloses
<1>7. CASE CloseFails
  <2>1. rows' = rows /\ orphaned \subseteq orphaned'
    BY <1>7 DEF CloseFails
  <2> QED BY <2>1, ClosingCloses
<1>8. CASE Restart
  <2>1. /\ \A c \in Cams : DOMAIN rows'[c] = DOMAIN rows[c]
        /\ \A c \in Cams : \A i \in DOMAIN rows[c] :
             rows[c][i] \in Rows /\ (rows'[c][i] = rows[c][i] \/ rows'[c][i] = ClosedAtBoot(rows[c][i]))
    BY <1>1, <1>8, RestartRows
  <2>2. clock \in 0 .. MaxSignals
    BY <1>1 DEF TypeOK
  <2>3. \A c \in Cams : \A i \in DOMAIN rows[c] :
           /\ rows'[c][i].ts = rows[c][i].ts
           /\ \/ rows'[c][i].end = rows[c][i].end
              \/ rows[c][i].end = 0 /\ rows'[c][i].end \in 1 .. MaxSignals
    BY <2>1, <2>2, BootType
  <2>4. orphaned \subseteq orphaned'
    BY <1>8 DEF Restart
  <2> QED BY <2>1, <2>3, <2>4, ClosingCloses
<1>9. CASE OnStart \/ OnEnd
  BY <1>2, <1>9 DEF OnStart, OnEnd
<1>10. CASE \/ Detectors
            \/ \E s \in Subs, t \in Topics : Subscribe(s, t)
            \/ \E t \in Topics : Bridge(t)
            \/ UNCHANGED vars
  BY <1>2, <1>10 DEF Detectors, Start, End, CancelPull, Subscribe, Bridge, vars
<1> QED BY <1>4, <1>5, <1>6, <1>7, <1>8, <1>9, <1>10 DEF Next, ManagerSucceeds

(* The events table keeps one window per active window and camera, and     *)
(* never changes a closed one; a database call that fails costs its own    *)
(* row: for any number of cameras, signals, failures, restarts and         *)
(* cancelled pull clients, and any channel size                            *)
(* (docs/07-detection-notifications.md:42).                                *)
THEOREM LogImplemented == Spec => ImplementsEventLog
<1>1. IInv /\ [Next]_vars => [Log!Next]_Windows
  BY LogStep
<1> QED BY Invariant, LogInit, <1>1, PTL DEF Spec, ImplementsEventLog, Log!Spec
=============================================================================
