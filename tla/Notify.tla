-------------------------------- MODULE Notify --------------------------------
(***************************************************************************)
(* Notifications about one camera's events (notify/worker.go): the worker  *)
(* takes event.created messages off its bus channel one at a time, matches *)
(* them against the rules and starts one delivery goroutine per channel of *)
(* each rule that matches and is not in its cooldown. A delivery makes up  *)
(* to three attempts within two minutes and logs how it ended.             *)
(*                                                                         *)
(* Whether a rule matches (camera, type, label, schedule) is chosen per    *)
(* event. A delivery is named by <<rule, channel, event>>. The worker's    *)
(* cooldown time stamps are kept as the set of rules that are cooling.     *)
(***************************************************************************)
EXTENDS Naturals, Sequences, FiniteSets

CONSTANTS
    Rules,
    Channels,      \* every rule names all of them
    InboxSize,     \* subBuf of the bus
    MaxEvents,     \* bound: events created
    MaxMishaps     \* bound: things that go wrong, other than plain failed attempts

ASSUME NotifyAssumption ==
    /\ IsFiniteSet(Rules) /\ IsFiniteSet(Channels)
    /\ InboxSize \in Nat /\ MaxEvents \in Nat /\ MaxMishaps \in Nat

Backoffs == 3
Deliveries == Rules \X Channels \X (1 .. MaxEvents)

VARIABLES
    created,   \* events created so far
    inbox,     \* the worker's channel
    cooling,   \* rules with time.Since(lastSent) < cooldown
    enabled,   \* channels that are enabled
    delivery,  \* per delivery: [pc, attempt, late]
    arrived,   \* per delivery: how often the receiver got it
    log,       \* notification_log: per delivery, its entries
    notified,  \* events marked as notified
    unlogged,  \* history: deliveries a timeout, a failed insert or a restart cut off
    mishaps    \* what has gone wrong so far: [count, uncertain]

notifyVars == <<created, inbox, cooling, enabled, delivery, arrived, log, notified, unlogged, mishaps>>

Mishap(kind) ==
    /\ mishaps.count < MaxMishaps
    /\ mishaps' = [count |-> mishaps.count + 1, uncertain |-> mishaps.uncertain \/ kind = "uncertain"]
Uncertain == mishaps.uncertain
InDelivery(d) == delivery[d].pc \in {"open", "wait", "send", "logSent", "logFailed"}
Late(d) == delivery[d].late

----------------------------------------------------------------------------
(* event.created is published; a full channel loses it.                    *)
EventCreated ==
    /\ created < MaxEvents /\ created' = created + 1
    /\ inbox' = IF Len(inbox) < InboxSize THEN Append(inbox, created + 1) ELSE inbox
    /\ UNCHANGED <<cooling, enabled, delivery, arrived, log, unlogged, mishaps, notified>>

(* dispatch. ListRules fails: the event is forgotten.                      *)
DispatchFails ==
    /\ inbox # <<>> /\ Mishap("database")
    /\ inbox' = Tail(inbox)
    /\ UNCHANGED <<created, cooling, enabled, delivery, arrived, log, unlogged, notified>>

(* A rule in its cooldown logs a skip for each channel; another one starts *)
(* its cooldown before anything has been delivered.                        *)
(* Mutant: the skip is logged and the delivery made all the same.          *)
DispatchSkipping ==
    /\ inbox # <<>>
    /\ inbox' = Tail(inbox)
    /\ \E matching \in SUBSET Rules :
         /\ cooling' = cooling \cup matching
         /\ delivery' = [d \in Deliveries |->
               IF d[3] = Head(inbox) /\ d[1] \in matching
               THEN [pc |-> "open", attempt |-> 0, late |-> FALSE] ELSE delivery[d]]
         /\ log' = [d \in Deliveries |->
               IF d[3] = Head(inbox) /\ d[1] \in matching \cap cooling
               THEN Append(log[d], "cooldown_skip") ELSE log[d]]
    /\ UNCHANGED <<created, enabled, arrived, unlogged, mishaps, notified>>
Dispatch ==
    /\ inbox # <<>>
    /\ inbox' = Tail(inbox)
    /\ \E matching \in SUBSET Rules :
         LET fire == matching \ cooling
             skip == matching \cap cooling
         IN  /\ cooling' = cooling \cup fire
             /\ delivery' = [d \in Deliveries |->
                   IF d[3] = Head(inbox) /\ d[1] \in fire
                   THEN [pc |-> "open", attempt |-> 0, late |-> FALSE] ELSE delivery[d]]
             /\ log' = [d \in Deliveries |->
                   IF d[3] = Head(inbox) /\ d[1] \in skip
                   THEN Append(log[d], "cooldown_skip") ELSE log[d]]
    /\ UNCHANGED <<created, enabled, arrived, unlogged, mishaps, notified>>

CooldownOver(r) ==
    /\ r \in cooling /\ cooling' = cooling \ {r}
    /\ UNCHANGED <<created, inbox, enabled, delivery, arrived, log, unlogged, mishaps, notified>>

SwitchChannel(ch) ==
    /\ Mishap("switch")
    /\ enabled' = IF ch \in enabled THEN enabled \ {ch} ELSE enabled \cup {ch}
    /\ UNCHANGED <<created, inbox, cooling, delivery, arrived, log, unlogged, notified>>

----------------------------------------------------------------------------
(* deliver.                                                                *)

GoOn(d, pc) == delivery' = [delivery EXCEPT ![d].pc = pc]

(* Mutant: a disabled channel is no entry in the log.                      *)
OpenSilently(d) ==
    /\ delivery[d].pc = "open"
    /\ GoOn(d, IF d[2] \in enabled /\ ~Late(d) THEN "send" ELSE "done")
    /\ UNCHANGED <<created, inbox, cooling, enabled, arrived, log, unlogged, mishaps, notified>>
OpenChannel(d) ==
    /\ delivery[d].pc = "open"
    /\ GoOn(d, IF d[2] \in enabled /\ ~Late(d) THEN "send" ELSE "logFailed")
    /\ UNCHANGED <<created, inbox, cooling, enabled, arrived, log, unlogged, mishaps, notified>>

(* An attempt. It arrives and is acknowledged, or is not and does not      *)
(* arrive, or arrives without the acknowledgement.                         *)
(* Mutant: after a success the loop goes on.                               *)
SendsOnAndOn(d) ==
    /\ delivery[d].pc = "send" /\ ~Late(d)
    /\ arrived' = [arrived EXCEPT ![d] = @ + 1]
    /\ delivery' = [delivery EXCEPT ![d].attempt = @ + 1,
           ![d].pc = IF delivery[d].attempt + 1 < Backoffs THEN "wait" ELSE "logSent"]
    /\ UNCHANGED <<created, inbox, cooling, enabled, log, unlogged, mishaps, notified>>
SendSucceeds(d) ==
    /\ delivery[d].pc = "send" /\ ~Late(d)
    /\ arrived' = [arrived EXCEPT ![d] = @ + 1]
    /\ GoOn(d, "logSent")
    /\ UNCHANGED <<created, inbox, cooling, enabled, log, unlogged, mishaps, notified>>

(* Mutant: one attempt too many.                                           *)
SendFailsOnceMore(d) ==
    /\ delivery[d].pc = "send"
    /\ UNCHANGED <<arrived, mishaps>>
    /\ delivery' = [delivery EXCEPT ![d].attempt = @ + 1,
           ![d].pc = IF delivery[d].attempt + 1 <= Backoffs THEN "wait" ELSE "logFailed"]
    /\ UNCHANGED <<created, inbox, cooling, enabled, log, unlogged, notified>>
SendFails(d) ==
    /\ delivery[d].pc = "send"
    /\ \/ UNCHANGED <<arrived, mishaps>>
       \/ Mishap("uncertain") /\ arrived' = [arrived EXCEPT ![d] = @ + 1]
    /\ delivery' = [delivery EXCEPT ![d].attempt = @ + 1,
           ![d].pc = IF delivery[d].attempt + 1 < Backoffs THEN "wait" ELSE "logFailed"]
    /\ UNCHANGED <<created, inbox, cooling, enabled, log, unlogged, notified>>

(* The back-off before the next attempt; past the two minutes the goroutine*)
(* returns instead, and logs nothing.                                      *)
RetryDelay(d) ==
    /\ delivery[d].pc = "wait"
    /\ \/ GoOn(d, "send") /\ UNCHANGED unlogged
       \/ Late(d) /\ GoOn(d, "done") /\ unlogged' = unlogged \cup {d}
    /\ UNCHANGED <<created, inbox, cooling, enabled, arrived, log, mishaps, notified>>

(* logDelivery, and after a success MarkNotified, use the same context;     *)
(* their own failures are only a warning, or nothing.                      *)
Entry(d) == IF delivery[d].pc = "logSent" THEN "sent" ELSE "failed"
LogOutcome(d) ==
    /\ delivery[d].pc \in {"logSent", "logFailed"}
    /\ \E logged, marked \in BOOLEAN :
         /\ IF logged /\ marked THEN ~Late(d) /\ UNCHANGED mishaps
            ELSE IF Late(d) THEN ~logged /\ ~marked /\ UNCHANGED mishaps
            ELSE Mishap("database")
         /\ log' = IF logged THEN [log EXCEPT ![d] = Append(@, Entry(d))] ELSE log
         /\ unlogged' = IF logged THEN unlogged ELSE unlogged \cup {d}
         /\ notified' = IF marked /\ delivery[d].pc = "logSent" THEN notified \cup {d[3]} ELSE notified
    /\ GoOn(d, "done")
    /\ UNCHANGED <<created, inbox, cooling, enabled, arrived>>

TwoMinutes(d) ==
    /\ InDelivery(d) /\ ~Late(d) /\ Mishap("timeout")
    /\ delivery' = [delivery EXCEPT ![d].late = TRUE]
    /\ UNCHANGED <<created, inbox, cooling, enabled, arrived, log, unlogged, notified>>

DeliveryStep(d) ==
    OpenChannel(d) \/ SendSucceeds(d) \/ SendFails(d) \/ RetryDelay(d) \/ LogOutcome(d)

(* The daemon restarts: queue, cooldowns and deliveries are gone.          *)
NotifyRestart ==
    /\ Mishap("restart")
    /\ inbox' = <<>> /\ cooling' = {}
    /\ unlogged' = unlogged \cup {d \in Deliveries : InDelivery(d)}
    /\ delivery' = [d \in Deliveries |-> IF InDelivery(d) THEN [delivery[d] EXCEPT !.pc = "done"] ELSE delivery[d]]
    /\ UNCHANGED <<created, enabled, arrived, log, notified>>

----------------------------------------------------------------------------
NotifyInit ==
    /\ created = 0 /\ inbox = <<>> /\ cooling = {} /\ enabled = Channels
    /\ delivery = [d \in Deliveries |-> [pc |-> "none", attempt |-> 0, late |-> FALSE]]
    /\ arrived = [d \in Deliveries |-> 0] /\ log = [d \in Deliveries |-> <<>>]
    /\ notified = {} /\ unlogged = {}
    /\ mishaps = [count |-> 0, uncertain |-> FALSE]

NotifyNext ==
    \/ EventCreated \/ Dispatch \/ DispatchFails \/ NotifyRestart
    \/ \E r \in Rules : CooldownOver(r)
    \/ \E ch \in Channels : SwitchChannel(ch)
    \/ \E d \in Deliveries : DeliveryStep(d) \/ TwoMinutes(d)

(* The goroutine of a delivery runs on.                                    *)
NotifyFairness == \A d \in Deliveries : WF_notifyVars(DeliveryStep(d))

NotifySpec == NotifyInit /\ [][NotifyNext]_notifyVars /\ NotifyFairness

----------------------------------------------------------------------------
(* Properties.                                                             *)

NotifyTypeOK ==
    /\ created \in 0 .. MaxEvents /\ inbox \in Seq(1 .. created) /\ Len(inbox) <= InboxSize
    /\ cooling \subseteq Rules /\ enabled \subseteq Channels /\ unlogged \subseteq Deliveries
    /\ notified \subseteq 1 .. created
    /\ delivery \in [Deliveries -> [pc : {"none", "open", "wait", "send", "logSent", "logFailed", "done"},
                                    attempt : 0 .. Backoffs, late : BOOLEAN]]
    /\ arrived \in [Deliveries -> 0 .. Backoffs]
    /\ mishaps \in [count : 0 .. MaxMishaps, uncertain : BOOLEAN]
    /\ log \in [Deliveries -> Seq({"sent", "failed", "cooldown_skip"})]

(* worker.go:104 deliver "logs the final outcome": a delivery has at most   *)
(* one entry in notification_log, whatever number of attempts it took, and *)
(* the entry is the truth: what was sent arrived, what was skipped did     *)
(* not, what failed did not unless the receiver's acknowledgement was      *)
(* lost. An event is marked as notified only if one of its deliveries      *)
(* arrived. (The document says otherwise: NotifyAttemptsLogged below.)     *)
NotifyLogTrue ==
    /\ \A ev \in notified : \E d \in Deliveries : d[3] = ev /\ arrived[d] >= 1
    /\ \A d \in Deliveries :
        /\ Len(log[d]) <= 1
        /\ log[d] = <<"sent">> => arrived[d] >= 1
        /\ log[d] = <<"cooldown_skip">> => arrived[d] = 0
        /\ log[d] = <<"failed">> /\ ~Uncertain => arrived[d] = 0

(* Retries repeat a notification only when an acknowledgement was lost.    *)
NotifyNotRepeated == \A d \in Deliveries : arrived[d] <= 1 \/ Uncertain

(* The log tells the truth about what receivers got, and they get it once. *)
NotifySafe == NotifyTypeOK /\ NotifyLogTrue /\ NotifyNotRepeated

(* Every delivery that starts is accounted for in the log, unless it ran   *)
(* out of its two minutes, the insert failed or the daemon restarted       *)
(* (worker.go:104 "logs the final outcome").                               *)
NotifyAccounted ==
    \A d \in Deliveries : delivery[d].pc = "open" ~> log[d] # <<>> \/ d \in unlogged

(* docs/07-detection-notifications.md:123 "every attempt logged to         *)
(* notification_log with status sent|failed|cooldown_skip": a delivery     *)
(* that has ended, and whose log was not cut off, has a "failed" entry for *)
(* each attempt that failed. Violated: deliver logs how it ended, once.    *)
FailedEntries(d) == {i \in DOMAIN log[d] : log[d][i] = "failed"}
NotifyAttemptsLogged ==
    \A d \in Deliveries : delivery[d].pc = "done" /\ d \notin unlogged =>
        Cardinality(FailedEntries(d)) >= delivery[d].attempt

(* worker.go:28 lastSent is the "last successful dispatch": a rule that is *)
(* cooling has delivered something. Violated: the cooldown starts with the *)
(* attempt, so one failed delivery silences the rule for its cooldown.     *)
NotifyCoolsAfterSuccess ==
    \A r \in cooling : \E d \in Deliveries : d[1] = r /\ (arrived[d] > 0 \/ InDelivery(d))
===============================================================================
