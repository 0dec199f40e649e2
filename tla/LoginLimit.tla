------------------------------ MODULE LoginLimit -------------------------------
(***************************************************************************)
(* The two rate limiters. That of the logins of one IP address             *)
(* (auth/ratelimit.go) as the login handler uses it: Allow, then the       *)
(* password check, then Fail or Succeed, each under the limiter's lock but *)
(* not together; an entry that is missing is one with count 0. And that of *)
(* the camera probes of one user (api/camera_handlers.go), which decides   *)
(* and counts at once. Time is in ticks of both windows.                   *)
(***************************************************************************)
EXTENDS Integers, FiniteSets, Sequences

CONSTANTS
    Logins,       \* login requests that may run at once
    MaxAttempts,  \* loginMaxAttempts
    Window,       \* loginWindow
    MaxProbes,    \* probes a user may send in ProbeWindow
    ProbeWindow,  \* the tick of the probe limiter
    MaxTick       \* bound: time

ASSUME LimitAssumption ==
    /\ IsFiniteSet(Logins) /\ MaxAttempts \in Nat \ {0} /\ Window \in Nat
    /\ MaxProbes \in Nat \ {0} /\ ProbeWindow \in Nat \ {0}

VARIABLES
    tick,
    attempts,  \* LoginLimiter.attempts[ip]: [windowStart, count]
    login,     \* per request: "idle" or "verify", between Allow and the outcome
    probed,    \* when each probe of the user that was let through was sent
    hits       \* probeLimiter.hits[user]: those of them it has not forgotten

limitVars == <<tick, attempts, login, probed, hits>>

NoRecord == [windowStart |-> 0, count |-> 0]
Expired == attempts.count > 0 /\ tick - attempts.windowStart > Window

(* Mutant: one attempt too many.                                           *)
AllowOneMore(p) ==
    /\ login[p] = "idle"
    /\ attempts' = IF Expired THEN NoRecord ELSE attempts
    /\ login' = IF attempts'.count <= MaxAttempts THEN [login EXCEPT ![p] = "verify"] ELSE login
    /\ UNCHANGED <<tick, hits, probed>>
Allow(p) ==
    /\ login[p] = "idle"
    /\ attempts' = IF Expired THEN NoRecord ELSE attempts
    /\ login' = IF attempts'.count < MaxAttempts THEN [login EXCEPT ![p] = "verify"] ELSE login
    /\ UNCHANGED <<tick, hits, probed>>

(* No such user or a wrong password.                                       *)
Fail(p) ==
    /\ login[p] = "verify" /\ login' = [login EXCEPT ![p] = "idle"]
    /\ attempts' = IF attempts.count = 0 \/ Expired
                   THEN [windowStart |-> tick, count |-> 1]
                   ELSE [attempts EXCEPT !.count = @ + 1]
    /\ UNCHANGED <<tick, hits, probed>>

Succeed(p) ==
    /\ login[p] = "verify" /\ login' = [login EXCEPT ![p] = "idle"]
    /\ attempts' = NoRecord
    /\ UNCHANGED <<tick, hits, probed>>

(* A disabled account or a database error: neither is called.              *)
Neither(p) ==
    /\ login[p] = "verify" /\ login' = [login EXCEPT ![p] = "idle"]
    /\ UNCHANGED <<tick, attempts, hits, probed>>

(* probeLimiter.allow: hits that are out of the window are dropped, those  *)
(* in it are counted, and the probe is refused or becomes one of them.     *)
(* Mutant: the window starts anew with every tick.                         *)
InWindowOfTick(i) == probed[i] = tick
InWindow(i) == probed[i] > tick - ProbeWindow
Probe ==
    LET kept == {i \in hits : InWindow(i)}
    IN  /\ IF Cardinality(kept) >= MaxProbes
           THEN hits' = kept /\ UNCHANGED probed
           ELSE /\ probed' = Append(probed, tick)
                /\ hits' = kept \union {Len(probed) + 1}
        /\ UNCHANGED <<tick, attempts, login>>

NextTick ==
    /\ tick < MaxTick /\ tick' = tick + 1
    /\ UNCHANGED <<attempts, login, hits, probed>>

----------------------------------------------------------------------------
LimitInit ==
    /\ tick = 0 /\ attempts = NoRecord /\ login = [p \in Logins |-> "idle"]
    /\ probed = <<>> /\ hits = {}

LimitNext ==
    \/ \E p \in Logins : Allow(p) \/ Fail(p) \/ Succeed(p) \/ Neither(p)
    \/ Probe
    \/ NextTick

LimitSpec == LimitInit /\ [][LimitNext]_limitVars

----------------------------------------------------------------------------
(* ratelimit.go:8 "5 attempts per 5 minutes" is exact for logins that come *)
(* one at a time (LimitExact); those that were let in together before the  *)
(* last one failed exceed it, by at most their number less one.            *)
LimitOvershoot ==
    Cardinality({p \in Logins : login[p] = "verify"}) + attempts.count
        <= MaxAttempts + Cardinality(Logins) - 1
        \/ attempts.count < MaxAttempts
LimitExact == attempts.count <= MaxAttempts

(* docs/03-api.md:187 "10/min": in no stretch of time as long as the       *)
(* window are more let through, however many are sent and at which times,  *)
(* although hits are forgotten on the way.                                 *)
ProbesExact ==
    \A t \in 0..MaxTick :
        Cardinality({i \in DOMAIN probed : probed[i] \in t..t + ProbeWindow - 1}) <= MaxProbes
===============================================================================
