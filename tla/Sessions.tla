------------------------------- MODULE Sessions --------------------------------
(***************************************************************************)
(* The life of one session (auth/sessions.go): requests that carry its     *)
(* cookie read the row, decide, and renew the expiry with a statement of   *)
(* its own, which may be delayed or fail. Time is in days.                 *)
(***************************************************************************)
EXTENDS Naturals, FiniteSets

CONSTANTS
    Lookups,      \* requests with the cookie
    TTL,          \* sessionTTL
    Absolute,     \* sessionAbsolute
    RenewAfter,   \* sessionRenewAfter
    MaxDay,       \* bound: days
    MaxLost       \* bound: renewals that fail

ASSUME SessionsAssumption ==
    /\ IsFiniteSet(Lookups) /\ TTL \in Nat /\ Absolute \in Nat
    /\ RenewAfter \in 1 .. TTL /\ MaxDay \in Nat /\ MaxLost \in Nat

VARIABLES
    day,
    row,       \* the session: [there, expires]; it was created on day 0
    lookup,    \* per request: [pc, now]
    lastUse,   \* history: day of the last accepted request
    verdict,   \* history: of the last request: [day, accepted, due]
    lost       \* history: renewals that failed

sessVars == <<day, row, lookup, lastUse, verdict, lost>>

(* now.After(expires), created + absolute before now.                      *)
(* Mutant: the session is renewed past the absolute limit.                 *)
ValidUncapped(now) == row.there /\ now <= row.expires
Valid(now) == row.there /\ now <= row.expires /\ now <= Absolute

(* now - created > 0 in the code, which runs on finer time.                *)
(* Mutant: renewed in its last days only.                                  *)
NeedsRenewalLate(now) == row.expires - now < RenewAfter
NeedsRenewal(now) == row.expires - now < TTL - RenewAfter

(* A request the documentation promises to accept: within TTL - RenewAfter *)
(* of the last use, and no renewal has been under way since yesterday.     *)
Due ==
    /\ row.there /\ day <= lastUse + (TTL - RenewAfter) /\ day <= Absolute
    /\ \A l \in Lookups : lookup[l].pc = "renew" => lookup[l].now = day

LookupSession(l) ==
    /\ lookup[l].pc = "idle"
    /\ LET ok == Valid(day) IN
       /\ verdict' = [day |-> day, accepted |-> ok, due |-> Due]
       /\ lastUse' = IF ok THEN day ELSE lastUse
       /\ lookup' = IF ok /\ NeedsRenewal(day)
                    THEN [lookup EXCEPT ![l] = [pc |-> "renew", now |-> day]] ELSE lookup
    /\ UNCHANGED <<day, row, lost>>

(* UPDATE ... WHERE id: nothing, if the row is gone. Mutants: the row is   *)
(* written back; the TTL is added to the old expiry.                       *)
RenewUpsert(l) ==
    /\ lookup[l].pc = "renew"
    /\ row' = [there |-> TRUE, expires |-> lookup[l].now + TTL]
    /\ lookup' = [lookup EXCEPT ![l] = [pc |-> "idle", now |-> 0]]
    /\ UNCHANGED <<day, lastUse, verdict, lost>>
RenewOnTop(l) ==
    /\ lookup[l].pc = "renew"
    /\ row' = IF row.there THEN [row EXCEPT !.expires = @ + TTL] ELSE row
    /\ lookup' = [lookup EXCEPT ![l] = [pc |-> "idle", now |-> 0]]
    /\ UNCHANGED <<day, lastUse, verdict, lost>>
Renew(l) ==
    /\ lookup[l].pc = "renew"
    /\ row' = IF row.there THEN [row EXCEPT !.expires = lookup[l].now + TTL] ELSE row
    /\ lookup' = [lookup EXCEPT ![l] = [pc |-> "idle", now |-> 0]]
    /\ UNCHANGED <<day, lastUse, verdict, lost>>

RenewFails(l) ==
    /\ lookup[l].pc = "renew" /\ lost < MaxLost
    /\ lost' = lost + 1
    /\ lookup' = [lookup EXCEPT ![l] = [pc |-> "idle", now |-> 0]]
    /\ UNCHANGED <<day, row, lastUse, verdict>>

(* DestroySession, DestroyOtherSessions, DELETE FROM sessions.             *)
DestroySession ==
    /\ row.there /\ row' = [row EXCEPT !.there = FALSE]
    /\ UNCHANGED <<day, lookup, lastUse, verdict, lost>>

(* A request does not last for RenewAfter.                                 *)
NextDay ==
    /\ day < MaxDay
    /\ \A l \in Lookups : lookup[l].pc = "renew" => day + 1 <= lookup[l].now + RenewAfter
    /\ day' = day + 1
    /\ UNCHANGED <<row, lookup, lastUse, verdict, lost>>

----------------------------------------------------------------------------
SessInit ==
    /\ day = 0 /\ row = [there |-> TRUE, expires |-> TTL]
    /\ lookup = [l \in Lookups |-> [pc |-> "idle", now |-> 0]]
    /\ lastUse = 0 /\ verdict = [day |-> 0, accepted |-> TRUE, due |-> TRUE] /\ lost = 0

SessNext ==
    \/ \E l \in Lookups : LookupSession(l) \/ Renew(l) \/ RenewFails(l)
    \/ DestroySession \/ NextDay

SessSpec == SessInit /\ [][SessNext]_sessVars

----------------------------------------------------------------------------
(* Properties.                                                             *)

SessTypeOK ==
    /\ day \in 0 .. MaxDay /\ lastUse \in 0 .. day /\ lost \in 0 .. MaxLost
    /\ row \in [there : BOOLEAN, expires : TTL .. TTL + MaxDay]
    /\ lookup \in [Lookups -> [pc : {"idle", "renew"}, now : 0 .. day]]
    /\ verdict \in [day : 0 .. day, accepted : BOOLEAN, due : BOOLEAN]

(* docs/04-auth-rbac.md:55 "30 days sliding (renewed on activity)": a      *)
(* session that is used again within TTL - RenewAfter days is accepted, in *)
(* whatever order the renewals of overlapping requests are written, unless *)
(* one of them failed.                                                     *)
SessSlides == verdict.due /\ lost = 0 => verdict.accepted

(* A session in use lives on, with its row in order.                       *)
SessSafe == SessTypeOK /\ SessSlides

(* The same line, "absolute max 90 days", and a session that was not used  *)
(* for more than the TTL is dead: renewals do not outlive either limit.    *)
AcceptedInTime == lastUse' # lastUse => day <= Absolute /\ day <= lastUse + TTL

(* A session that was ended is not brought back by a renewal under way.    *)
EndedForGood == ~row.there => ~row'.there

(* A session ends when it must and stays ended.                            *)
SessEnds == [][AcceptedInTime /\ EndedForGood]_sessVars
===============================================================================
