----------------------------- MODULE AccessProofs ------------------------------
(***************************************************************************)
(* Proofs about who gets in: the rate limiters, sessions and accounts, for *)
(* any numbers of users, of concurrent requests and of sessions. The       *)
(* three have no state in common.                                          *)
(***************************************************************************)
EXTENDS Access, Sessions, LoginLimit, FiniteSetTheorems, SequenceTheorems, TLAPS

----------------------------------------------------------------------------
(* LoginLimit, the logins of one address. LimitOvershoot is inductive      *)
(* together with the types of what it counts.                              *)

Verifying == {p \in Logins : login[p] = "verify"}

Counts ==
    /\ tick \in Nat
    /\ attempts \in [windowStart : Nat, count : Nat]
    /\ login \in [Logins -> {"idle", "verify"}]

(* A request that comes to its outcome leaves one less in verification,    *)
(* and it is itself not among them.                                        *)
LEMMA OneLess ==
  ASSUME Counts, NEW p \in Logins, login[p] = "verify",
         login' = [login EXCEPT ![p] = "idle"]
  PROVE  /\ Cardinality(Verifying') = Cardinality(Verifying) - 1
         /\ Cardinality(Verifying) \in Nat
         /\ Cardinality(Verifying) <= Cardinality(Logins)
         /\ Cardinality(Logins) \in Nat
<1>1. Verifying' = Verifying \ {p} /\ p \in Verifying
  BY DEF Counts, Verifying
<1>2. Verifying \subseteq Logins /\ IsFiniteSet(Logins)
  BY LimitAssumption DEF Verifying
<1>3. IsFiniteSet(Verifying) /\ Cardinality(Verifying) <= Cardinality(Logins)
  BY <1>2, FS_Subset
<1>4. Cardinality(Verifying \ {p}) = Cardinality(Verifying) - 1
  BY <1>1, <1>3, FS_RemoveElement
<1> QED BY <1>1, <1>2, <1>3, <1>4, FS_CardinalityType

(* Whoever is let in, the number of requests in verification is bounded.   *)
LEMMA NoMoreThanAll ==
  /\ Cardinality(Verifying) \in Nat
  /\ Cardinality(Verifying) <= Cardinality(Logins)
  /\ Cardinality(Logins) \in Nat
<1>1. Verifying \subseteq Logins /\ IsFiniteSet(Logins)
  BY LimitAssumption DEF Verifying
<1>2. IsFiniteSet(Verifying) /\ Cardinality(Verifying) <= Cardinality(Logins)
  BY <1>1, FS_Subset
<1> QED BY <1>1, <1>2, FS_CardinalityType

LEMMA CountsInit == LimitInit => Counts
BY DEF LimitInit, Counts, NoRecord

(* Every step keeps the types.                                             *)
LEMMA CountsKept == Counts /\ [LimitNext]_limitVars => Counts'
<1> SUFFICES ASSUME Counts, [LimitNext]_limitVars PROVE Counts'
  OBVIOUS
<1> USE DEF Counts
<1>1. CASE UNCHANGED limitVars
  BY <1>1 DEF limitVars
<1>2. ASSUME NEW p \in Logins, Allow(p) PROVE Counts'
  BY <1>2 DEF Allow, NoRecord
<1>3. ASSUME NEW p \in Logins, Fail(p) PROVE Counts'
  BY <1>3 DEF Fail
<1>4. ASSUME NEW p \in Logins, Succeed(p) \/ Neither(p) PROVE Counts'
  BY <1>4 DEF Succeed, Neither, NoRecord
<1>5. CASE Probe \/ NextTick
  BY <1>5 DEF Probe, NextTick
<1> QED BY <1>1, <1>2, <1>3, <1>4, <1>5 DEF LimitNext

(* Every step keeps the bound: a request is let in below the limit only,   *)
(* and one that fails moves from the requests in verification to the count.*)
LEMMA BoundKept ==
  Counts /\ LimitOvershoot /\ [LimitNext]_limitVars => LimitOvershoot'
<1> SUFFICES ASSUME Counts, LimitOvershoot, [LimitNext]_limitVars
             PROVE  LimitOvershoot'
  OBVIOUS
<1>0. /\ attempts.count \in Nat /\ attempts'.count \in Nat
      /\ MaxAttempts \in Nat \ {0}
  BY CountsKept, LimitAssumption DEF Counts
<1>1. CASE UNCHANGED limitVars
  BY <1>1 DEF limitVars, LimitOvershoot
<1>2. ASSUME NEW p \in Logins, Allow(p) PROVE LimitOvershoot'
  <2>1. CASE attempts'.count < MaxAttempts
    BY <2>1 DEF LimitOvershoot
  <2>2. CASE ~(attempts'.count < MaxAttempts)
    <3>1. login' = login /\ attempts' = attempts
      BY <1>0, <1>2, <2>2 DEF Allow, NoRecord
    <3> QED BY <3>1 DEF LimitOvershoot
  <2> QED BY <2>1, <2>2
<1>3. ASSUME NEW p \in Logins, Fail(p) PROVE LimitOvershoot'
  <2>1. /\ Cardinality(Verifying') = Cardinality(Verifying) - 1
        /\ Cardinality(Verifying) \in Nat /\ Cardinality(Logins) \in Nat
        /\ Cardinality(Verifying) <= Cardinality(Logins)
    BY <1>3, OneLess DEF Fail
  <2>2. attempts'.count = attempts.count + 1 \/ attempts'.count = 1
    BY <1>0, <1>3 DEF Fail, Counts
  <2> QED BY <1>0, <2>1, <2>2 DEF LimitOvershoot, Verifying
<1>4. ASSUME NEW p \in Logins, Succeed(p) PROVE LimitOvershoot'
  BY <1>0, <1>4 DEF Succeed, NoRecord, LimitOvershoot
<1>5. ASSUME NEW p \in Logins, Neither(p) PROVE LimitOvershoot'
  <2>1. Cardinality(Verifying') = Cardinality(Verifying) - 1
        /\ Cardinality(Verifying) \in Nat /\ Cardinality(Logins) \in Nat
    BY <1>5, OneLess DEF Neither
  <2> QED BY <1>0, <1>5, <2>1 DEF Neither, LimitOvershoot, Verifying
<1>6. CASE Probe \/ NextTick
  BY <1>6 DEF Probe, NextTick, LimitOvershoot
<1> QED BY <1>1, <1>2, <1>3, <1>4, <1>5, <1>6 DEF LimitNext

(* However many logins of one address run at once, failed attempts and     *)
(* attempts under way exceed the limit by less than their number.          *)
THEOREM OvershootBounded == LimitSpec => []LimitOvershoot
<1>1. LimitInit => LimitOvershoot
  BY LimitAssumption DEF LimitInit, LimitOvershoot, NoRecord
<1> QED BY <1>1, CountsInit, CountsKept, BoundKept, PTL DEF LimitSpec

(* The probes of one user. A probe that the limiter has forgotten was sent *)
(* too long ago to matter to any window that reaches the present: this is  *)
(* what makes counting the remembered ones exact.                          *)
Remembered ==
    /\ tick \in Nat /\ probed \in Seq(Nat) /\ hits \subseteq DOMAIN probed
    /\ \A i \in DOMAIN probed : probed[i] <= tick
    /\ \A i \in DOMAIN probed \ hits : probed[i] <= tick - ProbeWindow

(* The probes let through in the window that begins with tick t.           *)
SentFrom(t) == {i \in DOMAIN probed : probed[i] \in t..t + ProbeWindow - 1}

LEMMA RememberedInit == LimitInit => Remembered /\ ProbesExact
<1> SUFFICES ASSUME LimitInit PROVE Remembered /\ ProbesExact
  OBVIOUS
<1>1. tick = 0 /\ probed = <<>> /\ DOMAIN probed = {} /\ hits = {}
  BY DEF LimitInit
<1>2. \A t \in 0..MaxTick : SentFrom(t) = {}
  BY <1>1 DEF SentFrom
<1>3. Cardinality({}) = 0
  BY FS_EmptySet
<1> QED BY <1>1, <1>2, <1>3, LimitAssumption DEF Remembered, ProbesExact, SentFrom

(* A probe that is let through: it alone joins those remembered, of which  *)
(* there are less than MaxProbes in the window.                            *)
LEMMA OneMoreProbe ==
  ASSUME Remembered, ProbesExact, NEW kept, kept = {i \in hits : InWindow(i)},
         Cardinality(kept) < MaxProbes, tick' = tick,
         probed' = Append(probed, tick), hits' = kept \union {Len(probed) + 1}
  PROVE  Remembered' /\ ProbesExact'
<1> DEFINE new == Len(probed) + 1
<1>0. MaxProbes \in Nat /\ ProbeWindow \in Nat \ {0} /\ tick \in Nat /\ probed \in Seq(Nat)
  BY LimitAssumption DEF Remembered
<1>1. /\ DOMAIN probed = 1..Len(probed) /\ Len(probed) \in Nat
      /\ DOMAIN probed' = DOMAIN probed \union {new} /\ new \notin DOMAIN probed
      /\ probed' \in Seq(Nat) /\ probed'[new] = tick
      /\ \A i \in DOMAIN probed : probed'[i] = probed[i] /\ probed[i] \in Nat
  BY <1>0
<1>2. kept \subseteq DOMAIN probed /\ IsFiniteSet(DOMAIN probed)
  BY <1>1, FS_Interval DEF Remembered
<1>3. IsFiniteSet(kept) /\ new \notin kept
  BY <1>1, <1>2, FS_Subset
<1>4. /\ IsFiniteSet(kept \union {new})
      /\ Cardinality(kept \union {new}) = Cardinality(kept) + 1
      /\ Cardinality(kept) \in Nat
  BY <1>3, FS_AddElement, FS_CardinalityType
<1>5. \A i \in DOMAIN probed : i \in kept <=> i \in hits /\ probed[i] > tick - ProbeWindow
  BY DEF InWindow
<1>6. Remembered'
  <2>1. \A i \in DOMAIN probed' : probed'[i] <= tick'
    BY <1>0, <1>1 DEF Remembered
  <2>2. \A i \in DOMAIN probed' \ hits' : probed'[i] <= tick' - ProbeWindow
    <3> SUFFICES ASSUME NEW i \in DOMAIN probed' \ hits' PROVE probed'[i] <= tick - ProbeWindow
      OBVIOUS
    <3>1. i \in DOMAIN probed /\ i \notin kept
      BY <1>1
    <3>2. CASE i \in hits
      BY <1>0, <1>1, <1>5, <3>1, <3>2
    <3>3. CASE i \notin hits
      BY <1>1, <3>1, <3>3 DEF Remembered
    <3> QED BY <3>2, <3>3
  <2> QED BY <1>0, <1>1, <1>2, <2>1, <2>2 DEF Remembered
<1>7. ASSUME NEW t \in 0..MaxTick PROVE Cardinality(SentFrom(t)') <= MaxProbes
  <2>1. CASE tick \in t..t + ProbeWindow - 1
    <3>1. ASSUME NEW i \in SentFrom(t)' PROVE i \in kept \union {new}
      <4>1. CASE i = new
        BY <4>1
      <4>2. CASE i # new
        <5>1. i \in DOMAIN probed /\ probed[i] >= t
          BY <1>1, <4>2 DEF SentFrom
        <5>2. probed[i] > tick - ProbeWindow
          BY <1>0, <1>1, <2>1, <5>1
        <5>3. i \in hits
          BY <1>0, <1>1, <5>1, <5>2 DEF Remembered
        <5> QED BY <1>5, <5>1, <5>2, <5>3
      <4> QED BY <4>1, <4>2
    <3>2. Cardinality(SentFrom(t)') <= Cardinality(kept \union {new})
      BY <1>4, <3>1, FS_Subset
    <3>3. Cardinality(SentFrom(t)') \in Nat
      BY <1>4, <3>1, FS_Subset, FS_CardinalityType
    <3> QED BY <1>0, <1>4, <3>2, <3>3
  <2>2. CASE tick \notin t..t + ProbeWindow - 1
    <3>1. SentFrom(t)' = SentFrom(t)
      BY <1>1, <2>2 DEF SentFrom
    <3> QED BY <3>1 DEF ProbesExact, SentFrom
  <2> QED BY <2>1, <2>2
<1> QED BY <1>6, <1>7 DEF ProbesExact, SentFrom

LEMMA RememberedKept ==
  Remembered /\ ProbesExact /\ [LimitNext]_limitVars => Remembered' /\ ProbesExact'
<1> SUFFICES ASSUME Remembered, ProbesExact, [LimitNext]_limitVars
             PROVE  Remembered' /\ ProbesExact'
  OBVIOUS
<1>1. CASE UNCHANGED <<tick, probed, hits>>
  BY <1>1 DEF Remembered, ProbesExact
<1>2. CASE Probe
  <2> DEFINE kept == {i \in hits : InWindow(i)}
  <2>1. tick' = tick
    BY <1>2 DEF Probe
  <2>2. CASE Cardinality(kept) >= MaxProbes
    <3>1. hits' = kept /\ probed' = probed
      BY <1>2, <2>2 DEF Probe
    <3>2. ProbesExact'
      BY <3>1 DEF ProbesExact
    <3>3. \A i \in DOMAIN probed \ kept : probed[i] <= tick - ProbeWindow
      BY LimitAssumption DEF Remembered, InWindow
    <3> QED BY <2>1, <3>1, <3>2, <3>3 DEF Remembered
  <2>3. CASE ~(Cardinality(kept) >= MaxProbes)
    <3>1. probed' = Append(probed, tick) /\ hits' = kept \union {Len(probed) + 1}
      BY <1>2, <2>3 DEF Probe
    <3>2. IsFiniteSet(kept)
      <4>1. kept \subseteq 1..Len(probed) /\ Len(probed) \in Nat
        BY DEF Remembered
      <4>2. IsFiniteSet(1..Len(probed))
        BY <4>1, FS_Interval
      <4> HIDE DEF kept
      <4> QED BY <4>1, <4>2, FS_Subset
    <3>3. Cardinality(kept) < MaxProbes
      BY <2>3, <3>2, FS_CardinalityType, LimitAssumption
    <3> HIDE DEF kept
    <3>4. kept = {i \in hits : InWindow(i)}
      BY DEF kept
    <3> QED BY <2>1, <3>1, <3>3, <3>4, OneMoreProbe
  <2> QED BY <2>2, <2>3
<1>3. CASE NextTick
  BY <1>3, LimitAssumption DEF NextTick, Remembered, ProbesExact
<1> QED BY <1>1, <1>2, <1>3 DEF LimitNext, limitVars, Allow, Fail, Succeed, Neither

(* In no stretch of time as long as the window are more than MaxProbes     *)
(* probes let through (docs/03-api.md:187), whatever the limit, the window *)
(* and the times.                                                          *)
THEOREM ProbesCounted == LimitSpec => []ProbesExact
BY RememberedInit, RememberedKept, PTL DEF LimitSpec

----------------------------------------------------------------------------
(* Sessions. A renewal may be written long after the request decided to    *)
(* renew, and after those of later requests; what keeps the expiry in      *)
(* bounds is that no renewal under way is younger than the last use.       *)

(* The inductive invariant.                                                *)
Bounded ==
    /\ day \in Nat /\ lastUse \in Nat
    /\ row \in [there : BOOLEAN, expires : Nat]
    /\ lookup \in [Lookups -> [pc : {"idle", "renew"}, now : Nat]]
    /\ row.expires <= lastUse + TTL
    /\ lastUse <= day
    /\ \A l \in Lookups : lookup[l].now <= lastUse

LEMMA BoundedInit == SessInit => Bounded
BY SessionsAssumption DEF SessInit, Bounded

(* Every step keeps it.                                                    *)
LEMMA BoundedKept == Bounded /\ [SessNext]_sessVars => Bounded'
<1> SUFFICES ASSUME Bounded, [SessNext]_sessVars PROVE Bounded'
  OBVIOUS
<1> USE SessionsAssumption DEF Bounded
<1>1. CASE UNCHANGED sessVars
  BY <1>1 DEF sessVars
<1>2. ASSUME NEW l \in Lookups, LookupSession(l) PROVE Bounded'
  <2>1. CASE Valid(day)
    <3>1. lastUse' = day /\ row' = row /\ day' = day
      BY <1>2, <2>1 DEF LookupSession
    <3>2. /\ lookup' \in [Lookups -> [pc : {"idle", "renew"}, now : Nat]]
          /\ \A k \in Lookups : lookup'[k] = lookup[k] \/ lookup'[k].now = day
      BY <1>2, <2>1 DEF LookupSession
    <3> QED BY <3>1, <3>2
  <2>2. CASE ~Valid(day)
    BY <1>2, <2>2 DEF LookupSession
  <2> QED BY <2>1, <2>2
<1>3. ASSUME NEW l \in Lookups, Renew(l) PROVE Bounded'
  <2>1. /\ row'.expires = row.expires \/ row'.expires = lookup[l].now + TTL
        /\ row' \in [there : BOOLEAN, expires : Nat]
    BY <1>3 DEF Renew
  <2>2. /\ lookup' \in [Lookups -> [pc : {"idle", "renew"}, now : Nat]]
        /\ \A k \in Lookups : lookup'[k].now \in {lookup[k].now, 0}
    BY <1>3 DEF Renew
  <2> QED BY <1>3, <2>1, <2>2 DEF Renew
<1>4. ASSUME NEW l \in Lookups, RenewFails(l) PROVE Bounded'
  <2>1. /\ lookup' \in [Lookups -> [pc : {"idle", "renew"}, now : Nat]]
        /\ \A k \in Lookups : lookup'[k].now \in {lookup[k].now, 0}
    BY <1>4 DEF RenewFails
  <2> QED BY <1>4, <2>1 DEF RenewFails
<1>5. CASE DestroySession
  BY <1>5 DEF DestroySession
<1>6. CASE NextDay
  BY <1>6 DEF NextDay
<1> QED BY <1>1, <1>2, <1>3, <1>4, <1>5, <1>6 DEF SessNext

(* No request is accepted past the absolute limit, nor later than the TTL  *)
(* after the use before it; and a session that was ended stays ended,      *)
(* whatever renewal is under way.                                          *)
THEOREM SessionsEnd == SessSpec => SessEnds
<1>1. ASSUME Bounded, SessNext PROVE AcceptedInTime
  <2> SUFFICES ASSUME lastUse' # lastUse
               PROVE  day <= Absolute /\ day <= lastUse + TTL
    BY DEF AcceptedInTime
  <2>1. PICK l \in Lookups : LookupSession(l)
    BY <1>1 DEF SessNext, Renew, RenewFails, DestroySession, NextDay
  <2>2. Valid(day)
    BY <2>1 DEF LookupSession
  <2> QED BY <1>1, <2>2, SessionsAssumption DEF Valid, Bounded
<1>2. ASSUME SessNext PROVE EndedForGood
  <2> SUFFICES ASSUME ~row.there PROVE ~row'.there
    BY DEF EndedForGood
  <2>1. ASSUME NEW l \in Lookups, Renew(l) PROVE ~row'.there
    BY <2>1 DEF Renew
  <2>2. ASSUME NEW l \in Lookups, LookupSession(l) \/ RenewFails(l) PROVE ~row'.there
    BY <2>2 DEF LookupSession, RenewFails
  <2>3. CASE DestroySession \/ NextDay
    BY <2>3 DEF DestroySession, NextDay
  <2> QED BY <1>2, <2>1, <2>2, <2>3 DEF SessNext
<1>3. Bounded /\ [SessNext]_sessVars => [AcceptedInTime /\ EndedForGood]_sessVars
  <2>1. CASE UNCHANGED sessVars
    BY <2>1
  <2>2. ASSUME Bounded, SessNext PROVE AcceptedInTime /\ EndedForGood
    BY <1>1, <1>2, <2>2
  <2> QED BY <2>1, <2>2
<1> QED BY <1>3, BoundedInit, BoundedKept, PTL DEF SessSpec, SessEnds


(* The row is renewed in time: while no renewal has failed, either the     *)
(* expiry is far enough from the last use, or the renewal it called for is *)
(* under way; and no renewal stays under way for more than RenewAfter.     *)
Renewing(l) == lookup[l].pc = "renew"

RenewedInTime ==
    /\ \A l \in Lookups : Renewing(l) =>
          day <= lookup[l].now + RenewAfter /\ lookup[l].now <= row.expires
    /\ lost = 0 /\ row.there =>
          \/ lastUse + TTL <= row.expires + RenewAfter
          \/ \E l \in Lookups : Renewing(l) /\ lookup[l].now = lastUse

SessInv == SessTypeOK /\ SessSlides /\ RenewedInTime

LEMMA SessInitially == SessInit => SessInv
<1> SUFFICES ASSUME SessInit PROVE SessInv
  OBVIOUS
<1>1. SessTypeOK
  BY SessionsAssumption DEF SessInit, SessTypeOK
<1>2. RenewedInTime
  BY SessionsAssumption DEF SessInit, RenewedInTime, Renewing
<1> QED BY <1>1, <1>2 DEF SessInit, SessInv, SessSlides

LEMMA LookupSessionKeeps ==
  ASSUME SessInv, NEW l \in Lookups, LookupSession(l)
  PROVE  SessInv'
<1>1. /\ day \in Nat /\ lastUse \in Nat /\ lastUse <= day /\ lost \in Nat
      /\ row.there \in BOOLEAN /\ row.expires \in Nat /\ TTL \in Nat /\ RenewAfter \in Nat
      /\ RenewAfter <= TTL /\ Absolute \in Nat
      /\ \A k \in Lookups : lookup[k].now \in Nat
  BY SessionsAssumption DEF SessInv, SessTypeOK
<1>2. /\ lookup[l].pc = "idle" /\ UNCHANGED <<day, row, lost>>
      /\ verdict' = [day |-> day, accepted |-> Valid(day), due |-> Due]
      /\ lastUse' = IF Valid(day) THEN day ELSE lastUse
      /\ lookup' = IF Valid(day) /\ NeedsRenewal(day)
                   THEN [lookup EXCEPT ![l] = [pc |-> "renew", now |-> day]] ELSE lookup
  BY DEF LookupSession
<1>3. Due /\ lost = 0 => Valid(day)
  <2> SUFFICES ASSUME Due, lost = 0 PROVE Valid(day)
    OBVIOUS
  <2>1. /\ row.there /\ day <= lastUse + (TTL - RenewAfter) /\ day <= Absolute
        /\ \A k \in Lookups : Renewing(k) => lookup[k].now = day
    BY DEF Due, Renewing
  <2>2. CASE lastUse + TTL <= row.expires + RenewAfter
    <3>1. day <= row.expires
      BY <1>1, <2>1, <2>2
    <3> QED BY <2>1, <3>1 DEF Valid
  <2>3. CASE \E k \in Lookups : Renewing(k) /\ lookup[k].now = lastUse
    <3>1. PICK k \in Lookups : Renewing(k)
      BY <2>3
    <3>2. lookup[k].now = day /\ lookup[k].now <= row.expires
      BY <2>1, <3>1 DEF SessInv, RenewedInTime
    <3> QED BY <2>1, <3>2 DEF Valid
  <2> QED BY <2>1, <2>2, <2>3 DEF SessInv, RenewedInTime
<1>4. SessSlides'
  BY <1>2, <1>3 DEF SessSlides
<1>5. CASE Valid(day)
  <2>1. lastUse' = day /\ day <= row.expires
    BY <1>2, <1>5 DEF Valid
  <2>2. CASE NeedsRenewal(day)
    <3>1. lookup' = [lookup EXCEPT ![l] = [pc |-> "renew", now |-> day]]
      BY <1>2, <1>5, <2>2
    <3>2. lookup'[l].pc = "renew" /\ lookup'[l].now = day
      BY <3>1 DEF SessInv, SessTypeOK
    <3>3. \A k \in Lookups \ {l} : lookup'[k] = lookup[k]
      BY <3>1 DEF SessInv, SessTypeOK
    <3>4. SessTypeOK'
      BY <1>1, <1>2, <2>1, <3>1 DEF SessInv, SessTypeOK, Valid, Due
    <3>5. day <= day + RenewAfter
      BY <1>1
    <3>6. RenewedInTime'
      BY <1>2, <2>1, <3>2, <3>3, <3>5 DEF SessInv, RenewedInTime, Renewing
    <3> QED BY <1>4, <3>4, <3>6 DEF SessInv
  <2>3. CASE ~NeedsRenewal(day)
    <3>1. lookup' = lookup
      BY <1>2, <2>3
    <3>2. SessTypeOK'
      BY <1>1, <1>2, <2>1, <3>1 DEF SessInv, SessTypeOK, Valid, Due
    <3>3. day + TTL <= row.expires + RenewAfter
      BY <1>1, <2>3 DEF NeedsRenewal
    <3>4. RenewedInTime'
      BY <1>2, <2>1, <3>1, <3>3 DEF SessInv, RenewedInTime, Renewing
    <3> QED BY <1>4, <3>2, <3>4 DEF SessInv
  <2> QED BY <2>2, <2>3
<1>6. CASE ~Valid(day)
  <2>1. lastUse' = lastUse /\ lookup' = lookup
    BY <1>2, <1>6
  <2>2. SessTypeOK'
    BY <1>1, <1>2, <2>1 DEF SessInv, SessTypeOK, Valid, Due
  <2>3. RenewedInTime'
    BY <1>2, <2>1 DEF SessInv, RenewedInTime, Renewing
  <2> QED BY <1>4, <2>2, <2>3 DEF SessInv
<1> QED BY <1>5, <1>6

LEMMA RenewKeeps ==
  ASSUME SessInv, NEW l \in Lookups, Renew(l)
  PROVE  SessInv'
<1>1. /\ day \in Nat /\ lastUse \in Nat /\ lastUse <= day /\ lost \in Nat /\ day <= MaxDay
      /\ row.there \in BOOLEAN /\ row.expires \in Nat /\ TTL \in Nat /\ RenewAfter \in Nat
      /\ RenewAfter <= TTL /\ MaxDay \in Nat
      /\ \A k \in Lookups : lookup[k].now \in Nat /\ lookup[k].now <= day
  BY SessionsAssumption DEF SessInv, SessTypeOK
<1>2. /\ Renewing(l)
      /\ row' = IF row.there THEN [row EXCEPT !.expires = lookup[l].now + TTL] ELSE row
      /\ lookup' = [lookup EXCEPT ![l] = [pc |-> "idle", now |-> 0]]
      /\ UNCHANGED <<day, lastUse, verdict, lost>>
  BY DEF Renew, Renewing
<1>3. /\ lookup'[l].pc # "renew" /\ \A k \in Lookups \ {l} : lookup'[k] = lookup[k]
  BY <1>2 DEF SessInv, SessTypeOK
<1>4. lookup' \in [Lookups -> [pc : {"idle", "renew"}, now : 0 .. day]]
  BY <1>1, <1>2 DEF SessInv, SessTypeOK
<1>5. SessSlides'
  BY <1>2 DEF SessInv, SessSlides
<1>6. CASE row.there
  <2>1. row' = [row EXCEPT !.expires = lookup[l].now + TTL]
    BY <1>2, <1>6
  <2>2. lookup[l].now + TTL \in TTL .. TTL + MaxDay
    BY <1>1
  <2>3. row' \in [there : BOOLEAN, expires : TTL .. TTL + MaxDay]
    BY <2>1, <2>2 DEF SessInv, SessTypeOK
  <2>4. row'.expires = lookup[l].now + TTL
    BY <2>1 DEF SessInv, SessTypeOK
  <2>5. day <= lookup[l].now + RenewAfter
    BY <1>2 DEF SessInv, RenewedInTime
  <2>6. lastUse + TTL <= row'.expires + RenewAfter /\ day <= row'.expires
    BY <1>1, <2>4, <2>5
  <2>7. \A k \in Lookups : lookup[k].now <= row'.expires
    BY <1>1, <2>4, <2>6
  <2>8. SessTypeOK'
    BY <1>2, <1>4, <2>3 DEF SessInv, SessTypeOK
  <2>9. RenewedInTime'
    BY <1>2, <1>3, <2>6, <2>7 DEF SessInv, RenewedInTime, Renewing
  <2> QED BY <1>5, <2>8, <2>9 DEF SessInv
<1>7. CASE ~row.there
  <2>1. row' = row
    BY <1>2, <1>7
  <2>2. SessTypeOK'
    BY <1>2, <1>4, <2>1 DEF SessInv, SessTypeOK
  <2>3. RenewedInTime'
    BY <1>2, <1>3, <1>7, <2>1 DEF SessInv, RenewedInTime, Renewing
  <2> QED BY <1>5, <2>2, <2>3 DEF SessInv
<1> QED BY <1>6, <1>7

LEMMA SessSteps == SessInv /\ [SessNext]_sessVars => SessInv'
<1> SUFFICES ASSUME SessInv, [SessNext]_sessVars PROVE SessInv'
  OBVIOUS
<1>1. ASSUME NEW l \in Lookups, RenewFails(l) PROVE SessInv'
  <2>1. /\ lookup' = [lookup EXCEPT ![l] = [pc |-> "idle", now |-> 0]]
        /\ lost < MaxLost /\ lost' = lost + 1 /\ UNCHANGED <<day, row, lastUse, verdict>>
    BY <1>1 DEF RenewFails
  <2>2. lost \in 0 .. MaxLost /\ day \in 0 .. MaxDay
    BY DEF SessInv, SessTypeOK
  <2>3. lost' \in 0 .. MaxLost /\ lost' # 0 /\ 0 \in 0 .. day
    BY <2>1, <2>2, SessionsAssumption
  <2>4. lookup' \in [Lookups -> [pc : {"idle", "renew"}, now : 0 .. day]]
    BY <2>1, <2>3 DEF SessInv, SessTypeOK
  <2>5. lookup'[l].pc # "renew" /\ \A k \in Lookups \ {l} : lookup'[k] = lookup[k]
    BY <2>1 DEF SessInv, SessTypeOK
  <2>6. SessTypeOK'
    BY <2>1, <2>3, <2>4 DEF SessInv, SessTypeOK
  <2>7. RenewedInTime'
    BY <2>1, <2>3, <2>5 DEF SessInv, RenewedInTime, Renewing
  <2> QED BY <2>3, <2>6, <2>7 DEF SessInv, SessSlides
<1>2. CASE DestroySession
  <2>1. /\ row' = [row EXCEPT !.there = FALSE]
        /\ UNCHANGED <<day, lookup, lastUse, verdict, lost>>
    BY <1>2 DEF DestroySession
  <2>2. row'.expires = row.expires /\ row'.there = FALSE
    BY <2>1 DEF SessInv, SessTypeOK
  <2>3. SessTypeOK'
    BY <2>1 DEF SessInv, SessTypeOK
  <2>4. RenewedInTime'
    BY <2>1, <2>2 DEF SessInv, RenewedInTime, Renewing
  <2> QED BY <2>1, <2>3, <2>4 DEF SessInv, SessSlides
<1>3. CASE NextDay
  <2>1. /\ day < MaxDay /\ day' = day + 1 /\ UNCHANGED <<row, lookup, lastUse, verdict, lost>>
        /\ \A l \in Lookups : Renewing(l) => day + 1 <= lookup[l].now + RenewAfter
    BY <1>3 DEF NextDay, Renewing
  <2>2. day \in 0 .. MaxDay
    BY DEF SessInv, SessTypeOK
  <2>3. day' \in 0 .. MaxDay /\ 0 .. day \subseteq 0 .. day'
    BY <2>1, <2>2, SessionsAssumption
  <2>4. SessTypeOK'
    BY <2>1, <2>3 DEF SessInv, SessTypeOK
  <2>5. RenewedInTime'
    BY <2>1 DEF SessInv, RenewedInTime, Renewing
  <2> QED BY <2>1, <2>4, <2>5 DEF SessInv, SessSlides
<1>4. CASE UNCHANGED sessVars
  BY <1>4 DEF sessVars, SessInv, SessTypeOK, SessSlides, RenewedInTime, Renewing
<1> QED BY <1>1, <1>2, <1>3, <1>4, LookupSessionKeeps, RenewKeeps DEF SessNext

(* For any limits and any number of concurrent requests: a session that is *)
(* used again before TTL - RenewAfter days have passed is accepted, in     *)
(* whatever order its renewals are written, unless one of them failed.     *)
THEOREM SessionsSlide == SessSpec => []SessSafe
<1>1. SessInv => SessSafe
  BY DEF SessInv, SessSafe
<1> QED BY <1>1, SessInitially, SessSteps, PTL DEF SessSpec

----------------------------------------------------------------------------
(* Access. No conjunct of AccessSafe but the types is inductive. AccInv    *)
(* follows each request from statement to statement: what it has checked   *)
(* (another administrator is left, the instance is empty, the password was *)
(* the current one) and what it still owes (sessions it is going to        *)
(* delete).                                                                *)

Roles == {"keep", "admin", "viewer"}
Offs == {"keep", "yes", "no"}
ChangeRecords == [role : Roles, off : Offs, reset : BOOLEAN]
Ops == {"none", "login", "setup", "password", "create", "delete", "update"}
PCs == {"idle", "verify", "session", "pending", "admin", "current", "newHash", "others",
        "insert", "isAdmin", "count", "remove", "role", "off", "kill", "password", "killAll"}
ReqRecords ==
    [op : Ops, pc : PCs, s : 0 .. MaxSessions, target : Users \cup {"nobody"},
     change : Changes \cup {NoChange}, pw : 0 .. MaxPw]
UserRecords == [there : BOOLEAN, admin : BOOLEAN, off : BOOLEAN, pw : 0 .. MaxPw]

(* Which operation is at which of its statements, and why.                 *)
Course(x) ==
    /\ x.pc # "idle" => x.target \in Users
    /\ x.pc \in {"isAdmin", "count"} => Removing(x)
    /\ x.pc = "remove" => x.op = "delete"
    /\ x.pc \in {"role", "off", "kill", "password", "killAll"} => x.op = "update"
    /\ x.pc = "role" => x.change.role # "keep"
    /\ x.op = "update" => x.change \in Changes
    /\ x.pc = "session" => x.pw # 0

AccTypes ==
    /\ AccessTypeOK
    /\ req \in [Reqs -> ReqRecords] /\ setups \in Nat
    /\ \A r \in Reqs : Course(req[r])
    /\ \A u \in There : ~Fresh(u)

----------------------------------------------------------------------------
(* Lemmas about the operators.                                             *)

LEMMA ChangeFacts ==
  /\ \A ch \in Changes \cup {NoChange} : ch \in ChangeRecords
  /\ \A ch \in Changes : ch.role # "keep" \/ ch.off # "keep" \/ ch.reset
  /\ NoChange = [role |-> "keep", off |-> "keep", reset |-> FALSE]
<1>1. ASSUME NEW ch \in Changes PROVE ch.role # "keep" \/ ch.off # "keep" \/ ch.reset
  <2>1. \/ Cardinality({ch.role, ch.off} \ {"keep"}) + (IF ch.reset THEN 1 ELSE 0) = 1
        \/ ch = [role |-> "viewer", off |-> "yes", reset |-> TRUE]
    BY DEF Changes
  <2>2. SUFFICES ASSUME ch.role = "keep", ch.off = "keep", ~ch.reset PROVE FALSE
    OBVIOUS
  <2>3. {ch.role, ch.off} \ {"keep"} = {}
    BY <2>2
  <2>4. Cardinality({ch.role, ch.off} \ {"keep"}) = 0
    BY <2>3, FS_EmptySet
  <2>5. Cardinality({ch.role, ch.off} \ {"keep"}) + (IF ch.reset THEN 1 ELSE 0) = 0
    BY <2>2, <2>4
  <2>6. ch # [role |-> "viewer", off |-> "yes", reset |-> TRUE]
    BY <2>2
  <2> QED BY <2>1, <2>2, <2>5, <2>6
<1>2. \A ch \in Changes : ch \in ChangeRecords
  BY DEF Changes, ChangeRecords, Roles, Offs
<1>3. NoChange \in ChangeRecords
  BY DEF NoChange, ChangeRecords, Roles, Offs
<1> QED BY <1>1, <1>2, <1>3 DEF NoChange

(* The statements of an update that are left.                              *)
LEMMA FieldFacts ==
  ASSUME NEW ch \in Changes \cup {NoChange}
  PROVE  /\ AfterDisabled(ch) \in {"password", "done"}
         /\ AfterRole(ch) \in {"off", "password", "done"}
         /\ FirstField(ch) \in {"role", "off", "password", "done"}
         /\ FirstField(ch) = "role" => ch.role # "keep"
         /\ ch \in Changes => FirstField(ch) # "done"
BY ChangeFacts DEF AfterDisabled, AfterRole, FirstField

LEMMA NoReqFacts ==
  /\ NoReq \in ReqRecords /\ NoReq.pc = "idle" /\ Course(NoReq) /\ NoReq.s = 0 /\ NoReq.pw = 0
  /\ NoReq.op = "none" /\ NoReq.change = NoChange
BY AccessAssumption DEF NoReq, ReqRecords, Ops, PCs, Course, NoChange

LEMMA GoToFacts ==
  ASSUME req \in [Reqs -> ReqRecords], NEW r \in Reqs, NEW pc \in PCs \cup {"done"}, GoTo(r, pc)
  PROVE  /\ req' \in [Reqs -> ReqRecords]
         /\ \A q \in Reqs : q # r => req'[q] = req[q]
         /\ pc = "done" => req'[r] = NoReq
         /\ pc # "done" => /\ req'[r].pc = pc /\ req'[r].op = req[r].op /\ req'[r].s = req[r].s
                           /\ req'[r].target = req[r].target /\ req'[r].change = req[r].change
                           /\ req'[r].pw = req[r].pw
<1>1. CASE pc = "done"
  <2>1. req' = [req EXCEPT ![r] = NoReq]
    BY <1>1 DEF GoTo
  <2> QED BY <1>1, <2>1, NoReqFacts
<1>2. CASE pc # "done"
  <2> DEFINE x == [req[r] EXCEPT !.pc = pc]
  <2>1. req' = [req EXCEPT ![r] = x]
    BY <1>2 DEF GoTo
  <2>2. x \in ReqRecords /\ x.pc = pc /\ x.op = req[r].op /\ x.s = req[r].s
        /\ x.target = req[r].target /\ x.change = req[r].change /\ x.pw = req[r].pw
    BY <1>2 DEF ReqRecords
  <2> HIDE DEF x
  <2> QED BY <1>2, <2>1, <2>2
<1> QED BY <1>1, <1>2

----------------------------------------------------------------------------
(* Where a request is after each of its statements.                        *)

Over(r) == req'[r] = NoReq
Same(r) == /\ req'[r].op = req[r].op /\ req'[r].s = req[r].s
           /\ req'[r].target = req[r].target /\ req'[r].change = req[r].change
At(r, pc) == Same(r) /\ req'[r].pc = pc /\ req'[r].pw = req[r].pw
OnlyThis(r) == req' \in [Reqs -> ReqRecords] /\ \A q \in Reqs : q # r => req'[q] = req[q]

LEMMA Goes ==
  ASSUME AccTypes, NEW r \in Reqs, NEW pc \in PCs \cup {"done"}, GoTo(r, pc)
  PROVE  /\ OnlyThis(r)
         /\ pc = "done" => Over(r)
         /\ pc # "done" => At(r, pc)
BY GoToFacts DEF AccTypes, Over, Same, At, OnlyThis

(* What a statement that ends with GoTo makes of its request.              *)
LEMMA GoesOn ==
  ASSUME AccTypes, NEW r \in Reqs, req[r].pc # "idle"
  PROVE  /\ CheckCurrent(r) => OnlyThis(r) /\ (Over(r) \/ At(r, "newHash"))
         /\ NewHash(r) => OnlyThis(r) /\ IF req[r].s = 0 THEN Over(r) ELSE At(r, "others")
         /\ CreateSession(r) \/ DestroyOtherSessions(r) \/ DeleteUser(r) \/ KillAfterReset(r) \/ HangUp(r)
              => OnlyThis(r) /\ Over(r)
         /\ \A admin \in BOOLEAN : CreateUser(r, admin) => OnlyThis(r) /\ Over(r)
         /\ SetupPending(r) => /\ OnlyThis(r)
                               /\ IF There = {} THEN At(r, "admin") ELSE Over(r)
         /\ ResetPassword(r) => OnlyThis(r) /\ At(r, "killAll")
<1>1. {"newHash", "others", "admin", "killAll"} \subseteq PCs
  BY DEF PCs
<1>2. ASSUME NEW pc \in {"newHash", "others", "admin", "killAll", "done"}, GoTo(r, pc)
      PROVE  OnlyThis(r) /\ (pc = "done" => Over(r)) /\ (pc # "done" => At(r, pc))
  BY <1>1, <1>2, Goes
<1>3. CheckCurrent(r) => OnlyThis(r) /\ (Over(r) \/ At(r, "newHash"))
  BY <1>2 DEF CheckCurrent
<1>4. NewHash(r) => OnlyThis(r) /\ IF req[r].s = 0 THEN Over(r) ELSE At(r, "others")
  BY <1>2 DEF NewHash
<1>5. CreateSession(r) \/ DestroyOtherSessions(r) \/ DeleteUser(r) \/ KillAfterReset(r) \/ HangUp(r)
         => GoTo(r, "done")
  BY DEF CreateSession, DestroyOtherSessions, DeleteUser, KillAfterReset, HangUp
<1>6. \A admin \in BOOLEAN : CreateUser(r, admin) => GoTo(r, "done")
  BY DEF CreateUser
<1>7. SetupPending(r) => OnlyThis(r) /\ IF There = {} THEN At(r, "admin") ELSE Over(r)
  BY <1>2 DEF SetupPending
<1>8. ResetPassword(r) => OnlyThis(r) /\ At(r, "killAll")
  BY <1>2 DEF ResetPassword
<1> QED BY <1>2, <1>3, <1>4, <1>5, <1>6, <1>7, <1>8

(* The statements of deleteUser and updateUser up to the first write.      *)
LEMMA GuardGoes ==
  ASSUME AccTypes, NEW r \in Reqs, IsAdmin(r) \/ AdminCount(r)
  PROVE  /\ OnlyThis(r) /\ Removing(req[r])
         /\ \/ Over(r)
            \/ /\ IsAdmin(r) /\ At(r, "count")
            \/ /\ req[r].target \in Users
               /\ IF IsAdmin(r) THEN ~user[req[r].target].admin ELSE Cardinality(Admins) > 1
               /\ \/ req[r].op = "delete" /\ At(r, "remove")
                  \/ /\ req[r].op = "update" /\ At(r, FirstField(req[r].change))
                     /\ FirstField(req[r].change) \in {"role", "off", "password"}
<1>1. /\ req[r] \in ReqRecords /\ Course(req[r]) /\ req[r].pc \in {"isAdmin", "count"}
      /\ IsAdmin(r) => req[r].pc = "isAdmin"
      /\ AdminCount(r) => req[r].pc = "count"
  BY DEF AccTypes, IsAdmin, AdminCount
<1>2. Removing(req[r]) /\ req[r].target \in Users
  BY <1>1 DEF Course
<1>3. req[r].op \in {"delete", "update"} /\ (req[r].op = "update" => req[r].change \in Changes)
  BY <1>1, <1>2 DEF Removing, Course
<1> DEFINE pc == Guarded(req[r])
<1>4. /\ req[r].op = "delete" => pc = "remove"
      /\ req[r].op = "update" => pc = FirstField(req[r].change) /\ pc \in {"role", "off", "password"}
  BY <1>3, FieldFacts DEF Guarded
<1>5. pc \in PCs /\ pc # "done" /\ "count" \in PCs
  BY <1>3, <1>4 DEF PCs
<1>6. CASE IsAdmin(r)
  <2>1. \/ GoTo(r, "done")
        \/ GoTo(r, "count")
        \/ GoTo(r, pc) /\ ~user[req[r].target].admin
    BY <1>6 DEF IsAdmin
  <2> HIDE DEF pc
  <2>2. CASE GoTo(r, "done")
    BY <2>2, Goes, <1>2
  <2>3. CASE GoTo(r, "count")
    BY <2>3, Goes, <1>2, <1>5, <1>6
  <2>4. CASE GoTo(r, pc) /\ ~user[req[r].target].admin
    <3>1. OnlyThis(r) /\ At(r, pc)
      BY <2>4, <1>5, Goes
    <3> QED BY <1>2, <1>3, <1>4, <1>6, <2>4, <3>1
  <2> QED BY <2>1, <2>2, <2>3, <2>4
<1>7. CASE AdminCount(r)
  <2>0. Cardinality(Admins) \in Nat
    <3>1. Admins \subseteq Users
      BY DEF Admins, There
    <3> QED BY <3>1, AccessAssumption, FS_Subset, FS_CardinalityType
  <2>1. \/ GoTo(r, "done")
        \/ GoTo(r, pc) /\ Cardinality(Admins) > 1
    BY <1>7, <2>0 DEF AdminCount
  <2> HIDE DEF pc
  <2>2. CASE GoTo(r, "done")
    BY <2>2, Goes, <1>2
  <2>3. CASE GoTo(r, pc) /\ Cardinality(Admins) > 1
    <3>1. OnlyThis(r) /\ At(r, pc)
      BY <2>3, <1>5, Goes
    <3>2. ~IsAdmin(r)
      BY <1>1, <1>7
    <3> QED BY <1>2, <1>3, <1>4, <2>3, <3>1, <3>2
  <2> QED BY <2>1, <2>2, <2>3
<1> QED BY <1>6, <1>7

(* The writes of an update.                                                *)
LEMMA FieldGoes ==
  ASSUME AccTypes, NEW r \in Reqs, req[r].pc # "idle"
  PROVE  /\ UpdateRole(r) => OnlyThis(r) /\ (Over(r) \/ At(r, "off") \/ At(r, "password"))
         /\ UpdateDisabled(r) => /\ OnlyThis(r)
                                 /\ IF req[r].change.off = "yes" THEN At(r, "kill")
                                    ELSE Over(r) \/ At(r, "password")
         /\ KillSessions(r) => OnlyThis(r) /\ (Over(r) \/ At(r, "password"))
<1> DEFINE ch == req[r].change
<1>1. ch \in Changes \cup {NoChange} /\ req[r] \in ReqRecords
  BY DEF AccTypes, ReqRecords
<1>2. AfterDisabled(ch) \in {"password", "done"} /\ AfterRole(ch) \in {"off", "password", "done"}
  BY <1>1, FieldFacts
<1>3. {"kill", "off", "password"} \subseteq PCs
  BY DEF PCs
<1>4. ASSUME NEW pc \in {"kill", "off", "password", "done"}, GoTo(r, pc)
      PROVE  OnlyThis(r) /\ (pc = "done" => Over(r)) /\ (pc # "done" => At(r, pc))
  BY <1>3, <1>4, Goes
<1>5. UpdateRole(r) => GoTo(r, AfterRole(ch))
  BY DEF UpdateRole
<1>6. UpdateDisabled(r) => GoTo(r, IF ch.off = "yes" THEN "kill" ELSE AfterDisabled(ch))
  BY DEF UpdateDisabled
<1>7. KillSessions(r) => GoTo(r, AfterDisabled(ch))
  BY DEF KillSessions
<1>8. (IF ch.off = "yes" THEN "kill" ELSE AfterDisabled(ch)) \in {"kill", "off", "password", "done"}
  BY <1>2
<1>9. ASSUME UpdateDisabled(r)
      PROVE  OnlyThis(r) /\ IF ch.off = "yes" THEN At(r, "kill") ELSE Over(r) \/ At(r, "password")
  <2>1. CASE ch.off = "yes"
    BY <1>4, <1>6, <1>9, <2>1
  <2>2. CASE ch.off # "yes"
    <3>1. GoTo(r, AfterDisabled(ch))
      BY <1>6, <1>9, <2>2
    <3> QED BY <1>2, <1>4, <2>2, <3>1
  <2> QED BY <2>1, <2>2
<1> HIDE DEF ch
<1>10. UpdateRole(r) => OnlyThis(r) /\ (Over(r) \/ At(r, "off") \/ At(r, "password"))
  BY <1>2, <1>4, <1>5
<1>11. KillSessions(r) => OnlyThis(r) /\ (Over(r) \/ At(r, "password"))
  BY <1>2, <1>4, <1>7
<1> QED BY <1>9, <1>10, <1>11 DEF ch

(* The two statements that take a password version with them.              *)
LEMMA OpensGo ==
  ASSUME AccTypes, NEW r \in Reqs
  PROVE  /\ Verify(r) =>
              /\ OnlyThis(r)
              /\ \/ Over(r)
                 \/ /\ req[r].target \in There /\ ~user[req[r].target].off
                    /\ Same(r) /\ req'[r].pc = "session" /\ req'[r].pw = user[req[r].target].pw
         /\ SetupInsert(r) =>
              /\ OnlyThis(r)
              /\ IF ~Fresh(req[r].target) THEN Over(r)
                 ELSE Same(r) /\ req'[r].pc = "session" /\ req'[r].pw = 1
<1>1. req \in [Reqs -> ReqRecords] /\ req[r] \in ReqRecords /\ Course(req[r])
  BY DEF AccTypes
<1>2. ASSUME NEW v \in 0 .. MaxPw, req' = [req EXCEPT ![r].pc = "session", ![r].pw = v]
      PROVE  OnlyThis(r) /\ Same(r) /\ req'[r].pc = "session" /\ req'[r].pw = v
  <2> DEFINE x == [req[r] EXCEPT !.pc = "session", !.pw = v]
  <2>1. req' = [req EXCEPT ![r] = x]
    BY <1>1, <1>2
  <2>2. x \in ReqRecords /\ x.op = req[r].op /\ x.s = req[r].s /\ x.target = req[r].target
        /\ x.change = req[r].change /\ x.pc = "session" /\ x.pw = v
    BY <1>1 DEF ReqRecords, PCs
  <2> HIDE DEF x
  <2>3. req'[r] = x /\ \A q \in Reqs : q # r => req'[q] = req[q]
    BY <1>1, <2>1
  <2>4. req' \in [Reqs -> ReqRecords]
    BY <1>1, <2>1, <2>2
  <2> QED BY <2>2, <2>3, <2>4 DEF OnlyThis, Same
<1>3. ASSUME Verify(r)
      PROVE  /\ OnlyThis(r)
             /\ \/ Over(r)
                \/ /\ req[r].target \in There /\ ~user[req[r].target].off
                   /\ Same(r) /\ req'[r].pc = "session" /\ req'[r].pw = user[req[r].target].pw
  <2> DEFINE u == req[r].target
  <2>1. CASE GoTo(r, "done")
    BY <2>1, Goes
  <2>2. CASE u \in There /\ ~user[u].off /\ req' = [req EXCEPT ![r].pc = "session", ![r].pw = user[u].pw]
    <3>1. user[u].pw \in 0 .. MaxPw
      BY <2>2 DEF AccTypes, AccessTypeOK, There
    <3> QED BY <1>2, <2>2, <3>1
  <2> QED BY <1>3, <2>1, <2>2 DEF Verify
<1>4. ASSUME SetupInsert(r)
      PROVE  /\ OnlyThis(r)
             /\ IF ~Fresh(req[r].target) THEN Over(r)
                ELSE Same(r) /\ req'[r].pc = "session" /\ req'[r].pw = 1
  <2>1. CASE ~Fresh(req[r].target)
    <3>1. GoTo(r, "done")
      BY <1>4, <2>1 DEF SetupInsert
    <3> QED BY <2>1, <3>1, Goes
  <2>2. CASE Fresh(req[r].target)
    <3>1. req' = [req EXCEPT ![r].pc = "session", ![r].pw = 1]
      BY <1>4, <2>2 DEF SetupInsert
    <3>2. 1 \in 0 .. MaxPw
      BY AccessAssumption
    <3> QED BY <1>2, <2>2, <3>1, <3>2
  <2> QED BY <2>1, <2>2
<1> QED BY <1>3, <1>4

----------------------------------------------------------------------------
(* Where a request begins.                                                 *)

Arriving(r, u) ==
    \/ ArriveLogin(r, u) \/ ArriveSetup(r, u)
    \/ \E s \in 0 .. opened : ArrivePassword(r, u, s)
    \/ \E op \in {"create", "delete"} : ArriveUserOp(r, op, u, NoChange)
    \/ \E ch \in Changes : ArriveUserOp(r, "update", u, ch)
Begins(x) ==
    /\ x \in ReqRecords /\ Course(x) /\ x.s \in 0 .. opened
    /\ x.pc \in {"verify", "pending", "current", "insert", "isAdmin", "role", "off", "password"}
    /\ x.pc \in {"verify", "pending"} \/ There # {}
    /\ Removing(x) => x.pc = "isAdmin"

LEMMA Arrivals ==
  ASSUME AccTypes, NEW r \in Reqs, NEW u \in Users, Arriving(r, u)
  PROVE  \E x : Begins(x) /\ Arrive(r, x)
<1>0. /\ NoReq \in ReqRecords /\ opened \in 0 .. MaxSessions /\ 0 \in 0 .. opened
      /\ NoReq.s = 0 /\ NoReq.op = "none"
  BY NoReqFacts, AccessAssumption DEF AccTypes, AccessTypeOK
<1>1. ASSUME NEW op \in {"login", "setup"}, NEW pc \in {"verify", "pending"},
             Arrive(r, [NoReq EXCEPT !.op = op, !.pc = pc, !.target = u])
      PROVE  \E x : Begins(x) /\ Arrive(r, x)
  <2> DEFINE x == [NoReq EXCEPT !.op = op, !.pc = pc, !.target = u]
  <2>1. x \in ReqRecords /\ x.op = op /\ x.pc = pc /\ x.target = u /\ x.s = 0
    BY <1>0 DEF ReqRecords, Ops, PCs
  <2>2. Arrive(r, x)
    BY <1>1
  <2> HIDE DEF x
  <2>3. Begins(x)
    BY <1>0, <2>1 DEF Begins, Course, Removing
  <2> QED BY <2>2, <2>3
<1>2. ASSUME NEW s \in 0 .. opened, ArrivePassword(r, u, s)
      PROVE  \E x : Begins(x) /\ Arrive(r, x)
  <2> DEFINE x == [NoReq EXCEPT !.op = "password", !.pc = "current", !.target = u, !.s = s]
  <2>0. s \in 0 .. MaxSessions
    BY <1>0, AccessAssumption
  <2>1. x \in ReqRecords /\ x.op = "password" /\ x.pc = "current" /\ x.target = u /\ x.s = s
    BY <1>0, <2>0 DEF ReqRecords, Ops, PCs
  <2>2. Arrive(r, x) /\ u \in There
    BY <1>2 DEF ArrivePassword, Authenticated
  <2> HIDE DEF x
  <2>3. Begins(x)
    BY <1>0, <2>1, <2>2 DEF Begins, Course, Removing
  <2> QED BY <2>2, <2>3
<1>3. ASSUME NEW op \in {"create", "delete", "update"}, NEW ch \in Changes \cup {NoChange},
             op = "update" => ch \in Changes, op # "update" => ch = NoChange,
             ArriveUserOp(r, op, u, ch)
      PROVE  \E x : Begins(x) /\ Arrive(r, x)
  <2> DEFINE y == [NoReq EXCEPT !.op = op, !.target = u, !.change = ch]
             x == [y EXCEPT !.pc = UserOpPC(y)]
  <2>1. y \in ReqRecords /\ y.op = op /\ y.target = u /\ y.s = 0 /\ y.change = ch
    BY <1>0 DEF ReqRecords, Ops
  <2>2. Arrive(r, x) /\ There # {}
    BY <1>3 DEF ArriveUserOp, Authenticated
  <2> HIDE DEF y
  <2>3. /\ op = "create" => UserOpPC(y) = "insert"
        /\ op # "create" /\ Removing(y) => UserOpPC(y) = "isAdmin"
        /\ op = "update" /\ ~Removing(y) => UserOpPC(y) = FirstField(ch)
        /\ op = "delete" => Removing(y)
        /\ op = "create" => ~Removing(y)
    BY <2>1 DEF UserOpPC, Removing
  <2>4. op = "update" => FirstField(ch) \in {"role", "off", "password"}
    BY <1>3, FieldFacts
  <2>5. UserOpPC(y) \in {"insert", "isAdmin", "role", "off", "password"}
    BY <2>3, <2>4
  <2>6. x \in ReqRecords /\ x.op = op /\ x.target = u /\ x.s = 0 /\ x.change = ch /\ x.pc = UserOpPC(y)
    BY <2>1, <2>5 DEF ReqRecords, PCs
  <2>7. Removing(x) <=> Removing(y)
    BY <2>1, <2>6 DEF Removing
  <2> HIDE DEF x
  <2>8. Course(x)
    <3>1. FirstField(ch) = "role" => ch.role # "keep"
      BY FieldFacts
    <3> QED BY <1>3, <2>3, <2>4, <2>5, <2>6, <2>7, <3>1 DEF Course
  <2>9. Begins(x)
    BY <1>0, <2>2, <2>3, <2>5, <2>6, <2>7, <2>8 DEF Begins
  <2> QED BY <2>2, <2>9
<1>4. ArriveLogin(r, u) \/ ArriveSetup(r, u) => \E x : Begins(x) /\ Arrive(r, x)
  BY <1>1 DEF ArriveLogin, ArriveSetup
<1> QED BY <1>2, <1>3, <1>4 DEF Arriving

LEMMA Arrived ==
  ASSUME AccTypes, NEW r \in Reqs, NEW x, Begins(x), Arrive(r, x)
  PROVE  /\ OnlyThis(r) /\ req'[r] = x /\ req[r].pc = "idle"
         /\ UNCHANGED <<user, sessions, opened, tokens, setups, excused, hangups>>
         /\ races' = races \cup {"admins" : o \in {o \in Reqs : Open(o) /\ Removing(req[o]) /\ Removing(x)}}
         /\ arrived' \in 0 .. MaxRequests
<1>1. arrived \in 0 .. MaxRequests /\ MaxRequests \in Nat /\ req \in [Reqs -> ReqRecords] /\ x \in ReqRecords
  BY AccessAssumption DEF AccTypes, AccessTypeOK, Begins
<1> QED BY <1>1 DEF Arrive, Arrives, OnlyThis

----------------------------------------------------------------------------
(* What a statement makes of the user it is about.                         *)

NewRow(admin) == [there |-> TRUE, admin |-> admin, off |-> FALSE, pw |-> 1]
UserIs(r, rec) == user' = [user EXCEPT ![req[r].target] = rec]
Writes(r) ==
    \/ user' = user
    \/ /\ SetupInsert(r) \/ \E admin \in BOOLEAN : CreateUser(r, admin)
       /\ Fresh(req[r].target) /\ \E admin \in BOOLEAN : UserIs(r, NewRow(admin))
    \/ /\ NewHash(r) \/ ResetPassword(r) \/ UpdateRole(r) \/ UpdateDisabled(r)
       /\ req[r].target \in There
       /\ \E rec \in UserRecords : /\ UserIs(r, rec) /\ rec.there
                                   /\ rec.pw = user[req[r].target].pw \/ rec.pw = user[req[r].target].pw + 1
    \/ /\ DeleteUser(r) /\ UserIs(r, [NoUser EXCEPT !.pw = user[req[r].target].pw])

LEMMA UserWrites ==
  ASSUME AccTypes, NEW r \in Reqs, ReqStep(r)
  PROVE  Writes(r)
<1> DEFINE u == req[r].target
<1>1. user \in [Users -> UserRecords] /\ MaxPw \in Nat /\ req[r] \in ReqRecords
  BY AccessAssumption DEF AccTypes, AccessTypeOK, UserRecords
<1>2. req[r].change \in ChangeRecords
  BY <1>1, ChangeFacts DEF ReqRecords
<1>3. u \in There => u \in Users /\ user[u] \in UserRecords
  BY <1>1 DEF There
<1>4. ASSUME NewHash(r) PROVE Writes(r)
  <2>1. CASE u \in There
    <3> DEFINE rec == [user[u] EXCEPT !.pw = user[u].pw + 1]
    <3>1. user' = [user EXCEPT ![u] = rec]
      BY <1>4, <2>1 DEF NewHash
    <3>2. user[u].pw < MaxPw
      BY <1>4 DEF NewHash
    <3>3. rec \in UserRecords /\ rec.there /\ rec.pw = user[u].pw + 1
      BY <1>1, <1>3, <2>1, <3>2 DEF UserRecords, There
    <3> HIDE DEF rec
    <3> QED BY <1>4, <2>1, <3>1, <3>3 DEF Writes, UserIs
  <2>2. CASE u \notin There
    BY <1>4, <2>2 DEF NewHash, Writes
  <2> QED BY <2>1, <2>2
<1>5. ASSUME ResetPassword(r) PROVE Writes(r)
  <2>1. CASE u \in There
    <3> DEFINE rec == [user[u] EXCEPT !.pw = user[u].pw + 1]
    <3>1. user' = [user EXCEPT ![u] = rec]
      BY <1>5, <2>1 DEF ResetPassword, Updated
    <3>2. user[u].pw < MaxPw
      BY <1>5 DEF ResetPassword
    <3>3. rec \in UserRecords /\ rec.there /\ rec.pw = user[u].pw + 1
      BY <1>1, <1>3, <2>1, <3>2 DEF UserRecords, There
    <3> HIDE DEF rec
    <3> QED BY <1>5, <2>1, <3>1, <3>3 DEF Writes, UserIs
  <2>2. CASE u \notin There
    BY <1>5, <2>2 DEF ResetPassword, Updated, Writes
  <2> QED BY <2>1, <2>2
<1>6. ASSUME UpdateRole(r) PROVE Writes(r)
  <2>1. CASE u \in There
    <3> DEFINE isAdmin == (req[r].change.role = "admin")
               rec == [user[u] EXCEPT !.admin = isAdmin]
    <3>1. user' = [user EXCEPT ![u] = rec]
      BY <1>6, <2>1 DEF UpdateRole, Updated
    <3>2. isAdmin \in BOOLEAN
      OBVIOUS
    <3> HIDE DEF isAdmin
    <3>3. rec \in UserRecords /\ rec.there /\ rec.pw = user[u].pw
      BY <1>1, <1>3, <2>1, <3>2 DEF UserRecords, There
    <3> HIDE DEF rec
    <3> QED BY <1>6, <2>1, <3>1, <3>3 DEF Writes, UserIs
  <2>2. CASE u \notin There
    BY <1>6, <2>2 DEF UpdateRole, Updated, Writes
  <2> QED BY <2>1, <2>2
<1>7. ASSUME UpdateDisabled(r) PROVE Writes(r)
  <2>1. CASE u \in There
    <3> DEFINE isOff == (req[r].change.off = "yes")
               rec == [user[u] EXCEPT !.off = isOff]
    <3>1. user' = [user EXCEPT ![u] = rec]
      BY <1>7, <2>1 DEF UpdateDisabled, Updated
    <3>2. isOff \in BOOLEAN
      OBVIOUS
    <3> HIDE DEF isOff
    <3>3. rec \in UserRecords /\ rec.there /\ rec.pw = user[u].pw
      BY <1>1, <1>3, <2>1, <3>2 DEF UserRecords, There
    <3> HIDE DEF rec
    <3> QED BY <1>7, <2>1, <3>1, <3>3 DEF Writes, UserIs
  <2>2. CASE u \notin There
    BY <1>7, <2>2 DEF UpdateDisabled, Updated, Writes
  <2> QED BY <2>1, <2>2
<1>8. ASSUME SetupInsert(r) PROVE Writes(r)
  BY <1>8 DEF SetupInsert, Writes, UserIs, NewRow
<1>9. ASSUME NEW admin \in BOOLEAN, CreateUser(r, admin) PROVE Writes(r)
  BY <1>9 DEF CreateUser, Writes, UserIs, NewRow
<1>10. DeleteUser(r) => Writes(r)
  BY DEF DeleteUser, Writes, UserIs
<1>11. Verify(r) \/ CreateSession(r) \/ SetupPending(r) \/ CheckCurrent(r) \/ DestroyOtherSessions(r)
         \/ IsAdmin(r) \/ AdminCount(r) \/ KillSessions(r) \/ KillAfterReset(r) => user' = user
  BY DEF Verify, CreateSession, SetupPending, CheckCurrent, DestroyOtherSessions, IsAdmin,
         AdminCount, KillSessions, KillAfterReset
<1> QED BY <1>4, <1>5, <1>6, <1>7, <1>8, <1>9, <1>10, <1>11 DEF ReqStep, Writes

(* So users stay of their type, and an id is not used again.               *)
LEMMA UsersKept ==
  ASSUME AccTypes, NEW r \in Reqs, req[r].pc # "idle", Writes(r)
  PROVE  /\ user' \in [Users -> UserRecords] /\ \A u \in There' : ~Fresh(u)'
         /\ \A u \in Users : ~Fresh(u) => ~Fresh(u)'
         /\ \A u \in Users : u # req[r].target => user'[u] = user[u]
         /\ \A u \in There : u \in There' \/ (DeleteUser(r) /\ u = req[r].target)
         /\ \A u \in There' : u \in There \/ (Fresh(u) /\ user'[u].pw = 1 /\ ~user'[u].off)
<1> DEFINE t == req[r].target
<1>1. /\ user \in [Users -> UserRecords] /\ MaxPw \in Nat \ {0} /\ req[r] \in ReqRecords
      /\ Course(req[r]) /\ \A u \in There : ~Fresh(u)
  BY AccessAssumption DEF AccTypes, AccessTypeOK, UserRecords
<1>2. t \in Users /\ user[t] \in UserRecords
  BY <1>1 DEF Course
<1> HIDE DEF t
<1>3. CASE user' = user
  BY <1>1, <1>3 DEF There, Fresh
<1>4. ASSUME NEW admin \in BOOLEAN, user' = [user EXCEPT ![t] = NewRow(admin)], Fresh(t)
      PROVE  /\ user' \in [Users -> UserRecords] /\ \A u \in There' : ~Fresh(u)'
             /\ \A u \in Users : ~Fresh(u) => ~Fresh(u)'
             /\ \A u \in Users : u # t => user'[u] = user[u]
             /\ There \subseteq There'
             /\ \A u \in There' : u \in There \/ (Fresh(u) /\ user'[u].pw = 1 /\ ~user'[u].off)
  <2>1. /\ NewRow(admin) \in UserRecords /\ NewRow(admin).there /\ NewRow(admin).pw = 1
        /\ ~NewRow(admin).off
    BY <1>1 DEF NewRow, UserRecords
  <2>2. user'[t] = NewRow(admin) /\ \A u \in Users : u # t => user'[u] = user[u]
    BY <1>1, <1>2, <1>4
  <2>3. user' \in [Users -> UserRecords]
    BY <1>1, <1>4, <2>1
  <2> QED BY <1>1, <1>4, <2>1, <2>2, <2>3 DEF There, Fresh
<1>5. ASSUME NEW rec \in UserRecords, user' = [user EXCEPT ![t] = rec], rec.there, t \in There,
             rec.pw = user[t].pw \/ rec.pw = user[t].pw + 1
      PROVE  /\ user' \in [Users -> UserRecords] /\ \A u \in There' : ~Fresh(u)'
             /\ \A u \in Users : ~Fresh(u) => ~Fresh(u)'
             /\ \A u \in Users : u # t => user'[u] = user[u]
             /\ There' = There
  <2>1. user'[t] = rec /\ \A u \in Users : u # t => user'[u] = user[u]
    BY <1>1, <1>2, <1>5
  <2>2. user' \in [Users -> UserRecords]
    BY <1>1, <1>5
  <2>3. rec.pw # 0
    BY <1>1, <1>2, <1>5 DEF Fresh, UserRecords
  <2> QED BY <1>1, <1>5, <2>1, <2>2, <2>3 DEF There, Fresh
<1>6. ASSUME user' = [user EXCEPT ![t] = [NoUser EXCEPT !.pw = user[t].pw]]
      PROVE  /\ user' \in [Users -> UserRecords] /\ \A u \in There' : ~Fresh(u)'
             /\ \A u \in Users : ~Fresh(u) => ~Fresh(u)'
             /\ \A u \in Users : u # t => user'[u] = user[u]
             /\ There' = There \ {t}
  <2> DEFINE rec == [NoUser EXCEPT !.pw = user[t].pw]
  <2>1. rec \in UserRecords /\ ~rec.there /\ rec.pw = user[t].pw
    BY <1>2 DEF NoUser, UserRecords
  <2>2. user' = [user EXCEPT ![t] = rec]
    BY <1>6
  <2> HIDE DEF rec
  <2>3. user'[t] = rec /\ \A u \in Users : u # t => user'[u] = user[u]
    BY <1>1, <1>2, <2>2
  <2>4. user' \in [Users -> UserRecords]
    BY <1>1, <2>1, <2>2
  <2> QED BY <1>1, <1>2, <2>1, <2>3, <2>4 DEF There, Fresh
<1> QED BY <1>3, <1>4, <1>5, <1>6 DEF Writes, UserIs, t

----------------------------------------------------------------------------
(* Types.                                                                  *)

LEMMA AccTypesInit == AccessInit => AccTypes
<1> SUFFICES ASSUME AccessInit PROVE AccTypes
  OBVIOUS
<1>1. /\ tokens = {} /\ req = [r \in Reqs |-> NoReq] /\ races = {} /\ excused = FALSE
      /\ arrived = 0 /\ hangups = 0
  BY DEF AccessInit
<1>2. req \in [Reqs -> ReqRecords] /\ \A r \in Reqs : req[r] = NoReq
  BY <1>1, NoReqFacts
<1>3. /\ MaxSessions \in Nat \ {0} /\ MaxPw \in Nat \ {0} /\ MaxRequests \in Nat /\ MaxHangups \in Nat
  BY AccessAssumption
<1>4. /\ user \in [Users -> UserRecords] /\ \A u \in There : ~Fresh(u)
      /\ opened \in 0 .. MaxSessions /\ setups \in Nat
      /\ sessions \subseteq [id : 1 .. opened, user : There, pw : 1 .. MaxPw]
  <2>1. CASE user = [u \in Users |-> NoUser] /\ sessions = {} /\ opened = 0 /\ setups = 0
    <3>1. NoUser \in UserRecords /\ ~NoUser.there
      BY <1>3 DEF NoUser, UserRecords
    <3> QED BY <1>3, <2>1, <3>1 DEF There
  <2>2. CASE /\ setups = 1 /\ opened = 1
             /\ user \in [Users -> [there : {TRUE}, admin : BOOLEAN, off : BOOLEAN, pw : {1}]]
             /\ \E u \in Admins : sessions = {[id |-> 1, user |-> u, pw |-> 1]}
    <3> DEFINE ones == [there : {TRUE}, admin : BOOLEAN, off : BOOLEAN, pw : {1}]
    <3>0. ASSUME NEW x \in ones PROVE x \in UserRecords /\ x.pw = 1
      <4>1. /\ x = [there |-> x.there, admin |-> x.admin, off |-> x.off, pw |-> x.pw]
            /\ x.there \in {TRUE} /\ x.admin \in BOOLEAN /\ x.off \in BOOLEAN /\ x.pw \in {1}
        OBVIOUS
      <4>2. x.pw \in 0 .. MaxPw /\ x.pw = 1
        BY <1>3, <4>1
      <4>3. x.there \in BOOLEAN
        BY <4>1, Zenon
      <4> QED BY <4>1, <4>2, <4>3 DEF UserRecords
    <3>1. \A u \in Users : user[u] \in UserRecords /\ user[u].pw = 1
      <4>1. \A u \in Users : user[u] \in ones
        BY <2>2
      <4> HIDE DEF ones
      <4> QED BY <3>0, <4>1
    <3>2. user \in [Users -> UserRecords]
      BY <2>2, <3>1
    <3>3. PICK u \in Admins : sessions = {[id |-> 1, user |-> u, pw |-> 1]}
      BY <2>2
    <3>4. u \in There
      BY DEF Admins
    <3>5. [id |-> 1, user |-> u, pw |-> 1] \in [id : 1 .. opened, user : There, pw : 1 .. MaxPw]
      BY <1>3, <2>2, <3>4
    <3>6. sessions \subseteq [id : 1 .. opened, user : There, pw : 1 .. MaxPw]
      BY <3>3, <3>5
    <3>7. \A v \in There : ~Fresh(v)
      BY <3>1 DEF There, Fresh
    <3> QED BY <1>3, <2>2, <3>2, <3>6, <3>7
  <2> QED BY <2>1, <2>2 DEF AccessInit
<1>5. \A r \in Reqs : /\ req[r].change \in Changes \cup {NoChange} /\ req[r].s \in 0 .. opened
                      /\ req[r].pw \in 0 .. MaxPw /\ Course(req[r])
  BY <1>2, <1>3, <1>4, NoReqFacts
<1>6. tokens \subseteq There /\ races \subseteq {"admins", "setups", "login"} /\ excused \in BOOLEAN
      /\ arrived \in 0 .. MaxRequests /\ hangups \in 0 .. MaxHangups
  <2>1. arrived \in 0 .. MaxRequests /\ hangups \in 0 .. MaxHangups
    BY <1>1, <1>3
  <2>2. excused \in BOOLEAN
    BY <1>1, Zenon
  <2>3. tokens \subseteq There /\ races \subseteq {"admins", "setups", "login"}
    BY <1>1
  <2> QED BY <2>1, <2>2, <2>3
<1>7. AccessTypeOK
  BY <1>4, <1>5, <1>6 DEF AccessTypeOK, UserRecords
<1> QED BY <1>2, <1>4, <1>5, <1>7 DEF AccTypes

(* The requests.                                                           *)
LEMMA CourseKept ==
  ASSUME AccTypes, NEW r \in Reqs, ReqStep(r) \/ HangUp(r)
  PROVE  /\ OnlyThis(r) /\ req[r].pc # "idle" /\ Course(req'[r]) /\ req'[r] \in ReqRecords
         /\ Over(r) \/ (Same(r) /\ req'[r].pc # "idle")
<1>1. req \in [Reqs -> ReqRecords] /\ req[r] \in ReqRecords /\ Course(req[r])
  BY DEF AccTypes
<1>2. req[r].pc # "idle"
  BY DEF ReqStep, HangUp, Open, Verify, CreateSession, SetupPending, SetupInsert, CheckCurrent, NewHash,
         DestroyOtherSessions, CreateUser, IsAdmin, AdminCount, DeleteUser, UpdateRole, UpdateDisabled,
         KillSessions, ResetPassword, KillAfterReset
<1>3. \A pc : At(r, pc) => Same(r) /\ req'[r].pc = pc
  BY DEF At
<1>4. ASSUME OnlyThis(r), Over(r) PROVE Course(req'[r]) /\ req'[r] \in ReqRecords
  BY <1>4, NoReqFacts DEF Over
<1>5. ASSUME OnlyThis(r), Same(r),
             req'[r].pc \in {"session", "admin", "newHash", "others", "count", "remove", "role", "off",
                             "kill", "password", "killAll"},
             req'[r].pc = "count" => Removing(req[r]),
             req'[r].pc = "remove" => req[r].op = "delete",
             req'[r].pc \in {"role", "off", "kill", "password", "killAll"} => req[r].op = "update",
             req'[r].pc = "role" => req[r].change.role # "keep",
             req'[r].pc = "session" => req'[r].pw # 0
      PROVE  Course(req'[r]) /\ req'[r] \in ReqRecords /\ req'[r].pc # "idle"
  <2>1. Removing(req'[r]) <=> Removing(req[r])
    BY <1>5 DEF Same, Removing
  <2>2. Course(req'[r])
    BY <1>1, <1>2, <1>5, <2>1 DEF Course, Same
  <2> QED BY <1>5, <2>2 DEF OnlyThis
<1>6. CASE IsAdmin(r) \/ AdminCount(r)
  <2>1. FirstField(req[r].change) = "role" => req[r].change.role # "keep"
    BY <1>1, FieldFacts DEF ReqRecords
  <2> QED BY <1>2, <1>3, <1>4, <1>5, <1>6, <2>1, GuardGoes
<1>7. CASE UpdateRole(r) \/ UpdateDisabled(r) \/ KillSessions(r)
  <2>1. req[r].op = "update"
    BY <1>1, <1>7 DEF Course, UpdateRole, UpdateDisabled, KillSessions
  <2>2. OnlyThis(r) /\ (Over(r) \/ At(r, "off") \/ At(r, "password") \/ At(r, "kill"))
    BY <1>2, <1>7, FieldGoes
  <2> QED BY <1>2, <1>3, <1>4, <1>5, <2>1, <2>2
<1>8. CASE Verify(r) \/ SetupInsert(r)
  <2>1. OnlyThis(r) /\ (Over(r) \/ (Same(r) /\ req'[r].pc = "session" /\ req'[r].pw # 0))
    <3>1. CASE Verify(r)
      <4>1. \A u \in There : user[u].pw # 0
        BY DEF AccTypes, Fresh
      <4> QED BY <3>1, <4>1, OpensGo
    <3>2. CASE SetupInsert(r)
      <4>1. 1 # 0
        OBVIOUS
      <4> QED BY <3>2, <4>1, OpensGo
    <3> QED BY <1>8, <3>1, <3>2
  <2> QED BY <1>2, <1>4, <1>5, <2>1
<1>9. CASE CheckCurrent(r) \/ NewHash(r) \/ SetupPending(r)
  <2>1. OnlyThis(r) /\ (Over(r) \/ At(r, "newHash") \/ At(r, "others") \/ At(r, "admin"))
    BY <1>2, <1>9, GoesOn
  <2> QED BY <1>2, <1>3, <1>4, <1>5, <2>1
<1>10. CASE ResetPassword(r)
  <2>1. OnlyThis(r) /\ At(r, "killAll") /\ req[r].op = "update"
    BY <1>1, <1>2, <1>10, GoesOn DEF ResetPassword, Course
  <2> QED BY <1>2, <1>3, <1>5, <2>1
<1>11. CASE \/ CreateSession(r) \/ DestroyOtherSessions(r) \/ DeleteUser(r) \/ KillAfterReset(r)
            \/ HangUp(r) \/ \E admin \in BOOLEAN : CreateUser(r, admin)
  <2>1. OnlyThis(r) /\ Over(r)
    BY <1>2, <1>11, GoesOn
  <2> QED BY <1>2, <1>4, <2>1
<1> QED BY <1>6, <1>7, <1>8, <1>9, <1>10, <1>11 DEF ReqStep

(* The sessions: each is of a user that is there.                          *)
LEMMA SessionsKept ==
  ASSUME AccTypes, NEW r \in Reqs, ReqStep(r)
  PROVE  /\ sessions' \subseteq [id : 1 .. opened', user : There', pw : 1 .. MaxPw]
         /\ tokens' \subseteq There'
         /\ opened' \in opened .. MaxSessions
<1> DEFINE t == req[r].target
           SessionType == [id : 1 .. opened, user : There, pw : 1 .. MaxPw]
<1>1. /\ sessions \subseteq SessionType /\ tokens \subseteq There
      /\ opened \in 0 .. MaxSessions /\ MaxSessions \in Nat /\ MaxPw \in Nat
      /\ user \in [Users -> UserRecords] /\ req[r] \in ReqRecords /\ Course(req[r])
  BY AccessAssumption DEF AccTypes, AccessTypeOK, UserRecords
<1>2. \A u \in There : u \in There' \/ (DeleteUser(r) /\ u = t)
  <2>1. req[r].pc # "idle"
    BY CourseKept
  <2> QED BY <2>1, UserWrites, UsersKept
<1>3. CASE CreateSession(r)
  <2>1. /\ user' = user /\ tokens' = tokens /\ opened' = opened + 1 /\ opened < MaxSessions
        /\ req[r].pc = "session"
        /\ \/ sessions' = sessions
           \/ t \in There /\ sessions' = sessions \cup {[id |-> opened + 1, user |-> t, pw |-> req[r].pw]}
    BY <1>3 DEF CreateSession
  <2>2. req[r].pw \in 1 .. MaxPw
    BY <1>1, <2>1 DEF Course, ReqRecords
  <2>3. There' = There
    BY <2>1 DEF There
  <2>4. opened' \in opened .. MaxSessions /\ 1 .. opened \subseteq 1 .. opened'
    BY <1>1, <2>1
  <2>5. opened + 1 \in 1 .. opened'
    BY <1>1, <2>1
  <2>6. SessionType \subseteq [id : 1 .. opened', user : There', pw : 1 .. MaxPw]
    BY <2>3, <2>4
  <2>7. t \in There => [id |-> opened + 1, user |-> t, pw |-> req[r].pw]
                          \in [id : 1 .. opened', user : There', pw : 1 .. MaxPw]
    BY <2>2, <2>3, <2>5
  <2> QED BY <1>1, <2>1, <2>3, <2>4, <2>6, <2>7
<1>4. ASSUME UNCHANGED opened, sessions' \subseteq SessionType, tokens' \subseteq tokens,
             DeleteUser(r) => (t \notin tokens' /\ \A s \in sessions' : s.user # t)
      PROVE  /\ sessions' \subseteq [id : 1 .. opened', user : There', pw : 1 .. MaxPw]
             /\ tokens' \subseteq There' /\ opened' \in opened .. MaxSessions
  <2>1. \A s \in sessions' : s.user \in There' /\ s \in SessionType
    BY <1>2, <1>4
  <2>2. tokens' \subseteq There'
    BY <1>1, <1>2, <1>4
  <2>3. \A s \in sessions' : s \in [id : 1 .. opened', user : There', pw : 1 .. MaxPw]
    BY <1>4, <2>1
  <2> QED BY <1>1, <1>4, <2>2, <2>3
<1>5. CASE DestroyOtherSessions(r)
  <2>1. ASSUME NEW s \in sessions, s.user = t PROVE [s EXCEPT !.pw = user[t].pw] \in SessionType
    <3>1. t \in There /\ user[t].pw \in 0 .. MaxPw /\ user[t].pw # 0
      BY <1>1, <2>1 DEF AccTypes, There, Fresh, UserRecords
    <3>2. user[t].pw \in 1 .. MaxPw
      BY <1>1, <3>1
    <3> QED BY <1>1, <2>1, <3>2
  <2>2. sessions' \subseteq SessionType
    BY <1>1, <1>5, <2>1 DEF DestroyOtherSessions, SessionsOf
  <2>3. UNCHANGED <<opened, tokens>> /\ ~DeleteUser(r)
    BY <1>5 DEF DestroyOtherSessions, DeleteUser
  <2> QED BY <1>4, <2>2, <2>3
<1>6. CASE DeleteUser(r)
  BY <1>1, <1>4, <1>6 DEF DeleteUser, SessionsOf
<1>7. CASE KillSessions(r) \/ KillAfterReset(r)
  <2>1. sessions' \subseteq sessions /\ UNCHANGED <<opened, tokens>> /\ ~DeleteUser(r)
    BY <1>7 DEF KillSessions, KillAfterReset, DeleteUser
  <2> QED BY <1>1, <1>4, <2>1
<1>8. CASE \/ Verify(r) \/ SetupPending(r) \/ SetupInsert(r) \/ CheckCurrent(r) \/ NewHash(r)
           \/ (\E admin \in BOOLEAN : CreateUser(r, admin)) \/ IsAdmin(r) \/ AdminCount(r)
           \/ UpdateRole(r) \/ UpdateDisabled(r) \/ ResetPassword(r)
  <2>1. UNCHANGED <<sessions, opened, tokens>> /\ ~DeleteUser(r)
    BY <1>8 DEF Verify, SetupPending, SetupInsert, CheckCurrent, NewHash, CreateUser, IsAdmin, AdminCount,
                UpdateRole, UpdateDisabled, ResetPassword, DeleteUser
  <2> QED BY <1>1, <1>4, <2>1
<1> QED BY <1>3, <1>5, <1>6, <1>7, <1>8 DEF ReqStep

(* The histories and the bounds.                                           *)
LEMMA HistoryKept ==
  ASSUME AccTypes, NEW r \in Reqs, ReqStep(r)
  PROVE  /\ UNCHANGED <<arrived, hangups>>
         /\ races \subseteq races' /\ races' \subseteq {"admins", "setups", "login"}
         /\ "admins" \in races' => "admins" \in races
         /\ excused' \in BOOLEAN /\ (excused => excused')
         /\ setups' \in Nat /\ setups' >= setups
<1>1. races \subseteq {"admins", "setups", "login"} /\ excused \in BOOLEAN /\ setups \in Nat
  BY DEF AccTypes, AccessTypeOK
<1>2. UNCHANGED <<arrived, hangups>>
  BY DEF ReqStep, History, Verify, CreateSession, SetupPending, SetupInsert, CheckCurrent, NewHash,
         DestroyOtherSessions, CreateUser, IsAdmin, AdminCount, DeleteUser, UpdateRole, UpdateDisabled,
         KillSessions, ResetPassword, KillAfterReset
<1>3. \/ races' = races
      \/ \E A : races' = races \cup A /\ A \subseteq {"setups", "login"}
  <2>1. CASE SetupPending(r)
    BY <2>1 DEF SetupPending
  <2>2. CASE DestroyOtherSessions(r) \/ KillSessions(r) \/ KillAfterReset(r)
    BY <2>2 DEF DestroyOtherSessions, KillSessions, KillAfterReset, LoginRace
  <2>3. CASE ~(SetupPending(r) \/ DestroyOtherSessions(r) \/ KillSessions(r) \/ KillAfterReset(r))
    BY <2>3 DEF ReqStep, History, Verify, CreateSession, SetupInsert, CheckCurrent, NewHash,
         CreateUser, IsAdmin, AdminCount, DeleteUser, UpdateRole, UpdateDisabled, ResetPassword
  <2> QED BY <2>1, <2>2, <2>3
<1>4. excused => excused'
  BY DEF ReqStep, Verify, CreateSession, SetupPending, SetupInsert, CheckCurrent, NewHash,
         DestroyOtherSessions, CreateUser, IsAdmin, AdminCount, DeleteUser, UpdateRole, UpdateDisabled,
         KillSessions, ResetPassword, KillAfterReset
<1>5. setups' = setups \/ setups' = setups + 1
  BY DEF ReqStep, Verify, CreateSession, SetupPending, SetupInsert, CheckCurrent, NewHash,
         DestroyOtherSessions, CreateUser, IsAdmin, AdminCount, DeleteUser, UpdateRole, UpdateDisabled,
         KillSessions, ResetPassword, KillAfterReset
<1>6. excused' \in BOOLEAN
  BY <1>1 DEF ReqStep, Verify, CreateSession, SetupPending, SetupInsert, CheckCurrent, NewHash,
         DestroyOtherSessions, CreateUser, IsAdmin, AdminCount, DeleteUser, UpdateRole, UpdateDisabled,
         KillSessions, ResetPassword, KillAfterReset
<1>7. setups' \in Nat /\ setups' >= setups
  BY <1>1, <1>5
<1> QED BY <1>1, <1>2, <1>3, <1>4, <1>6, <1>7

LEMMA AccTypesKept == AccTypes /\ [AccessNext]_accessVars => AccTypes'
<1> SUFFICES ASSUME AccTypes, [AccessNext]_accessVars PROVE AccTypes'
  OBVIOUS
<1>0. /\ req \in [Reqs -> ReqRecords] /\ opened \in 0 .. MaxSessions
      /\ MaxSessions \in Nat /\ MaxHangups \in Nat /\ MaxRequests \in Nat
      /\ \A q \in Reqs : /\ req[q].s \in 0 .. opened /\ req[q].change \in Changes \cup {NoChange}
                         /\ req[q].pw \in 0 .. MaxPw /\ Course(req[q])
  BY AccessAssumption DEF AccTypes, AccessTypeOK
<1>1. CASE UNCHANGED accessVars
  <2>1. UNCHANGED <<user, There>> /\ \A u \in Users : Fresh(u)' <=> Fresh(u)
    BY <1>1 DEF accessVars, There, Fresh
  <2> QED BY <1>1, <2>1 DEF accessVars, AccTypes, AccessTypeOK, There, Fresh
<1>2. ASSUME NEW r \in Reqs, OnlyThis(r), Course(req'[r]), req'[r].s \in 0 .. opened',
             opened' \in opened .. MaxSessions
      PROVE  /\ req' \in [Reqs -> ReqRecords] /\ opened' \in 0 .. MaxSessions
             /\ \A q \in Reqs : /\ req'[q].s \in 0 .. opened' /\ req'[q].change \in Changes \cup {NoChange}
                                /\ req'[q].pw \in 0 .. MaxPw /\ Course(req'[q])
  <2>1. req' \in [Reqs -> ReqRecords] /\ 0 .. opened \subseteq 0 .. opened' /\ opened' \in 0 .. MaxSessions
    BY <1>0, <1>2 DEF OnlyThis
  <2>2. \A q \in Reqs : req'[q] \in ReqRecords
    BY <2>1
  <2>3. \A q \in Reqs : req'[q].s \in 0 .. opened' /\ Course(req'[q])
    BY <1>0, <1>2, <2>1 DEF OnlyThis
  <2> QED BY <2>1, <2>2, <2>3 DEF ReqRecords
<1>3. ASSUME NEW r \in Reqs, NEW u \in Users, Arriving(r, u) PROVE AccTypes'
  <2>1. PICK x : Begins(x) /\ Arrive(r, x)
    BY <1>3, Arrivals
  <2>2. /\ OnlyThis(r) /\ req'[r] = x
        /\ UNCHANGED <<user, sessions, opened, tokens, setups, excused, hangups>>
        /\ races' = races \cup {"admins" : o \in {o \in Reqs : Open(o) /\ Removing(req[o]) /\ Removing(x)}}
        /\ arrived' \in 0 .. MaxRequests
    BY <2>1, Arrived
  <2>3. Course(x) /\ x.s \in 0 .. opened /\ opened' \in opened .. MaxSessions
    BY <1>0, <2>1, <2>2 DEF Begins
  <2>4. /\ req' \in [Reqs -> ReqRecords] /\ opened' \in 0 .. MaxSessions
        /\ \A q \in Reqs : /\ req'[q].s \in 0 .. opened' /\ req'[q].change \in Changes \cup {NoChange}
                           /\ req'[q].pw \in 0 .. MaxPw /\ Course(req'[q])
    BY <1>2, <2>2, <2>3
  <2>5. UNCHANGED There /\ \A v \in Users : Fresh(v)' <=> Fresh(v)
    BY <2>2 DEF There, Fresh
  <2>6. races' \subseteq {"admins", "setups", "login"}
    BY <2>2 DEF AccTypes, AccessTypeOK
  <2> QED BY <2>2, <2>4, <2>5, <2>6 DEF AccTypes, AccessTypeOK, There, Fresh
<1>4. ASSUME NEW r \in Reqs, ReqStep(r) PROVE AccTypes'
  <2>1. /\ OnlyThis(r) /\ req[r].pc # "idle" /\ Course(req'[r]) /\ req'[r] \in ReqRecords
        /\ Over(r) \/ Same(r)
    BY <1>4, CourseKept
  <2>2. /\ sessions' \subseteq [id : 1 .. opened', user : There', pw : 1 .. MaxPw]
        /\ tokens' \subseteq There' /\ opened' \in opened .. MaxSessions
    BY <1>4, SessionsKept
  <2>3. user' \in [Users -> UserRecords] /\ \A u \in There' : ~Fresh(u)'
    BY <1>4, <2>1, UserWrites, UsersKept
  <2>4. /\ UNCHANGED <<arrived, hangups>> /\ races' \subseteq {"admins", "setups", "login"}
        /\ excused' \in BOOLEAN /\ setups' \in Nat
    BY <1>4, HistoryKept
  <2>5. req'[r].s \in 0 .. opened'
    BY <1>0, <2>1, <2>2, NoReqFacts DEF Over, Same
  <2>6. /\ req' \in [Reqs -> ReqRecords] /\ opened' \in 0 .. MaxSessions
        /\ \A q \in Reqs : /\ req'[q].s \in 0 .. opened' /\ req'[q].change \in Changes \cup {NoChange}
                           /\ req'[q].pw \in 0 .. MaxPw /\ Course(req'[q])
    BY <1>2, <2>1, <2>2, <2>5
  <2>7. AccessTypeOK'
    BY <2>2, <2>3, <2>4, <2>6 DEF AccTypes, AccessTypeOK, UserRecords
  <2> QED BY <2>3, <2>4, <2>6, <2>7 DEF AccTypes
<1>5. ASSUME NEW r \in Reqs, HangUp(r) PROVE AccTypes'
  <2>1. OnlyThis(r) /\ Course(req'[r]) /\ (Over(r) \/ Same(r))
    BY <1>5, CourseKept
  <2>2. /\ UNCHANGED <<user, sessions, opened, tokens, setups, races, arrived>>
        /\ hangups' = hangups + 1 /\ hangups < MaxHangups /\ excused' = TRUE
    BY <1>5 DEF HangUp
  <2>3. req'[r].s \in 0 .. opened' /\ opened' \in opened .. MaxSessions
    BY <1>0, <2>1, <2>2, NoReqFacts DEF Over, Same
  <2>4. /\ req' \in [Reqs -> ReqRecords] /\ opened' \in 0 .. MaxSessions
        /\ \A q \in Reqs : /\ req'[q].s \in 0 .. opened' /\ req'[q].change \in Changes \cup {NoChange}
                           /\ req'[q].pw \in 0 .. MaxPw /\ Course(req'[q])
    BY <1>2, <2>1, <2>3
  <2>5. UNCHANGED There /\ \A v \in Users : Fresh(v)' <=> Fresh(v)
    BY <2>2 DEF There, Fresh
  <2>6. hangups' \in 0 .. MaxHangups
    BY <1>0, <2>2 DEF AccTypes, AccessTypeOK
  <2>7. excused' \in BOOLEAN
    BY <2>2, Zenon
  <2> QED BY <2>2, <2>4, <2>5, <2>6, <2>7 DEF AccTypes, AccessTypeOK, There, Fresh
<1>6. ASSUME NEW s, Logout(s) PROVE AccTypes'
  <2>1. /\ UNCHANGED <<user, opened, tokens, req, setups, races, excused, hangups>>
        /\ sessions' \subseteq sessions /\ arrived' = arrived + 1 /\ arrived < MaxRequests
    BY <1>6 DEF Logout, Arrives
  <2>2. arrived' \in 0 .. MaxRequests
    BY <1>0, <2>1 DEF AccTypes, AccessTypeOK
  <2>3. UNCHANGED There /\ \A v \in Users : Fresh(v)' <=> Fresh(v)
    BY <2>1 DEF There, Fresh
  <2> QED BY <2>1, <2>2, <2>3 DEF AccTypes, AccessTypeOK, There, Fresh
<1>7. ASSUME NEW u \in Users, NEW s \in 0 .. opened, SwitchToken(u, s) PROVE AccTypes'
  <2>1. /\ UNCHANGED <<user, opened, sessions, req, setups, races, excused, hangups>>
        /\ tokens' \subseteq tokens \cup {u} /\ arrived' = arrived + 1 /\ arrived < MaxRequests
        /\ u \in There
    BY <1>7 DEF SwitchToken, Arrives, Authenticated
  <2>2. arrived' \in 0 .. MaxRequests
    BY <1>0, <2>1 DEF AccTypes, AccessTypeOK
  <2>3. UNCHANGED There /\ \A v \in Users : Fresh(v)' <=> Fresh(v)
    BY <2>1 DEF There, Fresh
  <2>4. tokens' \subseteq There
    BY <2>1 DEF AccTypes, AccessTypeOK
  <2> QED BY <2>1, <2>2, <2>3, <2>4 DEF AccTypes, AccessTypeOK, There, Fresh
<1> QED BY <1>1, <1>3, <1>4, <1>5, <1>6, <1>7 DEF AccessNext, Arriving

----------------------------------------------------------------------------
(* Administrators. A request that may take one away has, after its guard,  *)
(* seen that another one is left; being the only request of its kind, it   *)
(* can rely on that.                                                       *)

Taking(r) == Open(r) /\ Removing(req[r])
Writing(x) == x.pc \in {"remove", "role", "off"}
AdminInv ==
    /\ setups = 0 => /\ There = {}
                     /\ \A r \in Reqs : req[r].pc \in {"idle", "verify", "pending", "admin"}
    /\ "admins" \notin races =>
         /\ \A r, q \in Reqs : Taking(r) /\ Taking(q) => r = q
         /\ setups > 0 => Admins # {}
         /\ setups > 0 => \A r \in Reqs : Removing(req[r]) /\ Writing(req[r])
                                             => Admins \ {req[r].target} # {}

LEMMA TwoAdmins ==
  ASSUME NEW u, Cardinality(Admins) > 1
  PROVE  Admins \ {u} # {}
<1>1. SUFFICES ASSUME Admins \subseteq {u} PROVE FALSE
  OBVIOUS
<1>2. IsFiniteSet({u}) /\ Cardinality({u}) = 1
  BY FS_Singleton
<1>3. IsFiniteSet(Admins) /\ Cardinality(Admins) <= 1
  BY <1>1, <1>2, FS_Subset
<1>4. Cardinality(Admins) \in Nat
  BY <1>3, FS_CardinalityType
<1> QED BY <1>3, <1>4

(* Only a request that may take an administrator away ever does, and only  *)
(* the one it is about.                                                    *)
LEMMA AdminsStay ==
  ASSUME AccTypes, NEW r \in Reqs, ReqStep(r), NEW u \in Admins
  PROVE  u \in Admins' \/ (u = req[r].target /\ Removing(req[r]) /\ Writing(req[r]))
<1>1. /\ user \in [Users -> UserRecords] /\ req[r] \in ReqRecords /\ Course(req[r])
      /\ req[r].pc # "idle" /\ u \in Users /\ user[u].there /\ user[u].admin /\ ~user[u].off
      /\ user[u] \in UserRecords /\ ~Fresh(u)
  BY CourseKept DEF AccTypes, AccessTypeOK, UserRecords, Admins, There
<1>2. u # req[r].target => user'[u] = user[u]
  BY <1>1, UserWrites, UsersKept
<1>3. CASE user'[u] = user[u]
  BY <1>1, <1>3 DEF Admins, There
<1>4. CASE u = req[r].target /\ user'[u] # user[u]
  <2> DEFINE ch == req[r].change
  <2>1. ch \in ChangeRecords
    BY <1>1, ChangeFacts DEF ReqRecords
  <2>2. SUFFICES ASSUME ~(Removing(req[r]) /\ Writing(req[r]))
                 PROVE  user'[u].there /\ user'[u].admin /\ ~user'[u].off
    BY <1>1, <1>4 DEF Admins, There
  <2>3. CASE NewHash(r) \/ ResetPassword(r)
    <3>1. user' = [user EXCEPT ![u] = [user[u] EXCEPT !.pw = user[u].pw + 1]]
      BY <1>1, <1>4, <2>3 DEF NewHash, ResetPassword, Updated, There
    <3>2. user'[u] = [user[u] EXCEPT !.pw = user[u].pw + 1]
      BY <1>1, <3>1
    <3> QED BY <1>1, <3>2 DEF UserRecords
  <2>4. CASE UpdateRole(r)
    <3>1. ch.role = "admin"
      BY <1>1, <2>1, <2>2, <2>4 DEF UpdateRole, Writing, Removing, Course, ChangeRecords, Roles
    <3>2. user' = [user EXCEPT ![u] = [user[u] EXCEPT !.admin = TRUE]]
      BY <1>1, <1>4, <2>4, <3>1 DEF UpdateRole, Updated, There
    <3>3. user'[u] = [user[u] EXCEPT !.admin = TRUE]
      BY <1>1, <3>2
    <3> QED BY <1>1, <3>3 DEF UserRecords
  <2>5. CASE UpdateDisabled(r)
    <3>1. ch.off # "yes"
      BY <1>1, <2>2, <2>5 DEF UpdateDisabled, Writing, Removing, Course
    <3>2. user' = [user EXCEPT ![u] = [user[u] EXCEPT !.off = FALSE]]
      BY <1>1, <1>4, <2>5, <3>1 DEF UpdateDisabled, Updated, There
    <3>3. user'[u] = [user[u] EXCEPT !.off = FALSE]
      BY <1>1, <3>2
    <3> QED BY <1>1, <3>3 DEF UserRecords
  <2>6. CASE DeleteUser(r)
    BY <1>1, <2>2, <2>6 DEF DeleteUser, Writing, Removing, Course
  <2>7. CASE SetupInsert(r) \/ \E admin \in BOOLEAN : CreateUser(r, admin)
    BY <1>1, <1>4, <2>7 DEF SetupInsert, CreateUser
  <2> QED BY <1>4, <2>3, <2>4, <2>5, <2>6, <2>7, UserWrites DEF Writes
<1> QED BY <1>2, <1>3, <1>4

(* Before there is an account, requests get no further than the setup.     *)
LEMMA EarlySteps ==
  ASSUME AccTypes, NEW r \in Reqs, ReqStep(r), There = {},
         req[r].pc \in {"idle", "verify", "pending", "admin"}
  PROVE  /\ Over(r) \/ req'[r].pc = "admin" \/ (req'[r].pc = "session" /\ setups' = setups + 1)
         /\ setups' = setups => There' = {}
         /\ setups' # setups => Admins' # {}
<1>1. /\ user \in [Users -> UserRecords] /\ req[r].pc # "idle" /\ req[r].target \in Users /\ setups \in Nat
  BY CourseKept DEF AccTypes, AccessTypeOK, UserRecords, Course
<1>2. Verify(r) \/ SetupPending(r) \/ SetupInsert(r)
  BY <1>1 DEF ReqStep, CreateSession, CheckCurrent, NewHash, DestroyOtherSessions, CreateUser, IsAdmin,
              AdminCount, DeleteUser, UpdateRole, UpdateDisabled, KillSessions, ResetPassword, KillAfterReset
<1>3. CASE Verify(r)
  <2>1. Over(r)
    BY <1>3, OpensGo
  <2> QED BY <1>3, <2>1 DEF Verify, There
<1>4. CASE SetupPending(r)
  <2>1. At(r, "admin")
    BY <1>1, <1>4, GoesOn
  <2> QED BY <1>4, <2>1 DEF SetupPending, At, There
<1>5. CASE SetupInsert(r)
  <2>1. CASE ~Fresh(req[r].target)
    <3>1. Over(r) /\ UNCHANGED <<user, setups>>
      BY <1>5, <2>1, OpensGo DEF SetupInsert
    <3> QED BY <3>1 DEF There
  <2>2. CASE Fresh(req[r].target)
    <3>1. req'[r].pc = "session" /\ setups' = setups + 1
      BY <1>5, <2>2, OpensGo DEF SetupInsert
    <3>2. user'[req[r].target] = [there |-> TRUE, admin |-> TRUE, off |-> FALSE, pw |-> 1]
      BY <1>1, <1>5, <2>2 DEF SetupInsert
    <3>3. req[r].target \in Admins'
      BY <1>1, <3>2 DEF Admins, There
    <3> QED BY <1>1, <3>1, <3>3
  <2> QED BY <2>1, <2>2
<1> QED BY <1>2, <1>3, <1>4, <1>5

(* A request comes to a write of this kind from its guard, or from the     *)
(* write before.                                                           *)
LEMMA ComesToWrite ==
  ASSUME AccTypes, NEW r \in Reqs, ReqStep(r), Removing(req[r]), Writing(req'[r])
  PROVE  /\ Same(r) /\ req'[r].target = req[r].target
         /\ \/ UNCHANGED user /\ req[r].target \notin Admins
            \/ UNCHANGED user /\ Cardinality(Admins) > 1
            \/ Writing(req[r])
<1>1. /\ req[r].pc # "idle" /\ Same(r) /\ ~Over(r)
  BY CourseKept, NoReqFacts DEF Over, Writing
<1>2. CASE IsAdmin(r)
  BY <1>1, <1>2, GuardGoes DEF IsAdmin, Admins, At, Writing, Same
<1>3. CASE AdminCount(r)
  <2>1. ~IsAdmin(r)
    BY <1>3 DEF AdminCount, IsAdmin
  <2> QED BY <1>1, <1>3, <2>1, GuardGoes DEF AdminCount, At, Writing, Same
<1>4. CASE UpdateRole(r) \/ UpdateDisabled(r)
  BY <1>1, <1>4 DEF UpdateRole, UpdateDisabled, Writing, Same
<1>5. CASE ~(IsAdmin(r) \/ AdminCount(r) \/ UpdateRole(r) \/ UpdateDisabled(r))
  <2>1. CASE Verify(r) \/ SetupInsert(r)
    BY <1>1, <2>1, OpensGo DEF Writing
  <2>2. CASE KillSessions(r)
    BY <1>1, <2>2, FieldGoes DEF At, Writing
  <2>3. CASE ~(Verify(r) \/ SetupInsert(r) \/ KillSessions(r))
    BY <1>1, <1>5, <2>3, GoesOn DEF ReqStep, At, Writing
  <2> QED BY <2>1, <2>2, <2>3
<1> QED BY <1>2, <1>3, <1>4, <1>5

LEMMA AdminInit == AccessInit => AdminInv
<1> SUFFICES ASSUME AccessInit PROVE AdminInv
  OBVIOUS
<1>1. \A r \in Reqs : req[r].pc = "idle" /\ ~Removing(req[r])
  BY NoReqFacts DEF AccessInit, Removing
<1>2. CASE user = [u \in Users |-> NoUser] /\ setups = 0
  BY <1>1, <1>2 DEF AdminInv, There, NoUser, Open, Taking
<1>3. CASE setups = 1 /\ Admins # {}
  BY <1>1, <1>3 DEF AdminInv, Open, Taking
<1> QED BY <1>2, <1>3 DEF AccessInit

(* Every statement of a request keeps it.                                  *)
LEMMA AdminKeptByStep ==
  ASSUME AccTypes, AdminInv, NEW r \in Reqs, ReqStep(r)
  PROVE  AdminInv'
<1>1. /\ OnlyThis(r) /\ req[r].pc # "idle"
      /\ Over(r) \/ (Same(r) /\ req'[r].pc # "idle")
      /\ races \subseteq races' /\ ("admins" \in races' => "admins" \in races)
      /\ setups \in Nat /\ setups' \in Nat /\ setups' >= setups
  BY CourseKept, HistoryKept DEF AccTypes
<1>2. Removing(req'[r]) => Removing(req[r]) /\ Same(r)
  BY <1>1, NoReqFacts DEF Over, Same, Removing
<1>3. NoReq.pc = "idle"
  BY NoReqFacts
<1>4. setups' = 0 => /\ There' = {}
                     /\ \A q \in Reqs : req'[q].pc \in {"idle", "verify", "pending", "admin"}
  <2>1. SUFFICES ASSUME setups' = 0
                 PROVE  /\ There' = {}
                        /\ \A q \in Reqs : req'[q].pc \in {"idle", "verify", "pending", "admin"}
    OBVIOUS
  <2>2. /\ setups = 0 /\ setups' = setups /\ There = {}
        /\ \A q \in Reqs : req[q].pc \in {"idle", "verify", "pending", "admin"}
    BY <1>1, <2>1 DEF AdminInv
  <2>3. There' = {} /\ req'[r].pc \in {"idle", "admin"}
    BY <1>3, <2>1, <2>2, EarlySteps DEF Over
  <2> QED BY <1>1, <2>2, <2>3 DEF OnlyThis
<1>5. ASSUME "admins" \notin races'
      PROVE  /\ \A p, q \in Reqs : Taking(p)' /\ Taking(q)' => p = q
             /\ setups' > 0 => Admins' # {}
             /\ setups' > 0 => \A q \in Reqs : Removing(req'[q]) /\ Writing(req'[q])
                                                  => Admins' \ {req'[q].target} # {}
  <2>1. /\ \A p, q \in Reqs : Taking(p) /\ Taking(q) => p = q
        /\ setups > 0 => Admins # {}
        /\ setups > 0 => \A q \in Reqs : Removing(req[q]) /\ Writing(req[q])
                                             => Admins \ {req[q].target} # {}
    BY <1>1, <1>5 DEF AdminInv
  <2>2. \A q \in Reqs : Taking(q)' => Taking(q)
    BY <1>1, <1>2 DEF Taking, Open, OnlyThis
  <2>3. \A p, q \in Reqs : Taking(p)' /\ Taking(q)' => p = q
    BY <2>1, <2>2
  <2>4. \A u \in Admins : u \in Admins' \/ (u = req[r].target /\ Removing(req[r]) /\ Writing(req[r]))
    BY AdminsStay
  <2>5. CASE setups = 0
    <3>1. There = {} /\ \A q \in Reqs : req[q].pc \in {"idle", "verify", "pending", "admin"}
      BY <2>5 DEF AdminInv
    <3>2. /\ Over(r) \/ req'[r].pc \in {"admin", "session"}
          /\ setups' # setups => Admins' # {}
      BY <3>1, EarlySteps
    <3>3. \A q \in Reqs : ~Writing(req'[q])
      BY <1>1, <1>3, <3>1, <3>2 DEF Writing, Over, OnlyThis
    <3> QED BY <2>3, <2>5, <3>2, <3>3
  <2>6. CASE setups > 0
    <3>1. Admins' # {}
      <4>1. CASE Removing(req[r]) /\ Writing(req[r])
        BY <2>1, <2>4, <2>6, <4>1
      <4>2. CASE ~(Removing(req[r]) /\ Writing(req[r]))
        BY <2>1, <2>4, <2>6, <4>2
      <4> QED BY <4>1, <4>2
    <3>2. ASSUME NEW q \in Reqs, Removing(req'[q]), Writing(req'[q])
          PROVE  Admins' \ {req'[q].target} # {}
      <4>1. CASE q # r
        <5>1. req'[q] = req[q] /\ Taking(q)
          BY <1>1, <3>2, <4>1 DEF OnlyThis, Taking, Open, Writing
        <5>2. ~Removing(req[r])
          BY <1>1, <2>1, <4>1, <5>1 DEF Taking, Open
        <5> QED BY <2>1, <2>4, <2>6, <3>2, <5>1, <5>2
      <4>2. CASE q = r
        <5>1. /\ req'[r].target = req[r].target /\ Removing(req[r])
              /\ \/ UNCHANGED user /\ req[r].target \notin Admins
                 \/ UNCHANGED user /\ Cardinality(Admins) > 1
                 \/ Writing(req[r])
          BY <1>2, <3>2, <4>2, ComesToWrite
        <5>2. UNCHANGED user => Admins' = Admins
          BY DEF Admins, There
        <5>3. CASE UNCHANGED user /\ req[r].target \notin Admins
          BY <2>1, <2>6, <4>2, <5>1, <5>2, <5>3
        <5>4. CASE UNCHANGED user /\ Cardinality(Admins) > 1
          BY <4>2, <5>1, <5>2, <5>4, TwoAdmins
        <5>5. CASE Writing(req[r])
          BY <2>1, <2>4, <2>6, <4>2, <5>1, <5>5
        <5> QED BY <5>1, <5>3, <5>4, <5>5
      <4> QED BY <4>1, <4>2
    <3> QED BY <2>3, <3>1, <3>2
  <2> QED BY <1>1, <2>5, <2>6
<1> QED BY <1>4, <1>5 DEF AdminInv

(* So do arrivals: a second request of the kind is a race.                 *)
LEMMA AdminKeptByArrival ==
  ASSUME AccTypes, AdminInv, NEW r \in Reqs, NEW u \in Users, Arriving(r, u)
  PROVE  AdminInv'
<1>1. PICK x : Begins(x) /\ Arrive(r, x)
  BY Arrivals
<1>2. /\ OnlyThis(r) /\ req'[r] = x /\ req[r].pc = "idle"
      /\ UNCHANGED <<user, setups>>
      /\ races' = races \cup {"admins" : o \in {o \in Reqs : Open(o) /\ Removing(req[o]) /\ Removing(x)}}
  BY <1>1, Arrived
<1>3. There' = There /\ Admins' = Admins
  BY <1>2 DEF There, Admins
<1>4. /\ x.pc \in {"verify", "pending"} \/ There # {}
      /\ Removing(x) => x.pc = "isAdmin"
  BY <1>1 DEF Begins
<1>5. \A q \in Reqs : q # r => req'[q] = req[q]
  BY <1>2 DEF OnlyThis
<1>6. setups' = 0 => /\ There' = {}
                     /\ \A q \in Reqs : req'[q].pc \in {"idle", "verify", "pending", "admin"}
  BY <1>2, <1>3, <1>4, <1>5 DEF AdminInv
<1>7. ASSUME "admins" \notin races'
      PROVE  /\ \A p, q \in Reqs : Taking(p)' /\ Taking(q)' => p = q
             /\ setups' > 0 => Admins' # {}
             /\ setups' > 0 => \A q \in Reqs : Removing(req'[q]) /\ Writing(req'[q])
                                                  => Admins' \ {req'[q].target} # {}
  <2>1. /\ \A p, q \in Reqs : Taking(p) /\ Taking(q) => p = q
        /\ setups > 0 => Admins # {}
        /\ setups > 0 => \A q \in Reqs : Removing(req[q]) /\ Writing(req[q])
                                             => Admins \ {req[q].target} # {}
    BY <1>2, <1>7 DEF AdminInv
  <2>2. Removing(x) => \A o \in Reqs : ~Taking(o)
    BY <1>2, <1>7 DEF Taking
  <2>3. \A q \in Reqs : q # r => (Taking(q)' <=> Taking(q))
    BY <1>5 DEF Taking, Open
  <2>5. Taking(r)' => Removing(x)
    BY <1>2 DEF Taking
  <2>4. \A p, q \in Reqs : Taking(p)' /\ Taking(q)' => p = q
    BY <2>1, <2>2, <2>3, <2>5
  <2> QED BY <1>2, <1>3, <1>4, <1>5, <2>1, <2>4 DEF Writing
<1> QED BY <1>6, <1>7 DEF AdminInv

LEMMA AdminKept == AccTypes /\ AdminInv /\ [AccessNext]_accessVars => AdminInv'
<1> SUFFICES ASSUME AccTypes, AdminInv, [AccessNext]_accessVars PROVE AdminInv'
  OBVIOUS
<1>1. ASSUME UNCHANGED <<user, setups, races>>, NEW r \in Reqs, OnlyThis(r), Over(r) PROVE AdminInv'
  <2>1. There' = There /\ Admins' = Admins
    BY <1>1 DEF There, Admins
  <2>2. req'[r].pc = "idle" /\ \A q \in Reqs : q # r => req'[q] = req[q]
    BY <1>1, NoReqFacts DEF Over, OnlyThis
  <2> QED BY <1>1, <2>1, <2>2 DEF AdminInv, Taking, Open, Writing
<1>2. ASSUME UNCHANGED <<user, setups, races, req>> PROVE AdminInv'
  BY <1>2 DEF AdminInv, Taking, Open, Admins, There, Writing
<1>3. ASSUME NEW r \in Reqs, HangUp(r) PROVE AdminInv'
  BY <1>1, <1>3, GoesOn DEF HangUp, Open
<1>4. ASSUME NEW s, Logout(s) PROVE AdminInv'
  BY <1>2, <1>4 DEF Logout
<1>5. ASSUME NEW u \in Users, NEW s \in 0 .. opened, SwitchToken(u, s) PROVE AdminInv'
  BY <1>2, <1>5 DEF SwitchToken
<1>6. CASE UNCHANGED accessVars
  BY <1>2, <1>6 DEF accessVars
<1> QED BY <1>3, <1>4, <1>5, <1>6, AdminKeptByStep, AdminKeptByArrival DEF AccessNext, Arriving

----------------------------------------------------------------------------
(* The setup. A request that has found no account is the only one that     *)
(* has, until its account is there.                                        *)

Quiet == "admins" \notin races /\ "setups" \notin races
SetupInv ==
    Quiet => /\ setups <= 1
             /\ \A r \in Reqs : req[r].pc = "admin" => setups = 0
             /\ \A r, q \in Reqs : req[r].pc = "admin" /\ req[q].pc = "admin" => r = q

LEMMA SetupKeptByStep ==
  ASSUME AccTypes, AdminInv, SetupInv, NEW r \in Reqs, ReqStep(r)
  PROVE  SetupInv'
<1>1. /\ OnlyThis(r) /\ req[r].pc # "idle" /\ races \subseteq races' /\ setups \in Nat
      /\ \A q \in Reqs : q # r => req'[q] = req[q]
  BY CourseKept, HistoryKept DEF AccTypes, OnlyThis
<1>2. SUFFICES ASSUME Quiet'
               PROVE  /\ setups' <= 1
                      /\ \A q \in Reqs : req'[q].pc = "admin" => setups' = 0
                      /\ \A p, q \in Reqs : req'[p].pc = "admin" /\ req'[q].pc = "admin" => p = q
  BY DEF SetupInv
<1>3. /\ "admins" \notin races /\ setups <= 1
      /\ \A q \in Reqs : req[q].pc = "admin" => setups = 0
      /\ \A p, q \in Reqs : req[p].pc = "admin" /\ req[q].pc = "admin" => p = q
  BY <1>1, <1>2 DEF SetupInv, Quiet
<1>4. CASE SetupPending(r)
  <2>1. CASE There = {}
    <3>1. Admins = {}
      BY <2>1 DEF Admins
    <3>2. setups = 0
      BY <1>1, <1>3, <3>1 DEF AdminInv
    <3>3. \A q \in Reqs : req[q].pc # "admin"
      BY <1>2, <1>4, <2>1 DEF SetupPending, Quiet
    <3>4. setups' = setups
      BY <1>4 DEF SetupPending
    <3> QED BY <1>1, <3>2, <3>3, <3>4
  <2>2. CASE There # {}
    <3>1. req'[r].pc = "idle" /\ setups' = setups
      BY <1>1, <1>4, <2>2, GoesOn, NoReqFacts DEF SetupPending, Over
    <3> QED BY <1>1, <1>3, <3>1
  <2> QED BY <2>1, <2>2
<1>5. CASE SetupInsert(r)
  <2>1. req[r].pc = "admin" /\ setups = 0
    BY <1>3, <1>5 DEF SetupInsert
  <2>2. req'[r].pc \in {"idle", "session"} /\ setups' \in {0, 1}
    BY <1>5, <2>1, OpensGo, NoReqFacts DEF SetupInsert, Over
  <2>3. \A q \in Reqs : req'[q].pc # "admin"
    BY <1>1, <1>3, <2>1, <2>2
  <2> QED BY <2>2, <2>3
<1>6. CASE ~SetupPending(r) /\ ~SetupInsert(r)
  <2>1. setups' = setups
    BY <1>6 DEF ReqStep, Verify, CreateSession, CheckCurrent, NewHash, DestroyOtherSessions, CreateUser,
         IsAdmin, AdminCount, DeleteUser, UpdateRole, UpdateDisabled, KillSessions, ResetPassword,
         KillAfterReset
  <2>2. req'[r].pc # "admin"
    <3>1. CASE Verify(r)
      BY <3>1, OpensGo, NoReqFacts DEF Over
    <3>2. CASE IsAdmin(r) \/ AdminCount(r)
      BY <3>2, GuardGoes, NoReqFacts DEF Over, At
    <3>3. CASE UpdateRole(r) \/ UpdateDisabled(r) \/ KillSessions(r)
      BY <1>1, <3>3, FieldGoes, NoReqFacts DEF Over, At
    <3>4. CASE ~(\/ Verify(r) \/ IsAdmin(r) \/ AdminCount(r) \/ UpdateRole(r) \/ UpdateDisabled(r)
                 \/ KillSessions(r))
      BY <1>1, <1>6, <3>4, GoesOn, NoReqFacts DEF ReqStep, Over, At
    <3> QED BY <3>1, <3>2, <3>3, <3>4
  <2> QED BY <1>1, <1>3, <2>1, <2>2
<1> QED BY <1>4, <1>5, <1>6

LEMMA SetupKept == AccTypes /\ AdminInv /\ SetupInv /\ [AccessNext]_accessVars => SetupInv'
<1> SUFFICES ASSUME AccTypes, AdminInv, SetupInv, [AccessNext]_accessVars PROVE SetupInv'
  OBVIOUS
<1>1. ASSUME UNCHANGED setups, races \subseteq races', NEW r \in Reqs, OnlyThis(r), req'[r].pc # "admin"
      PROVE  SetupInv'
  <2>1. \A q \in Reqs : q # r => req'[q] = req[q]
    BY <1>1 DEF OnlyThis
  <2>2. Quiet' => Quiet
    BY <1>1 DEF Quiet
  <2> QED BY <1>1, <2>1, <2>2 DEF SetupInv
<1>2. ASSUME UNCHANGED <<setups, races, req>> PROVE SetupInv'
  BY <1>2 DEF SetupInv, Quiet
<1>3. ASSUME NEW r \in Reqs, HangUp(r) PROVE SetupInv'
  BY <1>1, <1>3, GoesOn, NoReqFacts DEF HangUp, Open, Over
<1>4. ASSUME NEW r \in Reqs, NEW u \in Users, Arriving(r, u) PROVE SetupInv'
  <2>1. PICK x : Begins(x) /\ Arrive(r, x)
    BY <1>4, Arrivals
  <2> QED BY <1>1, <2>1, Arrived DEF Begins
<1>5. ASSUME NEW s, Logout(s) PROVE SetupInv'
  BY <1>2, <1>5 DEF Logout
<1>6. ASSUME NEW u \in Users, NEW s \in 0 .. opened, SwitchToken(u, s) PROVE SetupInv'
  BY <1>2, <1>6 DEF SwitchToken
<1>7. CASE UNCHANGED accessVars
  BY <1>2, <1>7 DEF accessVars
<1> QED BY <1>3, <1>4, <1>5, <1>6, <1>7, SetupKeptByStep DEF AccessNext, Arriving

----------------------------------------------------------------------------
(* Sessions. A user is paid up when all of his sessions, and the logins    *)
(* that are about to open one, are of his present password and he is not   *)
(* disabled, or else a request under way still has to delete them. One     *)
(* that deletes while such a login is under way is a race.                 *)

Owed(u, pcs) == \E q \in Reqs : req[q].pc \in pcs /\ req[q].target = u
Resetting(u) == Owed(u, {"others", "killAll"})
Disabling(u) == Owed(u, {"kill"})
LoginsOf(u) == {r \in Reqs : req[r].pc = "session" /\ req[r].target = u}
PaidUp(u) ==
    /\ \/ Resetting(u)
       \/ /\ \A s \in SessionsOf(u) : s.pw = user[u].pw
          /\ \A r \in LoginsOf(u) : req[r].pw = user[u].pw
    /\ \/ Disabling(u) \/ ~user[u].off
       \/ SessionsOf(u) = {} /\ LoginsOf(u) = {}
SessionInv ==
    /\ \A r \in Reqs : req[r].pc = "session" => ~Fresh(req[r].target)
    /\ ~excused /\ "login" \notin races => \A u \in There : PaidUp(u)

LEMMA StaysPaidUp ==
  ASSUME NEW u, PaidUp(u), user'[u].pw = user[u].pw, user'[u].off => user[u].off,
         SessionsOf(u)' \subseteq SessionsOf(u), LoginsOf(u)' \subseteq LoginsOf(u),
         \A q \in LoginsOf(u)' : req'[q].pw = req[q].pw,
         Resetting(u) => Resetting(u)', Disabling(u) => Disabling(u)'
  PROVE  PaidUp(u)'
BY DEF PaidUp

LEMMA StillOwed ==
  ASSUME NEW r \in Reqs, OnlyThis(r), NEW u, NEW pcs, Owed(u, pcs)
  PROVE  Owed(u, pcs)' \/ (req[r].pc \in pcs /\ req[r].target = u)
BY DEF Owed, OnlyThis

(* A login is about to open a session only after it has verified, or after *)
(* it has made the account.                                                *)
LEMMA ComesToSession ==
  ASSUME AccTypes, NEW r \in Reqs, ReqStep(r) \/ HangUp(r), req'[r].pc = "session"
  PROVE  \/ /\ Verify(r) /\ req[r].target \in There /\ ~user[req[r].target].off
            /\ Same(r) /\ req'[r].pw = user[req[r].target].pw
         \/ /\ SetupInsert(r) /\ Fresh(req[r].target) /\ Same(r) /\ req'[r].pw = 1
<1>1. /\ req[r].pc # "idle" /\ NoReq.pc = "idle"
  BY CourseKept, NoReqFacts
<1>2. CASE Verify(r) \/ SetupInsert(r)
  BY <1>1, <1>2, OpensGo DEF Over
<1>3. CASE IsAdmin(r) \/ AdminCount(r)
  BY <1>1, <1>3, GuardGoes DEF Over, At
<1>4. CASE UpdateRole(r) \/ UpdateDisabled(r) \/ KillSessions(r)
  BY <1>1, <1>4, FieldGoes DEF Over, At
<1>5. CASE ~(\/ Verify(r) \/ SetupInsert(r) \/ IsAdmin(r) \/ AdminCount(r) \/ UpdateRole(r)
             \/ UpdateDisabled(r) \/ KillSessions(r))
  BY <1>1, <1>5, GoesOn DEF ReqStep, Over, At
<1> QED BY <1>2, <1>3, <1>4, <1>5

(* Logins of another user, and logins whose request did not become one.    *)
LEMMA SameLogins ==
  ASSUME NEW r \in Reqs, OnlyThis(r), NEW u,
         req'[r].pc # "session" \/ (Same(r) /\ req[r].target # u)
  PROVE  LoginsOf(u)' \subseteq LoginsOf(u) /\ \A q \in LoginsOf(u)' : req'[q].pw = req[q].pw
BY DEF LoginsOf, OnlyThis, Same

LEMMA OthersSessions ==
  ASSUME AccTypes, NEW r \in Reqs, ReqStep(r), NEW u, u # req[r].target
  PROVE  SessionsOf(u)' \subseteq SessionsOf(u)
<1>1. CASE CreateSession(r)
  BY <1>1 DEF CreateSession, SessionsOf
<1>2. CASE DestroyOtherSessions(r)
  <2>1. ASSUME NEW s \in sessions', s.user = u PROVE s \in sessions
    <3>1. \A x \in SessionsOf(req[r].target) :
             [x EXCEPT !.pw = user[req[r].target].pw].user = req[r].target
      BY DEF SessionsOf, AccTypes, AccessTypeOK
    <3> QED BY <1>2, <2>1, <3>1 DEF DestroyOtherSessions
  <2> QED BY <2>1 DEF SessionsOf
<1>3. CASE ~CreateSession(r) /\ ~DestroyOtherSessions(r)
  <2>1. sessions' \subseteq sessions
    BY <1>3 DEF ReqStep, Verify, SetupPending, SetupInsert, CheckCurrent, NewHash, CreateUser,
         IsAdmin, AdminCount, DeleteUser, UpdateRole, UpdateDisabled, KillSessions, ResetPassword,
         KillAfterReset
  <2> QED BY <2>1 DEF SessionsOf
<1> QED BY <1>1, <1>2, <1>3

(* The statements that delete pay what they owe; what they leave is of the *)
(* present password.                                                       *)
LEMMA PaidByDeleting ==
  ASSUME AccTypes, NEW r \in Reqs, NEW u \in There, u = req[r].target, PaidUp(u),
         DestroyOtherSessions(r) \/ KillSessions(r) \/ KillAfterReset(r), "login" \notin races'
  PROVE  PaidUp(u)'
<1>1. /\ OnlyThis(r) /\ user' = user /\ req[r].pc # "idle" /\ user'[u] = user[u]
  BY CourseKept DEF ReqStep, DestroyOtherSessions, KillSessions, KillAfterReset
<1>2. LoginsOf(u) = {}
  <2>1. races' = races \cup LoginRace(u)
    BY DEF DestroyOtherSessions, KillSessions, KillAfterReset
  <2>2. LoginRace(u) = {}
    BY <2>1 DEF LoginRace
  <2> QED BY <2>2 DEF LoginRace, LoginsOf
<1>3. req'[r].pc # "session"
  BY ComesToSession DEF ReqStep, DestroyOtherSessions, KillSessions, KillAfterReset, Verify, SetupInsert
<1>4. LoginsOf(u)' = {}
  BY <1>1, <1>2, <1>3, SameLogins
<1>5. CASE DestroyOtherSessions(r)
  <2> DEFINE mine == SessionsOf(u)
  <2>1. sessions' = (sessions \ mine) \cup {[s EXCEPT !.pw = user[u].pw] : s \in {x \in mine : x.id = req[r].s}}
    BY <1>5 DEF DestroyOtherSessions
  <2>2. \A s \in mine : [s EXCEPT !.pw = user[u].pw].pw = user[u].pw
    BY DEF SessionsOf, AccTypes, AccessTypeOK
  <2>3. \A s \in SessionsOf(u)' : s.pw = user[u].pw
    BY <2>1, <2>2 DEF SessionsOf
  <2>4. SessionsOf(u) = {} => SessionsOf(u)' = {}
    BY <2>1 DEF SessionsOf
  <2>5. Disabling(u) => Disabling(u)'
    <3>1. req[r].pc # "kill"
      BY <1>5 DEF DestroyOtherSessions
    <3> QED BY <1>1, <3>1, StillOwed DEF Disabling
  <2> QED BY <1>1, <1>4, <2>3, <2>4, <2>5 DEF PaidUp
<1>6. CASE KillSessions(r) \/ KillAfterReset(r)
  <2>1. SessionsOf(u)' = {}
    BY <1>6 DEF KillSessions, KillAfterReset, SessionsOf
  <2> QED BY <1>4, <2>1 DEF PaidUp
<1> QED BY <1>5, <1>6

(* A change of the password or of the account owes what it outdates.       *)
LEMMA PaidByChanging ==
  ASSUME AccTypes, NEW r \in Reqs, NEW u \in There, u = req[r].target, PaidUp(u),
         NewHash(r) \/ ResetPassword(r) \/ UpdateRole(r) \/ UpdateDisabled(r), ~excused'
  PROVE  PaidUp(u)'
<1>1. /\ OnlyThis(r) /\ req[r].pc \in {"newHash", "password", "role", "off"}
      /\ sessions' = sessions /\ SessionsOf(u)' = SessionsOf(u)
      /\ user \in [Users -> UserRecords] /\ u \in Users /\ user[u] \in UserRecords
  BY CourseKept DEF ReqStep, NewHash, ResetPassword, UpdateRole, UpdateDisabled, AccTypes, AccessTypeOK,
                    UserRecords, There, SessionsOf
<1>2. req'[r].pc # "session"
  BY ComesToSession DEF ReqStep, NewHash, ResetPassword, UpdateRole, UpdateDisabled, Verify, SetupInsert
<1>3. LoginsOf(u)' \subseteq LoginsOf(u) /\ \A q \in LoginsOf(u)' : req'[q].pw = req[q].pw
  BY <1>1, <1>2, SameLogins
<1>4. (Resetting(u) => Resetting(u)') /\ (Disabling(u) => Disabling(u)')
  BY <1>1, StillOwed DEF Resetting, Disabling
<1>5. CASE NewHash(r) \/ ResetPassword(r)
  <2>1. At(r, "others") \/ At(r, "killAll")
    <3>1. NewHash(r) => req[r].s # 0
      BY DEF NewHash
    <3> QED BY <1>1, <1>5, <3>1, GoesOn
  <2>2. Resetting(u)'
    BY <2>1 DEF At, Same, Resetting, Owed
  <2>3. user' = [user EXCEPT ![u] = [user[u] EXCEPT !.pw = user[u].pw + 1]]
    BY <1>5 DEF NewHash, ResetPassword, Updated
  <2>4. user'[u] = [user[u] EXCEPT !.pw = user[u].pw + 1]
    BY <1>1, <2>3
  <2>5. user'[u].off = user[u].off
    BY <1>1, <2>4 DEF UserRecords
  <2> QED BY <1>1, <1>3, <1>4, <2>2, <2>5 DEF PaidUp
<1>6. CASE UpdateRole(r)
  <2> DEFINE isAdmin == (req[r].change.role = "admin")
  <2>1. user' = [user EXCEPT ![u] = [user[u] EXCEPT !.admin = isAdmin]]
    BY <1>6 DEF UpdateRole, Updated
  <2> HIDE DEF isAdmin
  <2>2. user'[u] = [user[u] EXCEPT !.admin = isAdmin]
    BY <1>1, <2>1
  <2>3. user'[u].pw = user[u].pw /\ user'[u].off = user[u].off
    BY <1>1, <2>2 DEF UserRecords
  <2> QED BY <1>1, <1>3, <1>4, <2>3, StaysPaidUp
<1>7. CASE UpdateDisabled(r)
  <2> DEFINE isOff == (req[r].change.off = "yes")
  <2>1. user' = [user EXCEPT ![u] = [user[u] EXCEPT !.off = isOff]]
    BY <1>7 DEF UpdateDisabled, Updated
  <2>2. isOff => Disabling(u)'
    <3>1. isOff => At(r, "kill")
      BY <1>1, <1>7, FieldGoes
    <3> QED BY <3>1 DEF At, Same, Disabling, Owed
  <2> HIDE DEF isOff
  <2>3. user'[u] = [user[u] EXCEPT !.off = isOff]
    BY <1>1, <2>1
  <2>4. user'[u].pw = user[u].pw /\ (user'[u].off <=> isOff)
    BY <1>1, <2>3 DEF UserRecords
  <2> QED BY <1>1, <1>3, <1>4, <2>2, <2>4 DEF PaidUp
<1> QED BY <1>5, <1>6, <1>7

(* A login verifies, and then opens its session.                           *)
LEMMA PaidByLogin ==
  ASSUME AccTypes, NEW r \in Reqs, NEW u \in There, u = req[r].target, PaidUp(u),
         Verify(r) \/ CreateSession(r)
  PROVE  PaidUp(u)'
<1>1. /\ OnlyThis(r) /\ req[r].pc \in {"verify", "session"} /\ user' = user /\ user'[u] = user[u]
  BY CourseKept DEF ReqStep, Verify, CreateSession
<1>2. (Resetting(u) => Resetting(u)') /\ (Disabling(u) => Disabling(u)')
  BY <1>1, StillOwed DEF Resetting, Disabling
<1>3. CASE Verify(r)
  <2>1. sessions' = sessions /\ SessionsOf(u)' = SessionsOf(u)
    BY <1>3 DEF Verify, SessionsOf
  <2>2. CASE req'[r].pc = "session"
    <3>1. ~user[u].off /\ req'[r].pw = user[u].pw
      BY <1>3, <2>2, ComesToSession DEF ReqStep, Verify, SetupInsert
    <3>2. \A q \in LoginsOf(u)' : q = r \/ (q \in LoginsOf(u) /\ req'[q] = req[q])
      BY <1>1 DEF LoginsOf, OnlyThis
    <3> QED BY <1>1, <1>2, <2>1, <3>1, <3>2 DEF PaidUp
  <2>3. CASE req'[r].pc # "session"
    BY <1>1, <1>2, <2>1, <2>3, SameLogins, StaysPaidUp
  <2> QED BY <2>2, <2>3
<1>4. CASE CreateSession(r)
  <2> DEFINE new == [id |-> opened + 1, user |-> u, pw |-> req[r].pw]
  <2>1. /\ sessions' = sessions \cup {new} /\ new.pw = req[r].pw /\ req[r].pc = "session"
    BY <1>4 DEF CreateSession
  <2>2. r \in LoginsOf(u)
    BY <2>1 DEF LoginsOf
  <2>3. LoginsOf(u)' \subseteq LoginsOf(u) /\ \A q \in LoginsOf(u)' : req'[q].pw = req[q].pw
    <3>1. req'[r].pc # "session"
      BY <1>4, ComesToSession DEF ReqStep, CreateSession, Verify, SetupInsert
    <3> QED BY <1>1, <3>1, SameLogins
  <2> HIDE DEF new
  <2>4. \A s \in SessionsOf(u)' : s \in SessionsOf(u) \/ s = new
    BY <2>1 DEF SessionsOf
  <2> QED BY <1>1, <1>2, <2>1, <2>2, <2>3, <2>4 DEF PaidUp
<1> QED BY <1>3, <1>4

(* A new account has the sessions and logins of its setup, if any.         *)
LEMMA PaidByCreating ==
  ASSUME AccTypes, SessionInv, NEW r \in Reqs, NEW u, u = req[r].target, Fresh(u),
         SetupInsert(r) \/ (\E admin \in BOOLEAN : CreateUser(r, admin))
  PROVE  PaidUp(u)'
<1>1. /\ OnlyThis(r) /\ req[r].pc \in {"admin", "insert"} /\ u \in Users
      /\ user \in [Users -> UserRecords] /\ sessions' = sessions
  BY CourseKept DEF ReqStep, SetupInsert, CreateUser, AccTypes, AccessTypeOK, UserRecords, Course
<1>2. user'[u].pw = 1 /\ ~user'[u].off
  <2>1. PICK admin \in BOOLEAN : user' = [user EXCEPT ![u] = NewRow(admin)]
    BY DEF SetupInsert, CreateUser, NewRow
  <2>2. user'[u] = NewRow(admin)
    BY <1>1, <2>1
  <2> QED BY <2>2 DEF NewRow
<1>3. SessionsOf(u)' = {}
  BY <1>1 DEF SessionsOf, AccTypes, AccessTypeOK
<1>4. LoginsOf(u) = {}
  BY DEF SessionInv, LoginsOf
<1>5. req'[r].pc = "session" => req'[r].pw = 1
  BY ComesToSession DEF ReqStep, SetupInsert, CreateUser, Verify
<1>6. \A q \in LoginsOf(u)' : q = r /\ req'[r].pc = "session"
  BY <1>1, <1>4 DEF LoginsOf, OnlyThis
<1> QED BY <1>2, <1>3, <1>5, <1>6 DEF PaidUp

LEMMA SessionKeptByStep ==
  ASSUME AccTypes, SessionInv, NEW r \in Reqs, ReqStep(r)
  PROVE  SessionInv'
<1> DEFINE t == req[r].target
<1>1. /\ OnlyThis(r) /\ req[r].pc # "idle" /\ races \subseteq races' /\ (excused => excused')
      /\ Over(r) \/ Same(r)
      /\ \A q \in Reqs : q # r => req'[q] = req[q]
  BY CourseKept, HistoryKept DEF OnlyThis
<1>2. /\ \A u \in Users : ~Fresh(u) => ~Fresh(u)'
      /\ \A u \in Users : u # t => user'[u] = user[u]
      /\ \A u \in There : u \in There' \/ (DeleteUser(r) /\ u = t)
      /\ \A u \in There' : u \in There \/ (Fresh(u) /\ user'[u].pw = 1 /\ ~user'[u].off)
  BY <1>1, UserWrites, UsersKept
<1>3. \A q \in Reqs : req[q].pc = "session" => req[q].target \in Users
  BY DEF AccTypes, Course
<1>4. ASSUME NEW q \in Reqs, req'[q].pc = "session" PROVE ~(user'[req'[q].target].pw = 0)
  <2>1. CASE q # r
    BY <1>1, <1>2, <1>3, <1>4, <2>1 DEF SessionInv, Fresh
  <2>2. CASE q = r /\ Verify(r)
    <3>1. t \in There /\ Same(r)
      BY <1>4, <2>2, ComesToSession DEF SetupInsert, Verify
    <3>2. ~Fresh(t) /\ t \in Users
      BY <3>1 DEF AccTypes, There
    <3> QED BY <1>2, <2>2, <3>1, <3>2 DEF Fresh, Same
  <2>3. CASE q = r /\ SetupInsert(r)
    <3>1. Fresh(t) /\ Same(r) /\ t \in Users
      BY <1>1, <1>4, <2>3, ComesToSession DEF SetupInsert, Verify, AccTypes, Course
    <3>2. user' = [user EXCEPT ![t] = NewRow(TRUE)] /\ user \in [Users -> UserRecords]
      BY <2>3, <3>1 DEF SetupInsert, NewRow, AccTypes, AccessTypeOK, UserRecords
    <3>3. user'[t].pw = 1
      BY <3>1, <3>2 DEF NewRow
    <3> QED BY <2>3, <3>1, <3>3 DEF Same
  <2> QED BY <1>4, <2>1, <2>2, <2>3, ComesToSession
<1>5. ASSUME ~excused', "login" \notin races', NEW u \in There' PROVE PaidUp(u)'
  <2>1. \A v \in There : PaidUp(v)
    BY <1>1, <1>5 DEF SessionInv
  <2>2. u \in Users
    BY DEF There
  <2>3. CASE u # t
    <3>1. user'[u] = user[u] /\ u \in There /\ PaidUp(u)
      BY <1>2, <2>1, <2>2, <2>3 DEF There
    <3>2. SessionsOf(u)' \subseteq SessionsOf(u)
      BY <2>3, OthersSessions
    <3>3. LoginsOf(u)' \subseteq LoginsOf(u) /\ \A q \in LoginsOf(u)' : req'[q].pw = req[q].pw
      BY <1>1, <2>3, NoReqFacts, SameLogins DEF Over
    <3>4. (Resetting(u) => Resetting(u)') /\ (Disabling(u) => Disabling(u)')
      BY <1>1, <2>3, StillOwed DEF Resetting, Disabling
    <3> QED BY <3>1, <3>2, <3>3, <3>4, StaysPaidUp
  <2>4. CASE u = t /\ u \in There
    <3>1. PaidUp(u)
      BY <2>1, <2>4
    <3>2. CASE DestroyOtherSessions(r) \/ KillSessions(r) \/ KillAfterReset(r)
      BY <1>5, <2>4, <3>1, <3>2, PaidByDeleting
    <3>3. CASE NewHash(r) \/ ResetPassword(r) \/ UpdateRole(r) \/ UpdateDisabled(r)
      BY <1>5, <2>4, <3>1, <3>3, PaidByChanging
    <3>4. CASE Verify(r) \/ CreateSession(r)
      BY <2>4, <3>1, <3>4, PaidByLogin
    <3>5. CASE DeleteUser(r)
      <4>1. user' = [user EXCEPT ![u] = [NoUser EXCEPT !.pw = user[u].pw]] /\ user \in [Users -> UserRecords]
        BY <2>4, <3>5 DEF DeleteUser, AccTypes, AccessTypeOK, UserRecords
      <4>2. ~user'[u].there
        BY <2>2, <4>1 DEF NoUser
      <4> QED BY <1>5, <4>2 DEF There
    <3>6. CASE \/ SetupPending(r) \/ CheckCurrent(r) \/ IsAdmin(r) \/ AdminCount(r)
               \/ SetupInsert(r) \/ \E admin \in BOOLEAN : CreateUser(r, admin)
      <4>0. ~Fresh(u)
        BY <2>4 DEF AccTypes
      <4>1. user'[u] = user[u] /\ SessionsOf(u)' = SessionsOf(u)
        BY <2>4, <3>6, <4>0 DEF SetupPending, CheckCurrent, IsAdmin, AdminCount, SetupInsert, CreateUser,
                                SessionsOf
      <4>2. req[r].pc \in {"pending", "current", "isAdmin", "count", "admin", "insert"}
        BY <3>6 DEF SetupPending, CheckCurrent, IsAdmin, AdminCount, SetupInsert, CreateUser
      <4>3. (Resetting(u) => Resetting(u)') /\ (Disabling(u) => Disabling(u)')
        BY <1>1, <4>2, StillOwed DEF Resetting, Disabling
      <4>4. req'[r].pc # "session"
        BY <2>4, <3>6, <4>0, ComesToSession DEF SetupPending, CheckCurrent, IsAdmin, AdminCount,
                                                SetupInsert, CreateUser, Verify
      <4> QED BY <1>1, <3>1, <4>1, <4>3, <4>4, SameLogins, StaysPaidUp
    <3> QED BY <3>2, <3>3, <3>4, <3>5, <3>6 DEF ReqStep
  <2>5. CASE u = t /\ u \notin There
    <3>1. Fresh(u) /\ u \in There'
      BY <1>2, <1>5, <2>5
    <3>2. user' # user
      BY <1>5, <2>5 DEF There
    <3>3. SetupInsert(r) \/ \E admin \in BOOLEAN : CreateUser(r, admin)
      <4>1. ~DeleteUser(r)
        <5>1. DeleteUser(r) => user' = [user EXCEPT ![u] = [NoUser EXCEPT !.pw = user[u].pw]]
          BY <2>5 DEF DeleteUser
        <5>2. user \in [Users -> UserRecords]
          BY DEF AccTypes, AccessTypeOK, UserRecords
        <5> QED BY <1>5, <2>2, <5>1, <5>2 DEF NoUser, There
      <4> QED BY <2>5, <3>2, <4>1, UserWrites DEF Writes
    <3> QED BY <2>5, <3>1, <3>3, PaidByCreating
  <2> QED BY <2>3, <2>4, <2>5
<1> QED BY <1>4, <1>5 DEF SessionInv, Fresh

LEMMA SessionKept == AccTypes /\ SessionInv /\ [AccessNext]_accessVars => SessionInv'
<1> SUFFICES ASSUME AccTypes, SessionInv, [AccessNext]_accessVars PROVE SessionInv'
  OBVIOUS
<1>1. ASSUME user' = user, sessions' \subseteq sessions, races \subseteq races', excused' = excused,
             NEW r \in Reqs, OnlyThis(r), req[r].pc = "idle", req'[r].pc # "session"
      PROVE  SessionInv'
  <2>1. There' = There /\ \A u \in Users : Fresh(u)' <=> Fresh(u)
    BY <1>1 DEF There, Fresh
  <2>2. \A q \in Reqs : req'[q].pc = "session" => req'[q] = req[q] /\ req[q].target \in Users
    BY <1>1 DEF OnlyThis, AccTypes, Course
  <2>3. \A q \in Reqs : req'[q].pc = "session" => user[req'[q].target].pw # 0
    BY <2>2 DEF SessionInv, Fresh
  <2>4. ASSUME ~excused', "login" \notin races', NEW u \in There PROVE PaidUp(u)'
    <3>1. PaidUp(u)
      BY <1>1, <2>4 DEF SessionInv
    <3>2. SessionsOf(u)' \subseteq SessionsOf(u)
      BY <1>1 DEF SessionsOf
    <3>3. (Resetting(u) => Resetting(u)') /\ (Disabling(u) => Disabling(u)')
      BY <1>1, StillOwed DEF Resetting, Disabling
    <3>4. LoginsOf(u)' \subseteq LoginsOf(u) /\ \A q \in LoginsOf(u)' : req'[q].pw = req[q].pw
      BY <1>1, SameLogins
    <3>5. user'[u].pw = user[u].pw /\ (user'[u].off => user[u].off)
      BY <1>1
    <3> QED BY <3>1, <3>2, <3>3, <3>4, <3>5, StaysPaidUp
  <2> QED BY <1>1, <2>1, <2>3, <2>4 DEF SessionInv, Fresh
<1>2. ASSUME user' = user, sessions' \subseteq sessions, UNCHANGED <<races, excused, req>>
      PROVE  SessionInv'
  <2>1. There' = There /\ \A u : SessionsOf(u)' \subseteq SessionsOf(u)
    BY <1>2 DEF There, SessionsOf
  <2>2. ASSUME NEW u, PaidUp(u) PROVE PaidUp(u)'
    BY <1>2, <2>1, <2>2 DEF PaidUp, Resetting, Disabling, Owed, LoginsOf
  <2> QED BY <1>2, <2>1, <2>2 DEF SessionInv, Fresh
<1>3. ASSUME NEW r \in Reqs, HangUp(r) PROVE SessionInv'
  <2>1. /\ OnlyThis(r) /\ Over(r) /\ user' = user /\ excused' = TRUE
    BY <1>3, GoesOn DEF HangUp, Open
  <2>2. \A q \in Reqs : req'[q].pc = "session" => user'[req'[q].target].pw # 0
    BY <2>1, NoReqFacts DEF Over, OnlyThis, SessionInv, Fresh
  <2> QED BY <2>1, <2>2 DEF SessionInv, Fresh
<1>4. ASSUME NEW r \in Reqs, NEW u \in Users, Arriving(r, u) PROVE SessionInv'
  <2>1. PICK x : Begins(x) /\ Arrive(r, x)
    BY <1>4, Arrivals
  <2>2. x.pc # "session"
    BY <2>1 DEF Begins
  <2> QED BY <1>1, <2>1, <2>2, Arrived
<1>5. ASSUME NEW s, Logout(s) PROVE SessionInv'
  BY <1>2, <1>5 DEF Logout
<1>6. ASSUME NEW u \in Users, NEW s \in 0 .. opened, SwitchToken(u, s) PROVE SessionInv'
  BY <1>2, <1>6 DEF SwitchToken
<1>7. CASE UNCHANGED accessVars
  BY <1>2, <1>7 DEF accessVars
<1> QED BY <1>3, <1>4, <1>5, <1>6, <1>7, SessionKeptByStep DEF AccessNext, Arriving

----------------------------------------------------------------------------
AccInv == AccTypes /\ AdminInv /\ SetupInv /\ SessionInv

LEMMA AccBegins == AccessInit => AccInv
<1> SUFFICES ASSUME AccessInit PROVE SetupInv /\ SessionInv
  BY AccTypesInit, AdminInit DEF AccInv
<1>1. \A r \in Reqs : req[r].pc = "idle"
  BY NoReqFacts DEF AccessInit
<1>2. setups \in {0, 1}
  BY DEF AccessInit
<1>3. \A u \in There : PaidUp(u)
  <2>1. \A u : LoginsOf(u) = {}
    BY <1>1 DEF LoginsOf
  <2>2. CASE sessions = {}
    BY <2>1, <2>2 DEF PaidUp, SessionsOf
  <2>3. CASE /\ user \in [Users -> [there : {TRUE}, admin : BOOLEAN, off : BOOLEAN, pw : {1}]]
             /\ \E u \in Admins : sessions = {[id |-> 1, user |-> u, pw |-> 1]}
    <3>1. PICK a \in Admins : sessions = {[id |-> 1, user |-> a, pw |-> 1]}
      BY <2>3
    <3>2. ~user[a].off /\ a \in Users
      BY DEF Admins, There
    <3>3. \A u \in Users : user[u].pw = 1
      BY <2>3
    <3>4. \A u : \A s \in SessionsOf(u) : u = a /\ s.pw = 1
      BY <3>1 DEF SessionsOf
    <3> QED BY <2>1, <3>2, <3>3, <3>4 DEF PaidUp, There
  <2> QED BY <2>2, <2>3 DEF AccessInit
<1> QED BY <1>1, <1>2, <1>3 DEF SetupInv, SessionInv

(* An instance that is set up keeps an administrator who can log in, one   *)
(* setup is all there is, and sessions end with the password or the        *)
(* account they were opened for, as far as the requests concerned do not   *)
(* race (users_handlers.go:161, auth_handlers.go:137).                     *)
THEOREM AccountsAreSafe == AccessSpec => []AccessSafe
<1>1. AccInv /\ [AccessNext]_accessVars => AccInv'
  BY AccTypesKept, AdminKept, SetupKept, SessionKept DEF AccInv
<1>2. AccInv => AccessSafe
  <2> SUFFICES ASSUME AccInv PROVE AccessSafe
    OBVIOUS
  <2>1. AccessAdminRemains
    BY DEF AccInv, AdminInv, AccessAdminRemains
  <2>2. AccessOneSetup
    BY DEF AccInv, SetupInv, Quiet, AccessOneSetup
  <2>3. ASSUME Settled, ~excused, "login" \notin races, NEW s \in sessions
        PROVE  s.pw = user[s.user].pw /\ ~user[s.user].off
    <3>1. s.user \in There /\ s \in SessionsOf(s.user)
      BY DEF AccInv, AccTypes, AccessTypeOK, SessionsOf
    <3>2. PaidUp(s.user)
      BY <2>3, <3>1 DEF AccInv, SessionInv
    <3>3. ~Resetting(s.user) /\ ~Disabling(s.user)
      BY <2>3 DEF Settled, Open, Resetting, Disabling, Owed
    <3> QED BY <3>1, <3>2, <3>3 DEF PaidUp
  <2> QED BY <2>1, <2>2, <2>3
      DEF AccInv, AccTypes, AccessSafe, AccessSessionsCurrent, AccessDisabledShut
<1> QED BY AccBegins, <1>1, <1>2, PTL DEF AccessSpec
===============================================================================
