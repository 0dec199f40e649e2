------------------------------ MODULE Transcode -------------------------------
(***************************************************************************)
(* The transcode cache for one segment (transcode/transcode.go): callers   *)
(* that miss the cached file share a build through the inflight map. The   *)
(* first caller builds and sends the result once into the map's channel,   *)
(* which holds one value; the others wait for that value or for their own  *)
(* request to end. The pool of four builds is shared with other segments,  *)
(* so a build may find it full at any time.                                *)
(***************************************************************************)
EXTENDS Naturals, FiniteSets

CONSTANTS
    Callers,   \* Segment calls for the segment
    MaxEvicts  \* bound: evictions

(* Channels are named by the caller that made them.                        *)
Nobody == "nobody"

ASSUME TranscodeAssumption ==
    IsFiniteSet(Callers) /\ Nobody \notin Callers /\ MaxEvicts \in Nat

VARIABLES
    fragment, \* the cached file: "none", "good", "bad"
    tmp,      \* the temporary output: who writes it
    inflight, \* inflight[seg.ID], Nobody = no entry
    wait,     \* per caller's channel: "empty", "ok", "err"
    caller,   \* per caller: [pc, on, cancelled]
    joined,   \* history, per channel: how many waited on it
    evicts

transcodeVars == <<fragment, tmp, inflight, wait, caller, joined, evicts>>

SetPc(c, pc) == caller' = [caller EXCEPT ![c].pc = pc]
Returned(c) == caller[c].pc \in {"ok", "failed"}

----------------------------------------------------------------------------
Stat(c) ==
    /\ caller[c].pc = "idle"
    /\ SetPc(c, IF fragment # "none" THEN "ok" ELSE "lock")
    /\ UNCHANGED <<fragment, tmp, inflight, wait, joined, evicts>>

(* Under the lock: join the build that is in flight, or become it.         *)
(* Mutant: the map is not looked at.                                       *)
LookupAlways(c) ==
    /\ caller[c].pc = "lock"
    /\ inflight' = c /\ SetPc(c, "slot") /\ UNCHANGED joined
    /\ UNCHANGED <<fragment, tmp, wait, evicts>>
Lookup(c) ==
    /\ caller[c].pc = "lock"
    /\ \/ /\ inflight # Nobody
          /\ caller' = [caller EXCEPT ![c] = [@ EXCEPT !.pc = "wait", !.on = inflight]]
          /\ joined' = [joined EXCEPT ![inflight] = @ + 1]
          /\ UNCHANGED inflight
       \/ /\ inflight = Nobody
          /\ inflight' = c /\ SetPc(c, "slot") /\ UNCHANGED joined
    /\ UNCHANGED <<fragment, tmp, wait, evicts>>

(* A waiter takes the one value there is.                                  *)
(* Mutant: an error is taken for success.                                  *)
ReceiveAny(c) ==
    /\ caller[c].pc = "wait" /\ wait[caller[c].on] # "empty"
    /\ wait' = [wait EXCEPT ![caller[c].on] = "empty"]
    /\ SetPc(c, "ok")
    /\ UNCHANGED <<fragment, tmp, inflight, joined, evicts>>
ReceiveResult(c) ==
    /\ caller[c].pc = "wait" /\ wait[caller[c].on] # "empty"
    /\ wait' = [wait EXCEPT ![caller[c].on] = "empty"]
    /\ SetPc(c, IF wait[caller[c].on] = "ok" THEN "ok" ELSE "failed")
    /\ UNCHANGED <<fragment, tmp, inflight, joined, evicts>>

WaitCancelled(c) ==
    /\ caller[c].pc = "wait" /\ caller[c].cancelled
    /\ SetPc(c, "failed")
    /\ UNCHANGED <<fragment, tmp, inflight, wait, joined, evicts>>

(* The client of a request goes away.                                      *)
RequestEnds(c) ==
    /\ ~caller[c].cancelled /\ ~Returned(c)
    /\ caller' = [caller EXCEPT ![c].cancelled = TRUE]
    /\ UNCHANGED <<fragment, tmp, inflight, wait, joined, evicts>>

(* build: a slot, or ErrBusy; ffmpeg into <segment>.tmp; split and rename. *)
BuildStarts(c) ==
    /\ caller[c].pc = "slot"
    /\ tmp' = tmp \cup {c} /\ SetPc(c, "ffmpeg")
    /\ UNCHANGED <<fragment, inflight, wait, joined, evicts>>
BuildFails(c) ==
    /\ caller[c].pc \in {"slot", "ffmpeg"}
    /\ tmp' = tmp \ {c} /\ SetPc(c, "sendErr")
    /\ UNCHANGED <<fragment, inflight, wait, joined, evicts>>
(* A file that another build is also writing comes out damaged. The        *)
(* request's context also ends its ffmpeg, for everybody that waits.       *)
BuildDone(c) ==
    /\ caller[c].pc = "ffmpeg" /\ ~caller[c].cancelled
    /\ fragment' = IF tmp = {c} THEN "good" ELSE "bad"
    /\ tmp' = tmp \ {c} /\ SetPc(c, "sendOk")
    /\ UNCHANGED <<inflight, wait, joined, evicts>>

(* Mutant: nothing is sent when the build failed.                          *)
SendSuccessOnly(c) ==
    /\ caller[c].pc \in {"sendOk", "sendErr"}
    /\ wait' = [wait EXCEPT ![c] = IF caller[c].pc = "sendOk" THEN "ok" ELSE @]
    /\ SetPc(c, IF caller[c].pc = "sendOk" THEN "deleteOk" ELSE "deleteErr")
    /\ UNCHANGED <<fragment, tmp, inflight, joined, evicts>>
SendResult(c) ==
    /\ caller[c].pc \in {"sendOk", "sendErr"}
    /\ wait' = [wait EXCEPT ![c] = IF caller[c].pc = "sendOk" THEN "ok" ELSE "err"]
    /\ SetPc(c, IF caller[c].pc = "sendOk" THEN "deleteOk" ELSE "deleteErr")
    /\ UNCHANGED <<fragment, tmp, inflight, joined, evicts>>

(* Mutant: the entry of a build that failed stays.                         *)
DeleteEntryOfGood(c) ==
    /\ caller[c].pc \in {"deleteOk", "deleteErr"}
    /\ inflight' = IF caller[c].pc = "deleteOk" THEN Nobody ELSE inflight
    /\ SetPc(c, IF caller[c].pc = "deleteOk" THEN "ok" ELSE "failed")
    /\ UNCHANGED <<fragment, tmp, wait, joined, evicts>>
DeleteEntry(c) ==
    /\ caller[c].pc \in {"deleteOk", "deleteErr"}
    /\ inflight' = Nobody
    /\ SetPc(c, IF caller[c].pc = "deleteOk" THEN "ok" ELSE "failed")
    /\ UNCHANGED <<fragment, tmp, wait, joined, evicts>>

(* The janitor or a camera delete removes the cached file.                 *)
Evict ==
    /\ evicts < MaxEvicts /\ evicts' = evicts + 1
    /\ fragment' = "none"
    /\ UNCHANGED <<tmp, inflight, wait, caller, joined>>

Building(c) == BuildStarts(c) \/ BuildFails(c) \/ BuildDone(c) \/ SendResult(c) \/ DeleteEntry(c)
Awaiting(c) == ReceiveResult(c) \/ WaitCancelled(c)
CallerStep(c) == Stat(c) \/ Lookup(c) \/ Awaiting(c) \/ Building(c)

----------------------------------------------------------------------------
TranscodeInit ==
    /\ fragment = "none" /\ tmp = {} /\ inflight = Nobody /\ evicts = 0
    /\ wait = [c \in Callers |-> "empty"]
    /\ caller = [c \in Callers |-> [pc |-> "idle", on |-> Nobody, cancelled |-> FALSE]]
    /\ joined = [c \in Callers \cup {Nobody} |-> 0]

TranscodeNext == (\E c \in Callers : CallerStep(c) \/ RequestEnds(c)) \/ Evict

(* A build ends (ffmpeg has a deadline), and a caller that can receive or  *)
(* was cancelled goes on; no request has to end by itself.                 *)
TranscodeFairness ==
    \A c \in Callers : WF_transcodeVars(Building(c)) /\ WF_transcodeVars(Awaiting(c))

TranscodeSpec == TranscodeInit /\ [][TranscodeNext]_transcodeVars /\ TranscodeFairness

----------------------------------------------------------------------------
(* Properties.                                                             *)

(* Types; an entry of the inflight map has its build behind it.            *)
TranscodeTypeOK ==
    /\ fragment \in {"none", "good", "bad"} /\ tmp \subseteq Callers
    /\ inflight \in Callers \cup {Nobody} /\ evicts \in 0 .. MaxEvicts
    /\ wait \in [Callers -> {"empty", "ok", "err"}]
    /\ caller \in [Callers -> [pc : {"idle", "lock", "wait", "slot", "ffmpeg", "sendOk", "sendErr",
                                    "deleteOk", "deleteErr", "ok", "failed"},
                               on : Callers \cup {Nobody}, cancelled : BOOLEAN]]
    /\ joined \in [Callers \cup {Nobody} -> 0 .. Cardinality(Callers)]
    /\ inflight # Nobody => caller[inflight].pc \in {"slot", "ffmpeg", "sendOk", "sendErr",
                                                     "deleteOk", "deleteErr"}

(* transcode.go:75 "Concurrent misses for the same segment share one       *)
(* build": one build writes the temporary file at a time, so what is       *)
(* renamed into the cache is whole.                                        *)
TranscodeOneBuild == Cardinality(tmp) <= 1 /\ fragment # "bad"

(* A caller is told the fragment is there only if it was: it is still, or  *)
(* was evicted since.                                                      *)
TranscodeOkIsCached ==
    (\E c \in Callers : caller[c].pc = "ok") => fragment = "good" \/ evicts > 0

(* Concurrent misses share one build, and success is reported for a whole  *)
(* fragment only.                                                          *)
TranscodeSafe == TranscodeTypeOK /\ TranscodeOneBuild /\ TranscodeOkIsCached

(* The builder's result reaches a waiter that does not share its channel   *)
(* with another one. Of several, one gets it and the others wait until     *)
(* their requests end (TranscodeAllAnswered is violated).                  *)
TranscodeWaiterAnswered ==
    \A c \in Callers :
        caller[c].pc = "wait" ~> Returned(c) \/ joined[caller[c].on] > 1
TranscodeAllAnswered == \A c \in Callers : caller[c].pc = "wait" ~> Returned(c)
===============================================================================
