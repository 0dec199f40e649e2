------------------------------ MODULE CameraRow --------------------------------
(***************************************************************************)
(* One row of cameras (camera/camera.go) and the requests that change it.  *)
(* Update reads the row, merges the fields of the request and writes all   *)
(* of its columns back, in two statements; SetEnabled and SetStatus write  *)
(* columns of their own. The ONVIF handlers (api/onvif_handlers.go) read   *)
(* the row first, talk to the device, and then Update.                     *)
(*                                                                         *)
(* Of the columns that are merged alike (name, mode, retention, display,   *)
(* ...) one stands for all, "plain"; "urls" are the stream addresses,      *)
(* which a sync also writes. Their values are the number of the request    *)
(* that wrote them. The endpoint is a device; the profile and the imaging  *)
(* token are the device they were read from.                               *)
(***************************************************************************)
EXTENDS Naturals, FiniteSets

CONSTANTS
    Devices,      \* ONVIF devices
    Edits,        \* requests that run at once
    MaxEdits      \* bound: changes of the row

None == "none"
ASSUME CameraAssumption ==
    /\ IsFiniteSet(Devices) /\ IsFiniteSet(Edits)
    /\ None \notin Devices /\ MaxEdits \in Nat

VARIABLES
    camera,     \* the row: [there, enabled, status, col]
    edit,       \* per request: [pc, given, seen, cur]
    edits,      \* changes so far
    written,    \* history: [enabled, status, col] as they were last given
    crossed     \* history: have two requests that Update overlapped?

camVars == <<camera, edit, edits, written, crossed>>

(* given: the fields of the request; seen: the endpoint when it arrived;   *)
(* cur: the row it is going to write.                                      *)
NoFields == [f \in {} |-> None]
NoEdit == [pc |-> "idle", given |-> NoFields, seen |-> None, cur |-> NoFields]
SetEdit(e, x) == edit' = [edit EXCEPT ![e] = x]

(* A field that is not given leaves its column as it is.                   *)
Merged(given, col) ==
    [f \in DOMAIN col |-> IF f \in DOMAIN given THEN given[f] ELSE col[f]]

----------------------------------------------------------------------------
(* cameraFor finds the row; a request that will Update it.                 *)
StartUpdate(e, x) ==
    /\ edit[e].pc = "idle" /\ camera.there
    /\ edits < MaxEdits /\ edits' = edits + 1
    /\ SetEdit(e, x)
    /\ crossed' = (crossed \/ \E o \in Edits : edit[o].pc # "idle")
    /\ UNCHANGED <<camera, written>>

(* updateCamera, updateCameraDisplay: the fields of the body; an empty     *)
(* endpoint clears the profile as well. Mutants: it does not; it is stored *)
(* as an empty string.                                                     *)
GivenKeepingProfile(fields, endpoint) ==
    [f \in fields |-> IF f = "endpoint" THEN endpoint ELSE edits + 1]
GivenAsIs(fields, endpoint) ==
    [f \in fields |-> IF f # "endpoint" THEN edits + 1 ELSE IF endpoint = None THEN "" ELSE endpoint]
Given(fields, endpoint) ==
    LET cleared == IF "endpoint" \in fields /\ endpoint = None THEN {"profile"} ELSE {}
    IN  [f \in fields \cup cleared |->
            IF f = "endpoint" THEN endpoint ELSE IF f = "profile" THEN None ELSE edits + 1]
UpdateCamera(e) ==
    \E fields \in (SUBSET {"plain", "urls", "endpoint"}) \ {{}}, endpoint \in Devices \cup {None} :
        StartUpdate(e, [NoEdit EXCEPT !.pc = "get", !.given = Given(fields, endpoint)])

(* onvifSync with the device of the row; imagingSourceToken if the row has *)
(* no token yet.                                                           *)
OnvifSync(e) ==
    /\ camera.col.endpoint # None
    /\ StartUpdate(e, [NoEdit EXCEPT !.pc = "probe", !.seen = camera.col.endpoint])
ImagingSourceToken(e) ==
    /\ camera.col.endpoint # None /\ camera.col.imaging = None
    /\ StartUpdate(e, [NoEdit EXCEPT !.pc = "token", !.seen = camera.col.endpoint])

(* The device answers, with stream addresses or without, or does not.      *)
DeviceAnswers(e) ==
    /\ \E given \in
            CASE edit[e].pc = "probe" -> {[profile |-> edit[e].seen],
                                          [profile |-> edit[e].seen, urls |-> edits]}
              [] edit[e].pc = "token" -> {[imaging |-> edit[e].seen]}
              [] OTHER -> {} :
         SetEdit(e, [edit[e] EXCEPT !.pc = "get", !.given = given])
    /\ UNCHANGED <<camera, edits, written, crossed>>
DeviceFails(e) ==
    /\ edit[e].pc \in {"probe", "token"}
    /\ SetEdit(e, NoEdit)
    /\ UNCHANGED <<camera, edits, written, crossed>>

----------------------------------------------------------------------------
(* Update reads the row and merges. Mutant: a column that is not given is  *)
(* reset.                                                                  *)
GetAndForget(e) ==
    /\ edit[e].pc = "get"
    /\ SetEdit(e, IF camera.there
                  THEN [edit[e] EXCEPT !.pc = "write",
                            !.cur = Merged(edit[e].given, [camera.col EXCEPT !.urls = 0])]
                  ELSE NoEdit)
    /\ UNCHANGED <<camera, edits, written, crossed>>
GetAndMerge(e) ==
    /\ edit[e].pc = "get"
    /\ SetEdit(e, IF camera.there
                  THEN [edit[e] EXCEPT !.pc = "write", !.cur = Merged(edit[e].given, camera.col)]
                  ELSE NoEdit)
    /\ UNCHANGED <<camera, edits, written, crossed>>

(* UPDATE ... WHERE id: nothing, if the row is gone. Mutants: an upsert;   *)
(* the enabled column among the others.                                    *)
WriteUpserting(e) ==
    /\ edit[e].pc = "write"
    /\ camera' = [camera EXCEPT !.col = edit[e].cur, !.there = TRUE]
    /\ written' = [written EXCEPT !.col = Merged(edit[e].given, @)]
    /\ SetEdit(e, NoEdit)
    /\ UNCHANGED <<edits, crossed>>
WriteAllColumns(e) ==
    /\ edit[e].pc = "write"
    /\ camera' = [camera EXCEPT !.col = edit[e].cur, !.enabled = TRUE]
    /\ written' = [written EXCEPT !.col = Merged(edit[e].given, @)]
    /\ SetEdit(e, NoEdit)
    /\ UNCHANGED <<edits, crossed>>
WriteBack(e) ==
    /\ edit[e].pc = "write"
    /\ IF camera.there
       THEN /\ camera' = [camera EXCEPT !.col = edit[e].cur]
            /\ written' = [written EXCEPT !.col = Merged(edit[e].given, @)]
       ELSE UNCHANGED <<camera, written>>
    /\ SetEdit(e, NoEdit)
    /\ UNCHANGED <<edits, crossed>>

(* setCameraEnabled, the ingest worker's SetStatus, deleteCamera.          *)
SetEnabled ==
    /\ camera.there /\ edits < MaxEdits /\ edits' = edits + 1
    /\ camera' = [camera EXCEPT !.enabled = ~@]
    /\ written' = [written EXCEPT !.enabled = ~camera.enabled]
    /\ UNCHANGED <<edit, crossed>>
SetStatus ==
    /\ camera.there /\ edits < MaxEdits /\ edits' = edits + 1
    /\ camera' = [camera EXCEPT !.status = edits + 1]
    /\ written' = [written EXCEPT !.status = edits + 1]
    /\ UNCHANGED <<edit, crossed>>
DeleteCamera ==
    /\ camera.there /\ camera' = [camera EXCEPT !.there = FALSE]
    /\ UNCHANGED <<edit, edits, written, crossed>>

----------------------------------------------------------------------------
(* createCamera.                                                           *)
CamInit ==
    /\ \E endpoint \in Devices \cup {None} :
         camera = [there |-> TRUE, enabled |-> TRUE, status |-> 0,
                   col |-> [plain |-> 0, urls |-> 0, imaging |-> None,
                            endpoint |-> endpoint, profile |-> None]]
    /\ written = [enabled |-> TRUE, status |-> 0, col |-> camera.col]
    /\ edit = [e \in Edits |-> NoEdit] /\ edits = 0 /\ crossed = FALSE

CamNext ==
    \/ \E e \in Edits :
         \/ UpdateCamera(e) \/ OnvifSync(e) \/ ImagingSourceToken(e)
         \/ DeviceAnswers(e) \/ DeviceFails(e) \/ GetAndMerge(e) \/ WriteBack(e)
    \/ SetEnabled \/ SetStatus \/ DeleteCamera

CamSpec == CamInit /\ [][CamNext]_camVars

----------------------------------------------------------------------------
(* Properties.                                                             *)

Values(f) ==
    IF f \in {"plain", "urls"} THEN 0 .. MaxEdits ELSE Devices \cup {None}
CamTypeOK ==
    /\ \A row \in {camera, written} : row.enabled \in BOOLEAN /\ row.status \in 0 .. MaxEdits
    /\ camera.there \in BOOLEAN /\ crossed \in BOOLEAN /\ edits \in 0 .. MaxEdits
    /\ DOMAIN camera.col = {"plain", "urls", "imaging", "endpoint", "profile"}
    /\ \A f \in DOMAIN camera.col : camera.col[f] \in Values(f)
    /\ \A e \in Edits : /\ edit[e].pc \in {"idle", "probe", "token", "get", "write"}
                        /\ edit[e].seen \in Devices \cup {None}

(* camera.go:247 "nil pointer = leave unchanged": each column holds what a *)
(* request last gave it, unless two updates of the camera overlap, of      *)
(* which the second may write back what it read before the first           *)
(* (CamEditsKept is violated).                                             *)
CamEditsKeptApart == ~crossed => camera.col = written.col
CamEditsKept == camera.col = written.col

(* The columns Update does not write are safe from it however they         *)
(* overlap: a camera stays as it was last enabled or disabled, with the    *)
(* status its worker last reported.                                        *)
CamOwnColumns ==
    camera.enabled = written.enabled /\ camera.status = written.status

(* A sync under way does not bring a deleted camera back.                  *)
CamGoneForGood == ~camera.there => ~camera'.there

(* camera.go:303: a camera without an endpoint has no profile either, if   *)
(* updates do not overlap (a sync under way may put one back).             *)
CamProfileHasEndpoint ==
    ~crossed /\ camera.col.endpoint = None => camera.col.profile = None

(* The row is what requests made it, as far as they do not overlap, and    *)
(* the columns of other writers are theirs even then.                      *)
CamSafe == CamTypeOK /\ CamEditsKeptApart /\ CamOwnColumns /\ CamProfileHasEndpoint

(* onvif_handlers.go:333 the token "used by the imaging service" is one of *)
(* the device the camera has. Violated: it is cached for good, also when   *)
(* the endpoint changes.                                                   *)
CamTokenOfDevice ==
    camera.col.imaging # None /\ camera.col.endpoint # None
        => camera.col.imaging = camera.col.endpoint
===============================================================================
