-------------------------------- MODULE MCJobs --------------------------------
(***************************************************************************)
(* The background jobs: clip exports, transcoded fragments, notifications  *)
(* and the ONVIF event clients. None of these components shares state with *)
(* another, so each is checked by itself: focus says which one moves, the  *)
(* others stay as they start. The reachable states are the sum of theirs,  *)
(* and every property of a component holds of all its behaviours.          *)
(***************************************************************************)
EXTENDS Export, Transcode, Notify, PullPoint

VARIABLE focus

vars == <<focus, exportVars, transcodeVars, notifyVars, pullVars>>

Init ==
    /\ focus \in {"export", "transcode", "notify", "pull"}
    /\ ExportInit /\ TranscodeInit /\ NotifyInit /\ PullInit
    /\ focus # "pull" => pullRow = "off"
    /\ focus # "export" => \A r \in Requests : request[r].user = CHOOSE u \in Users : TRUE

ExportMoves == focus = "export" /\ ExportNext
    /\ UNCHANGED <<focus, transcodeVars, notifyVars, pullVars>>
TranscodeMoves == focus = "transcode" /\ TranscodeNext
    /\ UNCHANGED <<focus, exportVars, notifyVars, pullVars>>
NotifyMoves == focus = "notify" /\ NotifyNext
    /\ UNCHANGED <<focus, exportVars, transcodeVars, pullVars>>
PullMoves == focus = "pull" /\ PullNext
    /\ UNCHANGED <<focus, exportVars, transcodeVars, notifyVars>>

Next == ExportMoves \/ TranscodeMoves \/ NotifyMoves \/ PullMoves

(* The fairness of the components, of the one that moves.                  *)
Fairness ==
    /\ \A r \in Requests :
          WF_exportVars(focus = "export" /\ JobStep(r))
    /\ \A c \in Callers :
          /\ WF_transcodeVars(focus = "transcode" /\ Building(c))
          /\ WF_transcodeVars(focus = "transcode" /\ Awaiting(c))
    /\ \A d \in Deliveries :
          WF_notifyVars(focus = "notify" /\ DeliveryStep(d))

Spec == Init /\ [][Next]_vars /\ Fairness
===============================================================================
