--------------------------------- MODULE MCApi --------------------------------
(***************************************************************************)
(* What the API handlers share and read: accounts and requests, sessions,  *)
(* rate limits, camera rows, settings, the segment index, schedules, the   *)
(* event feed and the pictures. None of these components shares state with *)
(* another, so each is checked by itself: focus says which one moves, the  *)
(* others stay as they start. The reachable states are the sum of theirs,  *)
(* and every property of a component holds of all its behaviours.          *)
(***************************************************************************)
EXTENDS Access, Sessions, LoginLimit, CameraRow, Settings, Playback, Schedule,
        EventFeed, Snapshot

VARIABLE focus

(* Segments as they are cut while the clock runs, and when it steps back:  *)
(* one may end before its start, or start with or before the last one.     *)
SegmentLengths == {-1, 3, 5}
SegmentPauses == {-5, 0, 7}

vars == <<focus, accessVars, sessVars, limitVars, camVars, settingsVars,
          playbackVars, schedVars, feedVars, snapVars>>

Init ==
    /\ focus \in {"access", "session", "limit", "camera", "settings", "playback",
                  "schedule", "feed", "snapshot"}
    /\ AccessInit /\ SessInit /\ LimitInit /\ CamInit /\ SettingsInit
    /\ PlaybackInit /\ ScheduleInit /\ FeedInit /\ SnapInit
    /\ focus # "access" => opened = 0
    /\ focus # "camera" => camera.col["endpoint"] = None

AccessMoves == focus = "access" /\ AccessNext
    /\ UNCHANGED <<focus, sessVars, limitVars, camVars, settingsVars,
                   playbackVars, schedVars, feedVars, snapVars>>
SessMoves == focus = "session" /\ SessNext
    /\ UNCHANGED <<focus, accessVars, limitVars, camVars, settingsVars,
                   playbackVars, schedVars, feedVars, snapVars>>
LimitMoves == focus = "limit" /\ LimitNext
    /\ UNCHANGED <<focus, accessVars, sessVars, camVars, settingsVars,
                   playbackVars, schedVars, feedVars, snapVars>>
CamMoves == focus = "camera" /\ CamNext
    /\ UNCHANGED <<focus, accessVars, sessVars, limitVars, settingsVars,
                   playbackVars, schedVars, feedVars, snapVars>>
SettingsMoves == focus = "settings" /\ SettingsNext
    /\ UNCHANGED <<focus, accessVars, sessVars, limitVars, camVars,
                   playbackVars, schedVars, feedVars, snapVars>>
PlaybackMoves == focus = "playback" /\ PlaybackNext
    /\ UNCHANGED <<focus, accessVars, sessVars, limitVars, camVars,
                   settingsVars, schedVars, feedVars, snapVars>>
ScheduleMoves == focus = "schedule" /\ ScheduleNext
    /\ UNCHANGED <<focus, accessVars, sessVars, limitVars, camVars,
                   settingsVars, playbackVars, feedVars, snapVars>>
FeedMoves == focus = "feed" /\ FeedNext
    /\ UNCHANGED <<focus, accessVars, sessVars, limitVars, camVars,
                   settingsVars, playbackVars, schedVars, snapVars>>
SnapMoves == focus = "snapshot" /\ SnapNext
    /\ UNCHANGED <<focus, accessVars, sessVars, limitVars, camVars,
                   settingsVars, playbackVars, schedVars, feedVars>>

Next ==
    \/ AccessMoves \/ SessMoves \/ LimitMoves \/ CamMoves \/ SettingsMoves
    \/ PlaybackMoves \/ ScheduleMoves \/ FeedMoves \/ SnapMoves

Spec == Init /\ [][Next]_vars

(* What a client polls does not go back in time: a deleted camera stays    *)
(* deleted, the numbers of a full live playlist and the frames of a        *)
(* picture do not decrease, in whatever order writes and decodes end.      *)
NeverBack == [][CamGoneForGood /\ LiveNeverBack /\ SnapNeverBack]_vars
===============================================================================
