------------------------------- MODULE EventLog -------------------------------
(***************************************************************************)
(* What the events table promises its readers about one camera after       *)
(* another (docs/07-detection-notifications.md:42, "One events row per     *)
(* active window, end_ts filled on close"): the windows of a camera follow *)
(* one another, only the newest can be open, and a closed window never     *)
(* changes. A failed database call may lose a window: it is left as it is, *)
(* open or closed, and only the next boot will close it; the others are    *)
(* as good as before. MotionEvents is shown to implement it.               *)
(***************************************************************************)
EXTENDS Sequences, Naturals

CONSTANTS
    Cams,    \* cameras
    Times    \* points in time, none of them 0

VARIABLE log     \* per camera, its windows: [ts, end, lost], end = 0 while open

AllClosed(c) == \A i \in DOMAIN log[c] : log[c][i].end # 0 \/ log[c][i].lost

(* A window opens after the others, or, lost at once, among them.          *)
Open(c) ==
    \E ts \in Times, lost \in BOOLEAN :
        /\ lost \/ AllClosed(c)
        /\ log' = [log EXCEPT ![c] = Append(@, [ts |-> ts, end |-> 0, lost |-> lost])]

(* The windows of some cameras are closed, all at once when the daemon     *)
(* boots, or lost.                                                         *)
Moved(old, new) ==
    /\ new.ts = old.ts /\ (old.lost => new.lost)
    /\ new.end = old.end \/ (old.end = 0 /\ new.end \in Times)
CloseSome ==
    /\ DOMAIN log' = Cams
    /\ \A c \in Cams :
         /\ DOMAIN log'[c] = DOMAIN log[c]
         /\ \A i \in DOMAIN log[c] : Moved(log[c][i], log'[c][i])

Init == log = [c \in Cams |-> <<>>]

Next == (\E c \in Cams : Open(c)) \/ CloseSome

Spec == Init /\ [][Next]_log
===============================================================================
