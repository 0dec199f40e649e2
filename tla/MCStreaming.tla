------------------------------ MODULE MCStreaming -----------------------------
(***************************************************************************)
(* The two sides of a camera that follow its stream for as long as it      *)
(* lives: the live fan-out hub and the detection engines. They share no    *)
(* state, so each is checked by itself: focus says which one moves, the    *)
(* other stays as it starts. The reachable states are the sum of theirs,   *)
(* and every property of a component holds of all its behaviours.          *)
(***************************************************************************)
EXTENDS LiveHub, Detect

VARIABLE focus

vars == <<focus, liveVars, detVars>>

Init ==
    /\ focus \in {"live", "detect"}
    /\ LiveInit /\ DetInit
    /\ focus # "detect" => detRow = "off"

LiveMoves == focus = "live" /\ LiveNext
    /\ UNCHANGED <<focus, detVars>>
DetMoves == focus = "detect" /\ DetNext
    /\ UNCHANGED <<focus, liveVars>>

Next == LiveMoves \/ DetMoves

(* The fairness of the components, of the one that moves.                  *)
Fairness ==
    /\ \A v \in Viewers :
          /\ WF_liveVars(focus = "live" /\ Forward(v))
          /\ WF_liveVars(focus = "live" /\ Handler(v))
    /\ \A e \in Engines :
          /\ WF_detVars(focus = "detect" /\ EngineProceeds(e))
          /\ WF_detVars(focus = "detect" /\ engine[e].stop /\ SessionDies(e))
    /\ \A c \in DetCalls :
          WF_detVars(focus = "detect" /\ DetStep(c))

Spec == Init /\ [][Next]_vars /\ Fairness
===============================================================================
