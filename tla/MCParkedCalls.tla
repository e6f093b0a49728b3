---------------------------- MODULE MCParkedCalls ----------------------------
(* A turn that asks for a delegation, awaited or detached, and an action;  *)
(* the sub-agent asks for one action, or the turn for two; and a sub-agent *)
(* that has an action behind a sub-agent of its own.                       *)
EXTENDS ParkedCalls, TLC

CONSTANTS turn, child, inner, side, a, d, e, g, x, p1, p2

MCBatches == {turn :> <<d, a>> @@ child :> <<x>> @@ inner :> <<>> @@ side :> <<>>,
              turn :> <<e, a>> @@ child :> <<>> @@ inner :> <<>> @@ side :> <<x>>,
              turn :> <<d>> @@ child :> <<g, x>> @@ inner :> <<>> @@ side :> <<>>}
MCTo == d :> child @@ e :> side @@ g :> inner @@ a :> NoRun @@ x :> NoRun
MCSink == turn :> turn @@ child :> turn @@ inner :> turn @@ side :> side
=============================================================================
