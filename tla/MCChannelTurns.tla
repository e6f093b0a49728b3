--------------------------- MODULE MCChannelTurns ---------------------------
(* Messages to one conversation. The turn of the first asks a question or  *)
(* two; of those that follow, one may be no answer to it. Two messages     *)
(* with an outage and an end of the process; three with one or the other.  *)
EXTENDS ChannelTurns, TLC

CONSTANTS m1, m2, m3

Asks(n) == m1 :> n @@ m2 :> 0 @@ m3 :> 0
Two(n, unclear) ==
  [sends |-> {m1, m2}, questions |-> Asks(n), unclear |-> unclear, crashes |-> 1, errors |-> 1]
Three(n, unclear, ends, outages) ==
  [sends |-> {m1, m2, m3}, questions |-> Asks(n), unclear |-> unclear,
   crashes |-> ends, errors |-> outages]
MCScripts == {Two(1, {}), Three(2, {}, 1, 0), Three(1, {m3}, 0, 1)}
=============================================================================
