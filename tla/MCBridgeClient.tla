--------------------------- MODULE MCBridgeClient ---------------------------
(* A small instance of BridgeClient for TLC.                                *)
EXTENDS BridgeClient, TLC

CONSTANTS spool, lists, info, tsp01, tsp02, hdr, tasks, sysinfo

\* Calls that read two tables one after the other, gather two, and read one.
ThreeShapes ==
    spool :> <<{tsp01}, {tsp02}>> @@ lists :> <<{hdr, tasks}>> @@ info :> <<{sysinfo}>>
=============================================================================
