---------------------------- MODULE MCOsSnapshot ----------------------------
(* A small instance of OsSnapshot for TLC.                                  *)
EXTENDS OsSnapshot, TLC

CONSTANTS used, free, idle, again, root, cpu

TwoSets == <<"templates", "expert">>

\* One filesystem with both of its elements, and CPU idle of one host twice.
OneHost == {used, free, idle, again}
Kinds == used :> "used" @@ free :> "free" @@ idle :> "idle" @@ again :> "idle"
Metrics == used :> root @@ free :> root @@ idle :> cpu @@ again :> cpu
============================================================================
