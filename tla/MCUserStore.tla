---------------------------- MODULE MCUserStore ----------------------------
(* Small instances of UserStore for TLC.                                    *)
EXTENDS UserStore, TLC

CONSTANTS good, padded, short

\* padded is good with a blank in front.
OneBlank == good :> good @@ padded :> good @@ short :> short

Symmetric == Permutations(Procs) \cup Permutations(Users)
============================================================================
