---------------------------- MODULE MCJcoBridge ----------------------------
(* Small instances of JcoBridge for TLC.                                    *)
EXTENDS JcoBridge, TLC

CONSTANTS c1, c2, c3, tg1, tg2, d1, d2, read, logon, logoff, other, xal, xmb

Call(f, i) == [fn |-> f, iface |-> i]

\* Every sequence of at most two calls over five names (a function outside the
\* allow-list and a blank name among them), and the sequence of four that the
\* host-metrics tool sends.
NamesBatches ==
    LET calls == {Call(f, xal) : f \in Functions \cup {Blank}} IN
    UNION {[1..n -> calls] : n \in 0..2}
        \cup {<<Call(logon, xal), Call(read, xal), Call(read, xal), Call(logoff, xal)>>}

NoBatch == {<<>>}

\* One connection; or c1 and c2 that differ in password or language only, and
\* c3 of another user.
OneTarget == c1 :> tg1
SharedTarget == c1 :> tg1 @@ c2 :> tg1 @@ c3 :> tg2

OneHash == tg1 :> d1
InjectiveHash == tg1 :> d1 @@ tg2 :> d2

Threads == Permutations(Workers)
============================================================================
