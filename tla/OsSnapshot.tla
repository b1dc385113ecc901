----------------------------- MODULE OsSnapshot -----------------------------
(***************************************************************************)
(* The tool get_os_resource_snapshot, src/tools/basis/os_monitor.py: it asks *)
(* for the monitoring tree under one monitor set after the other, then reads *)
(* the current value of every element it wants in one batch, and folds what  *)
(* came back into flags and a risk.                                         *)
(*                                                                         *)
(* A batch ends in one of these ways (_rfc_batch, _batch): "answered"; "cut", *)
(* an HTTP error whose body holds the results up to the call that failed;    *)
(* "refused", one without results; "failed", an exception with a text; or    *)
(* "timed_out", an exception without one.                                    *)
(***************************************************************************)
EXTENDS Naturals, Sequences, FiniteSets

CONSTANTS
    Sets,           \* _MONITOR_SETS, a sequence of monitor sets
    Elements,       \* performance elements worth reading that a tree may hold
    KindOf,         \* [Elements -> {"plain", "idle", "used", "free"}]
    MetricOf,       \* [Elements -> metrics]: host and key, or host and mount
    MaxMetrics      \* max_metrics, the cap on the elements read

ASSUME SnapshotAssumption ==
    /\ Len(Sets) \in Nat \ {0} /\ DOMAIN Sets = 1..Len(Sets)
    /\ IsFiniteSet(Elements)
    /\ MaxMetrics \in Nat \ {0}
    /\ KindOf \in [Elements -> {"plain", "idle", "used", "free"}]
    /\ DOMAIN MetricOf = Elements

\* The elements worth reading in a tree, in the order SAP lists them.
Listings ==
    {s \in UNION {[1..n -> Elements] : n \in 0..Cardinality(Elements)} :
        \A i, j \in DOMAIN s : s[i] = s[j] => i = j}

\* num is "bad" above 85 % of a filesystem and below 10 % idle, "none" if it is
\* not a number.
Values == [num : {"none", "fine", "bad"}, colour : {"green", "yellow", "red", "unknown"}]

VARIABLES
    pc,             \* the await the tool is at, "idle" between calls
    turn,           \* index of the monitor set that is asked
    listed,         \* elements worth reading in the tree, in its order
    truncated,      \* metrics_truncated: not all of them are read
    wanted,         \* those that are
    held,           \* the current value of each listed element, in SAP
    values,         \* what the value batch delivered, in the order of wanted
    status,         \* "none" until the call returns, "ok" or "unavailable"
    risk            \* "none", "LOW", "MEDIUM" or "HIGH"

vars == <<pc, turn, listed, truncated, wanted, held, values, status, risk>>

tree == <<listed, truncated, wanted>>

----------------------------------------------------------------------------
Prefix(s, n) == [i \in {k \in DOMAIN s : k <= n} |-> s[i]]

Flag(at, what, node, alert) == [at |-> at, metric |-> <<what, MetricOf[node]>>, alert |-> alert]

\* Faulty variant: a filesystem that is too full is a red alert.
FullIsRed(i, node, value) ==
    IF KindOf[node] = "used" /\ value.num = "bad"
    THEN {Flag(2 * i, "full", node, "red")} ELSE {}

\* A flag has a metric, an alert and its place in the order they are raised in.  A
\* filesystem that is too full has a metric of its own beside that of its colour.
FlagsOf(i, node, value) ==
    (IF KindOf[node] = "used" /\ value.num = "bad"
     THEN {Flag(2 * i, "full", node, value.colour)} ELSE {})
        \cup (IF value.colour \in {"yellow", "red"}
              THEN {Flag(2 * i + 1, "colour", node, value.colour)} ELSE {})

\* CPU idle is looked at once every element of the hosts is in; of several values
\* under one key of a host the last stands.
IdleFlags(nodes, vals) ==
    LET those == {i \in DOMAIN vals : KindOf[nodes[i]] = "idle"}
        last == {i \in those : \A k \in those : k > i => MetricOf[nodes[k]] # MetricOf[nodes[i]]} IN
    {Flag(2 * (Len(nodes) + i), "colour", nodes[i], "red") :
        i \in {k \in last : vals[k].num = "bad"}}

Flagged(nodes, vals) ==
    (UNION {FlagsOf(i, nodes[i], vals[i]) : i \in DOMAIN vals}) \cup IdleFlags(nodes, vals)

\* Of several flags with one metric the first is kept.
Unique(flags) ==
    {f \in flags : \A g \in flags : g.at < f.at => g.metric # f.metric}

RiskOf(flags) ==
    IF \E f \in Unique(flags) : f.alert = "red" THEN "HIGH"
    ELSE IF Unique(flags) # {} THEN "MEDIUM" ELSE "LOW"

Init ==
    /\ pc = "idle" /\ turn = 1
    /\ listed = <<>> /\ truncated = FALSE /\ wanted = <<>>
    /\ held = <<>> /\ values = <<>>
    /\ status = "none" /\ risk = "none"

Call ==
    /\ pc = "idle"
    /\ pc' = "tree" /\ turn' = 1
    /\ listed' = <<>> /\ truncated' = FALSE /\ wanted' = <<>>
    /\ held' = <<>> /\ values' = <<>>
    /\ status' = "none" /\ risk' = "none"

Unavailable ==
    /\ pc' = "idle"
    /\ status' = "unavailable"
    /\ UNCHANGED <<turn, held, values, risk>>

\* Faulty variant: the search does not stop after the last monitor set.
TryNextForever ==
    /\ UNCHANGED <<tree, pc, held, values, status, risk>>
    /\ turn' = turn + 1

\* The next monitor set, or the end of them.
TryNext ==
    /\ UNCHANGED tree
    /\ IF turn < Len(Sets)
       THEN turn' = turn + 1 /\ UNCHANGED <<pc, held, values, status, risk>>
       ELSE Unavailable

\* Faulty variant: whether elements are cut off is asked after the cut.
CutThenAsk ==
    /\ pc = "tree"
    /\ \E found \in Listings :
        /\ listed' = found
        /\ wanted' = Prefix(found, MaxMetrics)
        /\ truncated' = (Len(wanted') > MaxMetrics)
        /\ IF found = <<>> THEN Unavailable
           ELSE pc' = "values" /\ UNCHANGED <<turn, held, values, status, risk>>

\* A tree ends the search, even if nothing in it is wanted.
TreeFound ==
    /\ pc = "tree"
    /\ \E found \in Listings :
        /\ listed' = found
        /\ truncated' = (Len(found) > MaxMetrics)
        /\ wanted' = Prefix(found, MaxMetrics)
        /\ IF found = <<>> THEN Unavailable
           ELSE pc' = "values" /\ UNCHANGED <<turn, held, values, status, risk>>

\* An empty tree, or a batch that ended early, is not the end of the search...
TreeEmpty == pc = "tree" /\ TryNext
\* ...an exception with a text is: "if err and res is None".
TreeFails == pc = "tree" /\ Unavailable /\ UNCHANGED tree

\* SAP has a value for every element; the first n of those asked for come back and
\* are paired with the elements in order (zip).  What is missing at the end is not
\* noticed.
Fold(n) ==
    /\ held' \in [DOMAIN listed -> Values]
    /\ values' = Prefix(held', n)
    /\ risk' = RiskOf(Flagged(wanted, values'))
    /\ status' = "ok"
    /\ pc' = "idle"
    /\ UNCHANGED <<turn, tree>>

ReadValues == pc = "values" /\ Fold(Len(wanted))

\* res is not None, so a cut or refused batch is folded like a whole one.
ReadValuesCut == pc = "values" /\ \E n \in 0..(Len(wanted) - 1) : Fold(n)

ReadValuesFails == pc = "values" /\ Unavailable /\ UNCHANGED tree

Next ==
    \/ Call
    \/ TreeFound \/ TreeEmpty \/ TreeFails
    \/ ReadValues \/ ReadValuesCut \/ ReadValuesFails

Spec == Init /\ [][Next]_vars

----------------------------------------------------------------------------
\* Every variable holds what the code can put there, and a verdict has a risk.
TypeOK ==
    /\ pc \in {"idle", "tree", "values"}
    /\ turn \in DOMAIN Sets
    /\ listed \in Listings
    /\ truncated \in BOOLEAN
    /\ \E n \in 0..MaxMetrics : wanted \in [1..n -> Elements]
    /\ held \in [DOMAIN listed -> Values] \cup {<<>>}
    /\ \E n \in 0..Len(wanted) : values \in [1..n -> Values]
    /\ status \in {"none", "ok", "unavailable"}
    /\ risk \in {"none", "LOW", "MEDIUM", "HIGH"}
    /\ status = "ok" <=> risk # "none"
    /\ pc = "values" => wanted # <<>>

\* What is alarming about a value, said without flags.
Alarming(node, value) ==
    \/ value.colour \in {"yellow", "red"}
    \/ value.num = "bad" /\ KindOf[node] \in {"used", "idle"}

\* A later value of a host's idle CPU stands in place of the i-th, which raised no
\* alert of its own.
Replaced(i) ==
    /\ KindOf[wanted[i]] = "idle" /\ values[i].colour \notin {"yellow", "red"}
    /\ \E k \in DOMAIN values :
        k > i /\ KindOf[wanted[k]] = "idle" /\ MetricOf[wanted[k]] = MetricOf[wanted[i]]

\* Beside LOW, trouble that SAP holds in any element of the tree is behind the cap,
\* and then the report says that it was cut; or it is in one of the values that a
\* batch SAP ended early did not bring, which the report does not say (OkIsRead); or
\* it is an idle CPU for which a later value stands.  Neither the pairing of values
\* with elements nor the dropping of repeated flags hides any more.
LowIsCalm ==
    risk = "LOW" =>
        \A i \in {k \in DOMAIN listed : Alarming(listed[k], held[k])} :
            \/ i > MaxMetrics /\ truncated
            \/ i \in (Len(values) + 1)..Len(wanted)
            \/ i \in DOMAIN values /\ Replaced(i)

\* HIGH takes a red alert of CCMS or a host with next to no idle CPU.
HighIsRed ==
    risk = "HIGH" =>
        \E i \in DOMAIN values :
            \/ values[i].colour = "red"
            \/ values[i].num = "bad" /\ KindOf[wanted[i]] = "idle"

\* What the code does not keep: a batch that ends early is "ok" as well.
\* "Say plainly when a check returned no data rather than implying it passed"
\* (server.py:41): a snapshot that is "ok" has read what it says it has read.
OkIsRead == status = "ok" => Len(values) = Len(wanted)
============================================================================
