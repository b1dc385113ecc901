---------------------------- MODULE SystemTools ----------------------------
(***************************************************************************)
(* The other tools of src/tools/basis/ that read and count: jobs, clients    *)
(* and SNC (system.py), instances, system log and updates (monitoring.py),   *)
(* work processes, parameters and the rest of performance.py, task lists     *)
(* (task_lists.py).                                                         *)
(*                                                                         *)
(* Rows keep what is counted or compared.  A value or a sequence number that *)
(* is no number is NoNumber, one that is empty Empty.                       *)
(***************************************************************************)
EXTENDS ToolSteps

CONSTANTS
    Parameters,     \* names of profile parameters, in the order they are read
    Advice          \* for each: best value, comparison and category

NoNumber == -1
Empty == -2

With(rows, S) == Cardinality({i \in DOMAIN rows : rows[i] \in S})

----------------------------------------------------------------------------
(* system.py                                                                *)

Jobs(a, got) ==
    Given("TBTCO", got,
        Said("none", With(Rows("TBTCO", got), {"A"}), Sizes({"TBTCO"}, got), {}))

\* Faulty variant: only a client that is both is worth a finding.
ClientFindingsOfBoth(rows) ==
    {<<i, "cross">> : i \in {j \in DOMAIN rows :
        rows[j].cross = "0" /\ rows[j].category = "P" /\ rows[j].changes # "1"}}

\* A client open to cross-client changes, a production client open to changes.
ClientFindings(rows) ==
    {j \in DOMAIN rows : rows[j].cross = "0"} \X {"cross"}
        \cup {j \in DOMAIN rows : rows[j].category = "P" /\ rows[j].changes # "1"} \X {"changes"}

Clients(a, got) ==
    Given("T000", got,
        LET findings == ClientFindings(Rows("T000", got))
        IN Said(IF findings = {} THEN "LOW" ELSE "HIGH", Cardinality(findings),
                Sizes({"T000"}, got), {}))

\* PAHI keeps a row for each value a parameter has had: any of them counts.
Snc(a, got) ==
    Given("PAHI", got,
        LET rows == Rows("PAHI", got)
            enabled == \E i \in DOMAIN rows : rows[i].name = "snc/enable" /\ rows[i].value = "1"
        IN Said(IF enabled THEN "LOW" ELSE "HIGH", 0, Sizes({"PAHI"}, got), {}))

----------------------------------------------------------------------------
(* monitoring.py                                                            *)

\* The connector has no OData call to fall back on.  The instance that answers
\* is the one that is reported.
Instances(a, got) ==
    Given("RFC_SYSTEM_INFO", got, Said("none", 1, [t \in {"RFC_SYSTEM_INFO"} |-> 1], {}))

\* Faulty variant: only the lines the caller filters for are counted.
SyslogFiltered(a, got) ==
    LET lines == Rows("MSG_LINE_DATA", got)
    IN Cardinality({i \in DOMAIN lines :
            lines[i].severity = "error" /\ a.filter \in {"all", "error"}})

\* by_severity counts every line, whatever the filter keeps.
SyslogErrors(a, got) ==
    LET lines == Rows("MSG_LINE_DATA", got)
    IN Cardinality({i \in DOMAIN lines : lines[i].severity = "error"})

\* The areas of the monitor tree, then the lines of all of them in one batch.
\* A batch that is refused is a note, an exception an error.
Syslog(a, got) ==
    After({"TREE_NODES"}, got,
        IF got["TREE_NODES"].end = "failed" THEN Error
        ELSE IF Rows("TREE_NODES", got) = <<>> THEN Note
        ELSE After({"MSG_LINE_DATA"}, got,
            CASE got["MSG_LINE_DATA"].end = "failed" -> Error
              [] got["MSG_LINE_DATA"].end = "refused" -> Note
              [] OTHER -> Said("none", SyslogErrors(a, got), Sizes(DOMAIN got, got), {})))

Updates(a, got) ==
    Given("VBHDR", got,
        Said("none", With(Rows("VBHDR", got), {"E"}), Sizes({"VBHDR"}, got), {}))

----------------------------------------------------------------------------
(* performance.py                                                           *)

WorkProcesses(a, got) ==
    Given("WPLIST", got,
        LET rows == Rows("WPLIST", got)
        IN IF rows = <<>> THEN Error
           ELSE Said("none", With(rows, {"Hold", "Stopped"}), Sizes({"WPLIST"}, got), {}))

\* Three tools stand in for statistics they cannot read with the work processes
\* of the moment, an empty list of them included.
Snapshot(got) ==
    Given("WPLIST", got,
        Said("none", With(Rows("WPLIST", got), {"Run", "Running"}), Sizes({"WPLIST"}, got), {}))

ResponseTimes(a, got) == Snapshot(got)
Memory(a, got) == Snapshot(got)
Buffers(a, got) == Snapshot(got)

Database(a, got) ==
    After({"DBSTATC"}, got,
        IF ~Came("DBSTATC", got) THEN Note
        ELSE Said("none", Len(Rows("DBSTATC", got)), Sizes({"DBSTATC"}, got), {}))

\* _check_compliance: unknown if the value is no number.
Complies(value, advice) ==
    CASE advice.comparison = "lte" -> value <= advice.best
      [] advice.comparison = "gte" -> value >= advice.best
      [] OTHER -> value = advice.best

Verdict(value, advice) ==
    IF value \in {NoNumber, Empty} THEN "unknown"
    ELSE IF Complies(value, advice) THEN "compliant" ELSE "not_compliant"

\* Faulty variant: the first row of a parameter stands, and not the last.
CurrentFirst(rows) == IF rows = <<>> THEN Empty ELSE rows[1]

\* "current_values[name] = row": the last row stands.
Current(rows) == IF rows = <<>> THEN Empty ELSE rows[Len(rows)]

\* One read for each parameter of every category, one after the other; then the
\* verdicts of the category that was asked for.
ParameterAdvice(a, got) ==
    LET unread == {i \in DOMAIN Parameters : Parameters[i] \notin DOMAIN got}
        shown == {Parameters[i] : i \in {j \in DOMAIN Parameters :
                        a.filter \in {"all", Advice[Parameters[j]].category}}}
        verdict == [p \in shown |-> Verdict(Current(Rows(p, got)), Advice[p])]
        bad == {p \in shown : verdict[p] = "not_compliant"}
        next == CHOOSE i \in unread : \A j \in unread : i <= j
    IN IF unread # {} THEN Read({Parameters[next]})
       ELSE Said("none", Cardinality(bad), <<>>, verdict)

----------------------------------------------------------------------------
(* task_lists.py                                                            *)

\* Four gathered reads; only the headers cannot be missed.  Tasks are counted
\* over what arrived of one table for all lists.
TaskLists(a, got) ==
    After({"STC_SCN_HDR", "STC_SCN_HDR_T", "STC_SCN_TASKS", "STC_BASSCN_HDR_T"}, got,
    Given("STC_SCN_HDR", got,
        LET lists == {Rows("STC_SCN_HDR", got)[i] : i \in DOMAIN Rows("STC_SCN_HDR", got)}
        IN Said("none", With(Rows("STC_SCN_TASKS", got), lists), Sizes({"STC_SCN_HDR"}, got),
                [l \in lists |-> With(Rows("STC_SCN_TASKS", got), {l})])))

\* Five gathered reads.  A sequence number that int() does not take is an error.
TaskListDetails(a, got) ==
    After({"STC_SCN_HDR", "STC_SCN_HDR_T", "STC_SCN_TASKS", "STC_SCN_ATTR", "STC_TEMPLATE"}, got,
    Given("STC_SCN_HDR", got,
        LET tasks == Rows("STC_SCN_TASKS", got)
            known == Rows("STC_SCN_HDR", got) # <<>>
            sortable == \A i \in DOMAIN tasks : tasks[i] # NoNumber
        IN IF known /\ sortable
           THEN Said("none", Len(tasks), Sizes({"STC_SCN_HDR"}, got), {})
           ELSE Error))

\* Two gathered reads.
TaskListRuns(a, got) ==
    After({"STC_SESSION", "STC_SCN_HDR_T"}, got,
    Given("STC_SESSION", got,
        Said("none", With(Rows("STC_SESSION", got), {"12"}), Sizes({"STC_SESSION"}, got), {})))
=============================================================================
