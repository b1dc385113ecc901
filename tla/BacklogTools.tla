---------------------------- MODULE BacklogTools ----------------------------
(***************************************************************************)
(* The tools that look for what piles up: get_trfc_queue_status and          *)
(* get_qrfc_queue_status (src/tools/basis/queues.py), get_lock_entries       *)
(* (locks.py), get_spool_status (spool.py), each as a function of its        *)
(* arguments and of the answers got so far.                                 *)
(*                                                                         *)
(* Ages are in hours, as age_hours of _sapdt.py gives them: negative where    *)
(* the clock of SAP is ahead of UTC, and NoAge, a number below any age, if    *)
(* the date or time cannot be parsed.  Rows keep what a verdict depends on.  *)
(***************************************************************************)
EXTENDS ToolSteps

CONSTANTS
    FailedHigh,     \* failed tRFC entries beyond which the risk is HIGH (50)
    StuckHours,     \* age beyond which a RECORDED entry is stuck (24)
    QueuesHigh,     \* failed queues that make the risk HIGH (5)
    StaleHigh,      \* stale locks that make the risk HIGH (5)
    HeavyLocks,     \* locks of one user that are worth a look (5)
    KeepHours,      \* the usual life of a spool request (7 * 24)
    AgedHigh,       \* aged spool requests that may go unmentioned (100)
    OutputsHigh,    \* failed outputs that make the risk HIGH (10)
    NoAge           \* the age of what cannot be dated

ASSUME LimitsAssumption ==
    {FailedHigh, StuckHours, QueuesHigh, StaleHigh, HeavyLocks,
     KeepHours, AgedHigh, OutputsHigh} \subseteq Nat

ASSUME NoAgeAssumption == NoAge \in Int /\ NoAge < 0

FailedStates == {"CPICERR", "SYSFAIL"}
HeldStates == {"STOP", "NOSEND"}
FailedOutput == {"E", "A", "B", "T"}

\* The first of the entries that are not executed and oldest, if there is one.
OldestOpen(rows) ==
    LET open == {i \in DOMAIN rows : rows[i].state # "EXECUTED" /\ rows[i].age # NoAge}
    IN {i \in open : \A j \in open : rows[j].age < rows[i].age
                                        \/ (rows[j].age = rows[i].age /\ i <= j)}

\* The detail of the report is its oldest_unprocessed, none or one.
Trfc(a, got) ==
    Given("ARFCSSTATE", got,
        LET rows == Rows("ARFCSSTATE", got)
            failed == {i \in DOMAIN rows : rows[i].state \in FailedStates}
            oldest == {rows[i] : i \in OldestOpen(rows)}
            stuck == \E e \in oldest : e.state = "RECORDED" /\ e.age > StuckHours
            risk == IF Cardinality(failed) > FailedHigh \/ stuck THEN "HIGH"
                    ELSE IF failed # {} THEN "MEDIUM" ELSE "LOW"
        IN Said(risk, Cardinality(failed), Sizes({"ARFCSSTATE"}, got), oldest))

\* Faulty variant: a queue that is held is not looked at any further.
FailedQueuesNotHeld(t, got) ==
    LET rows == Rows(t, got)
        states(q) == {rows[i].state : i \in {j \in DOMAIN rows : rows[j].queue = q}}
    IN {q \in {rows[i].queue : i \in DOMAIN rows} :
            states(q) \cap FailedStates # {} /\ states(q) \cap HeldStates = {}}

\* A queue is failed if one of its entries is, whatever else it holds.
FailedQueues(t, got) ==
    LET rows == Rows(t, got)
    IN {rows[i].queue : i \in {j \in DOMAIN rows : rows[j].state \in FailedStates}}

\* One direction after the other.  A direction that could not be read is left
\* out of the count; partial says that there is one.
Qrfc(a, got) ==
    LET asked == CASE a.filter = "both" -> {"TRFCQOUT", "TRFCQIN"}
                   [] a.filter = "outbound" -> {"TRFCQOUT"}
                   [] a.filter = "inbound" -> {"TRFCQIN"}
                   [] OTHER -> {}
        came == {t \in asked : Came(t, got)}
        failed == UNION {{t} \X FailedQueues(t, got) : t \in came}
        count == Cardinality(failed)
        risk == IF count >= QueuesHigh THEN "HIGH"
                ELSE IF count > 0 THEN "MEDIUM" ELSE "LOW"
    IN IF asked = {} THEN Error
       ELSE After(asked \cap {"TRFCQOUT"}, got,
            After(asked, got, Said(risk, count, Sizes(came, got), asked \ came)))

\* Faulty variant: a lock of unknown age is stale.
StaleOrUndated(rows, hours) ==
    {i \in DOMAIN rows : rows[i].age >= hours \/ rows[i].age = NoAge}

\* "(e['age_hours'] or 0) >= stale_hours", and stale_hours is at least 1.
Stale(rows, hours) == {i \in DOMAIN rows : rows[i].age # NoAge /\ rows[i].age >= hours}

\* The users with many locks.
Heavy(rows) ==
    {u \in {rows[i].owner : i \in DOMAIN rows} :
        Cardinality({i \in DOMAIN rows : rows[i].owner = u}) >= HeavyLocks}

\* SAP is not asked for fewer locks; the list is cut when it has arrived.
Locks(a, got) ==
    Given("ENQ", got,
        LET rows == First(Rows("ENQ", got), a.cap)
            stale == Stale(rows, a.hours)
            heavy == Heavy(rows)
            risk == IF stale = {} /\ heavy = {} THEN "LOW"
                    ELSE IF Cardinality(stale) >= StaleHigh THEN "HIGH" ELSE "MEDIUM"
        IN Said(risk, Cardinality(stale), [t \in {"ENQ"} |-> Len(rows)], heavy))

Aged(rows) == {i \in DOMAIN rows : rows[i].age > KeepHours /\ ~rows[i].deleted}

\* Faulty variant: what was not read is told to be available, with no rows.
AlwaysAvailable(got) == {"TSP01", "TSP02"}

\* Outputs are available if TSP02 was read.
Available(got) == {t \in {"TSP01", "TSP02"} : Came(t, got)}

\* First the requests; without them there is no report.  Then the outputs.
Spool(a, got) ==
    Given("TSP01", got,
    After({"TSP02"}, got,
        LET outputs == Rows("TSP02", got)
            failed == {i \in DOMAIN outputs : outputs[i] \in FailedOutput}
            aged == Aged(Rows("TSP01", got))
            risk == IF failed = {} /\ Cardinality(aged) <= AgedHigh THEN "LOW"
                    ELSE IF Cardinality(failed) >= OutputsHigh THEN "HIGH" ELSE "MEDIUM"
        IN Said(risk, Cardinality(failed), Sizes(Available(got), got), Cardinality(aged))))
=============================================================================
