--------------------------- MODULE HealthSummary ---------------------------
(***************************************************************************)
(* The tool get_system_health_summary, src/tools/basis/monitoring.py: one    *)
(* coroutine that asks SAP four times over the bridge and folds the answers  *)
(* into one verdict, while SAP goes on changing.                             *)
(*                                                                         *)
(* A request ends in one of four ways (src/connectors/jco_connector.py and   *)
(* the HTTP client it uses): it is answered; it is refused with an HTTP       *)
(* error; it fails with an exception that has a message; or it times out,    *)
(* and the exception of the HTTP client has none.  Rows are reduced to what   *)
(* the verdict looks for.                                                   *)
(***************************************************************************)
EXTENDS FiniteSets

CONSTANTS
    Areas,          \* R3Syslog message logs the CCMS tree may hold
    Outcomes        \* how a request may end

ASSUME OutcomeAssumption ==
    /\ "answered" \in Outcomes
    /\ Outcomes \subseteq {"answered", "refused", "failed", "timed_out"}

\* In the job table: no cancelled job, one among the first 500 rows, or one
\* behind them, where the read does not reach.
Jobs == {"clean", "cancelled", "beyond"}
Systems == [jobs : Jobs, tree : SUBSET Areas, errors : SUBSET Areas]

VARIABLES
    sap,            \* what SAP would answer now
    pc,             \* which of the tool's awaits is next, "idle" between calls
    instances, jobs, syslog,    \* components["instances"], ["jobs"], ["syslog"]
    areas,          \* the nodes of the tree that was read
    health,         \* the verdict, None until the call returns
    unread,         \* components whose data did not arrive (history)
    problems        \* what SAP did show when it was asked (history)

locals == <<instances, jobs, syslog, areas>>
vars == <<sap, pc, locals, health, unread, problems>>

----------------------------------------------------------------------------
(* What the program makes of the end of a request.                          *)

\* _safe_rfc_call and _safe_table_read return a flag.
Flag(o) == o # "answered"

\* _syslog_severity_counts returns a reason: none, a text, or the text of the
\* exception, which may be empty.
Reason(o) ==
    CASE o = "answered" -> "none"
      [] o \in {"refused", "failed"} -> "text"
      [] o = "timed_out" -> "empty"

\* "if syslog_err:" is false of None and of an empty text.
Truthy(reason) == reason = "text"

\* Faulty variant: a cancelled job is a warning even if the log was not read.
WorstOf(i, j, s) ==
    IF j = "cancelled" \/ s = "errors" THEN "WARNING"
    ELSE IF "unavailable" \in {i, j, s} THEN "UNKNOWN" ELSE "OK"

\* The branch for CRITICAL needs an instance that is down, and the one instance
\* the tool reports is the one that has just answered.
Health(i, j, s) ==
    IF "unavailable" \in {i, j, s} THEN "UNKNOWN"
    ELSE IF j = "cancelled" \/ s = "errors" THEN "WARNING" ELSE "OK"

Init ==
    /\ sap \in Systems
    /\ pc = "idle"
    /\ instances = "unread" /\ jobs = "unread" /\ syslog = "unread"
    /\ areas = {}
    /\ health = "none"
    /\ unread = {} /\ problems = {}

Call ==
    /\ pc = "idle"
    /\ pc' = "instances"
    /\ instances' = "unread" /\ jobs' = "unread" /\ syslog' = "unread"
    /\ areas' = {}
    /\ health' = "none"
    /\ unread' = {} /\ problems' = {}
    /\ UNCHANGED sap

ReadInstances(o) ==
    /\ pc = "instances"
    /\ pc' = "jobs"
    /\ instances' = IF Flag(o) THEN "unavailable" ELSE "available"
    /\ unread' = unread \cup (IF o = "answered" THEN {} ELSE {"instances"})
    /\ UNCHANGED <<sap, jobs, syslog, areas, health, problems>>

ReadJobs(o) ==
    /\ pc = "jobs"
    /\ pc' = "tree"
    /\ jobs' = IF Flag(o) THEN "unavailable"
               ELSE IF sap.jobs = "cancelled" THEN "cancelled" ELSE "clean"
    /\ IF o = "answered"
       THEN /\ problems' = problems \cup ({sap.jobs} \cap {"cancelled"})
            /\ UNCHANGED unread
       ELSE unread' = unread \cup {"jobs"} /\ UNCHANGED problems
    /\ UNCHANGED <<sap, instances, syslog, areas, health>>

\* Faulty variant: a log without entries counts as one that was not read.
ReturnIfEntries(reason, log) ==
    /\ pc' = "idle"
    /\ syslog' = IF Truthy(reason) \/ log = "clean" THEN "unavailable" ELSE log
    /\ health' = Health(instances, jobs, syslog')
    /\ UNCHANGED <<sap, instances, jobs>>

\* The last answer is in, and the call returns.
Return(reason, log) ==
    /\ pc' = "idle"
    /\ syslog' = IF Truthy(reason) THEN "unavailable" ELSE log
    /\ health' = Health(instances, jobs, syslog')
    /\ UNCHANGED <<sap, instances, jobs>>

\* Faulty variant: a tree without logs is taken for one with logs.
ReadTreeAnyway(o) ==
    /\ pc = "tree"
    /\ UNCHANGED problems
    /\ \/ /\ o = "answered"
          /\ areas' = sap.tree
          /\ pc' = "history"
          /\ UNCHANGED <<sap, instances, jobs, syslog, health, unread>>
       \/ /\ o # "answered"
          /\ Return(Reason(o), "clean")
          /\ unread' = unread \cup {"syslog"}
          /\ UNCHANGED areas

\* Without a tree, or without a log in it, there is a reason and no count.
ReadTree(o) ==
    /\ pc = "tree"
    /\ UNCHANGED problems
    /\ \/ /\ o = "answered" /\ sap.tree # {}
          /\ areas' = sap.tree
          /\ pc' = "history"
          /\ UNCHANGED <<sap, instances, jobs, syslog, health, unread>>
       \/ /\ o = "answered" /\ sap.tree = {}
          /\ Return("text", "clean")
          /\ unread' = unread \cup {"syslog"}
          /\ UNCHANGED areas
       \/ /\ o # "answered"
          /\ Return(Reason(o), "clean")
          /\ unread' = unread \cup {"syslog"}
          /\ UNCHANGED areas

\* Faulty variant: the logs of the first area are counted and no others.
ReadFirstHistory(o) ==
    /\ pc = "history"
    /\ LET found == sap.errors \cap areas
           first == {CHOOSE a \in areas : TRUE} IN
        /\ Return(Reason(o), IF o = "answered" /\ found \cap first # {} THEN "errors" ELSE "clean")
        /\ problems' = problems \cup
                (IF o = "answered" /\ found # {} THEN {"errors"} ELSE {})
    /\ unread' = unread \cup (IF o = "answered" THEN {} ELSE {"syslog"})
    /\ UNCHANGED areas

\* One batch reads the log of every area the tree named.
ReadHistory(o) ==
    /\ pc = "history"
    /\ LET found == o = "answered" /\ sap.errors \cap areas # {} IN
        /\ Return(Reason(o), IF found THEN "errors" ELSE "clean")
        /\ problems' = problems \cup (IF found THEN {"errors"} ELSE {})
    /\ unread' = unread \cup (IF o = "answered" THEN {} ELSE {"syslog"})
    /\ UNCHANGED areas

\* Jobs end, logs fill and monitoring nodes come and go between two requests.
SapChanges ==
    /\ sap' \in Systems
    /\ UNCHANGED <<pc, locals, health, unread, problems>>

Next ==
    \/ Call
    \/ \E o \in Outcomes :
        ReadInstances(o) \/ ReadJobs(o) \/ ReadTree(o) \/ ReadHistory(o)
    \/ SapChanges

Spec == Init /\ [][Next]_vars

----------------------------------------------------------------------------
\* Every variable holds what the code can put there.
TypeOK ==
    /\ sap \in Systems
    /\ pc \in {"idle", "instances", "jobs", "tree", "history"}
    /\ instances \in {"unread", "unavailable", "available"}
    /\ jobs \in {"unread", "unavailable", "cancelled", "clean"}
    /\ syslog \in {"unread", "unavailable", "errors", "clean"}
    /\ areas \subseteq Areas
    /\ pc = "history" => areas # {}
    /\ pc # "idle" => health = "none"
    /\ health \in {"none", "UNKNOWN", "WARNING", "OK"}
    /\ unread \subseteq {"instances", "jobs", "syslog"}
    /\ problems \subseteq {"cancelled", "errors"}

\* "A failed call is never counted as zero" (monitoring.py:116): a verdict
\* other than UNKNOWN is given only when each of the three components was read.
FailureIsUnknown == unread # {} => health \in {"none", "UNKNOWN"}

\* OK means that nothing SAP showed in any of the reads was a problem, and
\* WARNING that something was, however SAP moved between the reads.
VerdictIsSeen ==
    /\ health = "OK" => problems = {}
    /\ health = "WARNING" => problems # {}

\* A call whose every request was answered is not left without a verdict: it is
\* UNKNOWN only if something was not read.
UnknownIsUnread == health = "UNKNOWN" => unread # {}
============================================================================
