----------------------------- MODULE BasisTools -----------------------------
(***************************************************************************)
(* Calls of the tools of BacklogTools and SystemTools, one at a time, against  *)
(* a SAP system that changes between any two reads.  A tool is suspended      *)
(* while a read is under way; reads it gathers end in any order; each ends    *)
(* with as many rows as it may have, or badly.                               *)
(***************************************************************************)
EXTENDS BacklogTools, SystemTools

CONSTANTS
    Asks,           \* tool calls: tool, cap (max_rows), hours, filter
    FixedCap,       \* the limit of a read that is not an argument (10 to 1000)
    Held(_, _)      \* what SAP may hold of a table for a tool that reads it

Tools ==
    {"get_trfc_queue_status", "get_qrfc_queue_status", "get_lock_entries",
     "get_spool_status", "get_background_jobs", "get_client_settings",
     "check_snc_configuration", "get_instance_status", "get_syslog_critical",
     "check_update_errors", "get_work_process_status", "get_response_time_analysis",
     "get_memory_usage", "analyze_buffer_performance", "get_database_performance",
     "get_parameter_recommendations", "get_task_lists", "get_task_list_details",
     "get_task_list_runs"}

\* What the tools read: tables, function modules, and PAHI parameter by parameter.
Tables ==
    {"ARFCSSTATE", "TRFCQOUT", "TRFCQIN", "ENQ", "TSP01", "TSP02", "TBTCO", "T000",
     "PAHI", "RFC_SYSTEM_INFO", "TREE_NODES", "MSG_LINE_DATA", "VBHDR", "WPLIST",
     "DBSTATC", "STC_SCN_HDR", "STC_SCN_HDR_T", "STC_SCN_TASKS", "STC_BASSCN_HDR_T",
     "STC_SCN_ATTR", "STC_TEMPLATE", "STC_SESSION"}
        \cup {Parameters[i] : i \in DOMAIN Parameters}

ASSUME AskAssumption ==
    Asks \subseteq [tool : Tools, cap : Nat, hours : Nat, filter : STRING]

ASSUME NoneAssumption == None \notin Asks

ASSUME ParametersAssumption ==
    FixedCap \in Nat /\ IsSequence(Parameters)

\* Rows come in a list; no age is below that of what cannot be dated.
ASSUME HeldAssumption ==
    \A tool \in Tools, t \in Tables : \A full \in Held(tool, t) :
        /\ IsSequence(full)
        /\ t \in {"ARFCSSTATE", "ENQ", "TSP01"} =>
                \A i \in DOMAIN full : full[i].age \in Int /\ full[i].age >= NoAge

VARIABLES
    call,           \* the call that was made last
    got,            \* the answers it has got
    report          \* its report, None while it is under way

vars == <<call, got, report>>

Tool(a, g) ==
    CASE a.tool = "get_trfc_queue_status" -> Trfc(a, g)
      [] a.tool = "get_qrfc_queue_status" -> Qrfc(a, g)
      [] a.tool = "get_lock_entries" -> Locks(a, g)
      [] a.tool = "get_spool_status" -> Spool(a, g)
      [] a.tool = "get_background_jobs" -> Jobs(a, g)
      [] a.tool = "get_client_settings" -> Clients(a, g)
      [] a.tool = "check_snc_configuration" -> Snc(a, g)
      [] a.tool = "get_instance_status" -> Instances(a, g)
      [] a.tool = "get_syslog_critical" -> Syslog(a, g)
      [] a.tool = "check_update_errors" -> Updates(a, g)
      [] a.tool = "get_work_process_status" -> WorkProcesses(a, g)
      [] a.tool = "get_response_time_analysis" -> ResponseTimes(a, g)
      [] a.tool = "get_memory_usage" -> Memory(a, g)
      [] a.tool = "analyze_buffer_performance" -> Buffers(a, g)
      [] a.tool = "get_database_performance" -> Database(a, g)
      [] a.tool = "get_parameter_recommendations" -> ParameterAdvice(a, g)
      [] a.tool = "get_task_lists" -> TaskLists(a, g)
      [] a.tool = "get_task_list_details" -> TaskListDetails(a, g)
      [] a.tool = "get_task_list_runs" -> TaskListRuns(a, g)

Step == Tool(call, got)

\* The condition of a read.  The window of the queues and the spool is a date
\* or a timestamp; a row whose time cannot be parsed is in it.
StatusOf == [active |-> "R", finished |-> "F", cancelled |-> "A",
             success |-> "10", warning |-> "11", error |-> "12", running |-> "02"]

Matches(t, row) ==
    CASE t \in {"ARFCSSTATE", "TSP01"} -> row.age <= call.hours
      [] t \in {"TBTCO", "STC_SESSION"} ->
            call.filter \in DOMAIN StatusOf => row = StatusOf[call.filter]
      [] t = "VBHDR" -> call.filter = "completed" \/ row = "E"
      [] t = "MSG_LINE_DATA" ->
            \E i \in DOMAIN Rows("TREE_NODES", got) : Rows("TREE_NODES", got)[i] = row.area
      [] OTHER -> TRUE

\* What a table read may return at most; a function module returns it all.
Batched == {"TREE_NODES", "MSG_LINE_DATA"}
Unlimited == {"ENQ", "WPLIST", "RFC_SYSTEM_INFO"} \cup Batched
Asked == {"ARFCSSTATE", "TRFCQOUT", "TRFCQIN", "TSP01", "TSP02", "TBTCO"}

Arriving(t, full) ==
    IF t \in Unlimited THEN full ELSE First(full, IF t \in Asked THEN call.cap ELSE FixedCap)

\* Faulty variant: the rows that came before a failure are kept.
ReceivedInPart(t, end, full) == Arriving(t, full)

\* A helper of a tool turns a failure into no rows and a flag.
Received(t, end, full) == IF end = "answered" THEN Arriving(t, full) ELSE <<>>

Init == call = None /\ got = <<>> /\ report = None

Ask(a) ==
    /\ call = None \/ report # None
    /\ call' = a /\ got' = <<>> /\ report' = None

Busy == call # None /\ report = None

\* SAP holds rows of which the condition of the read keeps every one.  Only a
\* batch is told of an HTTP error as a value.
EndRead(t, end) ==
    /\ Busy /\ t \in Step.read
    /\ end = "refused" => t \in Batched
    /\ \E full \in Held(call.tool, t) :
        LET answer == [end |-> end, full |-> full, rows |-> Received(t, end, full)] IN
        /\ \A i \in DOMAIN full : Matches(t, full[i])
        /\ got' = [u \in DOMAIN got \cup {t} |-> IF u = t THEN answer ELSE got[u]]
    /\ UNCHANGED <<call, report>>

Answer ==
    /\ Busy /\ Step.read = {}
    /\ report' = Step.report
    /\ UNCHANGED <<call, got>>

Next ==
    \/ \E a \in Asks : Ask(a)
    \/ Busy /\ \E t \in Step.read, end \in Ends : EndRead(t, end)
    \/ Answer

Spec == Init /\ [][Next]_vars

----------------------------------------------------------------------------
(* What SAP had for the call, row by row, whatever the tool made of it.      *)

Full(t) == IF t \in DOMAIN got THEN got[t].full ELSE <<>>
Those(t, S) == {i \in DOMAIN Full(t) : Full(t)[i] \in S}
Failed(t) == {i \in DOMAIN Full(t) : Full(t)[i].state \in FailedStates}
Stuck == {i \in DOMAIN Full("ARFCSSTATE") :
            Full("ARFCSSTATE")[i].state = "RECORDED" /\ Full("ARFCSSTATE")[i].age > StuckHours}
FailedQ == UNION {{t} \X {Full(t)[i].queue : i \in Failed(t)} : t \in {"TRFCQOUT", "TRFCQIN"}}
OldLocks == {i \in DOMAIN Full("ENQ") : Full("ENQ")[i].age >= call.hours}
Hoarded == {u \in {Full("ENQ")[i].owner : i \in DOMAIN Full("ENQ")} :
                Cardinality({i \in DOMAIN Full("ENQ") : Full("ENQ")[i].owner = u}) >= HeavyLocks}
BadOutputs == Those("TSP02", FailedOutput)
OldRequests == {i \in DOMAIN Full("TSP01") :
                    Full("TSP01")[i].age > KeepHours /\ ~Full("TSP01")[i].deleted}
OpenClients == {i \in DOMAIN Full("T000") :
                    \/ Full("T000")[i].cross = "0"
                    \/ Full("T000")[i].category = "P" /\ Full("T000")[i].changes # "1"}
Encrypted == \E i \in DOMAIN Full("PAHI") :
                Full("PAHI")[i].name = "snc/enable" /\ Full("PAHI")[i].value = "1"

\* What a reader of the report can see of a table: that it was read, and that
\* no more than its limit arrived.
LimitOf(t) == IF t \in Asked \cup {"ENQ"} THEN call.cap ELSE FixedCap
ToldWhole(t) == t \in DOMAIN report.total
                    /\ (t \in Unlimited \ {"ENQ"} \/ report.total[t] < LimitOf(t))
Done == call # None /\ report # None
AllToldWhole == \A t \in DOMAIN got : ToldWhole(t)

----------------------------------------------------------------------------
\* Every variable holds what the code can put there.
TypeOK ==
    /\ call \in Asks \cup {None}
    /\ \A t \in DOMAIN got :
        /\ got[t].end \in Ends
        /\ Len(got[t].rows) <= Len(got[t].full)
        /\ got[t].end # "answered" => got[t].rows = <<>>
    /\ Done => /\ report.error \in BOOLEAN
               /\ report.risk \in {"none", "LOW", "MEDIUM", "HIGH"}
               /\ report.count \in Nat
               /\ DOMAIN report.total \subseteq DOMAIN got

\* A risk of LOW is safe to act on: if the report tells that every table was
\* read and was not cut, SAP had nothing the tool looks for.  A tRFC entry that
\* is stuck in RECORDED may hide behind an older one, which the report names.
LowIsClear ==
    Done /\ report.risk = "LOW" /\ AllToldWhole =>
        CASE call.tool = "get_trfc_queue_status" ->
                /\ Failed("ARFCSSTATE") = {}
                /\ Stuck # {} => \E e \in report.detail : e.state # "RECORDED" /\
                        \A i \in Stuck : e.age >= Full("ARFCSSTATE")[i].age
          [] call.tool = "get_qrfc_queue_status" -> FailedQ = {}
          [] call.tool = "get_lock_entries" -> OldLocks = {} /\ Hoarded = {}
          [] call.tool = "get_spool_status" ->
                BadOutputs = {} /\ Cardinality(OldRequests) <= AgedHigh
          [] call.tool = "get_client_settings" -> OpenClients = {}
          [] call.tool = "check_snc_configuration" -> Encrypted

\* An alarm has its cause in SAP, however the reads were cut or failed; HIGH has
\* one of the size the tool calls high.
AlarmHasCause ==
    Done /\ report.risk \in {"MEDIUM", "HIGH"} =>
        CASE call.tool = "get_trfc_queue_status" ->
                IF report.risk = "HIGH"
                THEN Cardinality(Failed("ARFCSSTATE")) > FailedHigh \/ Stuck # {}
                ELSE Failed("ARFCSSTATE") # {}
          [] call.tool = "get_qrfc_queue_status" ->
                Cardinality(FailedQ) >= IF report.risk = "HIGH" THEN QueuesHigh ELSE 1
          [] call.tool = "get_lock_entries" ->
                IF report.risk = "HIGH" THEN Cardinality(OldLocks) >= StaleHigh
                ELSE OldLocks # {} \/ Hoarded # {}
          [] call.tool = "get_spool_status" ->
                IF report.risk = "HIGH" THEN Cardinality(BadOutputs) >= OutputsHigh
                ELSE BadOutputs # {} \/ Cardinality(OldRequests) > AgedHigh
          [] call.tool = "get_client_settings" -> OpenClients # {}
          [] call.tool = "check_snc_configuration" -> AllToldWhole => ~Encrypted

\* The tools whose report counts something SAP has.  get_client_settings counts
\* its own findings, the other two nothing.
Counting == Tools \ {"get_client_settings", "check_snc_configuration", "get_instance_status"}

\* The tools that count over rows of a table of which the report tells nothing.
Silent == {"get_parameter_recommendations", "get_task_lists", "get_task_list_details"}

\* What SAP had of what the tool counts.
Newest(p) == IF Full(p) = <<>> THEN Empty ELSE Full(p)[Len(Full(p))]
TrueCount ==
    CASE call.tool = "get_trfc_queue_status" -> Cardinality(Failed("ARFCSSTATE"))
      [] call.tool = "get_qrfc_queue_status" -> Cardinality(FailedQ)
      [] call.tool = "get_lock_entries" -> Cardinality(OldLocks)
      [] call.tool = "get_spool_status" -> Cardinality(BadOutputs)
      [] call.tool = "get_background_jobs" -> Cardinality(Those("TBTCO", {"A"}))
      [] call.tool = "get_syslog_critical" ->
            Cardinality({i \in DOMAIN Full("MSG_LINE_DATA") :
                            Full("MSG_LINE_DATA")[i].severity = "error"})
      [] call.tool = "check_update_errors" -> Cardinality(Those("VBHDR", {"E"}))
      [] call.tool = "get_work_process_status" ->
            Cardinality(Those("WPLIST", {"Hold", "Stopped"}))
      [] call.tool \in {"get_response_time_analysis", "get_memory_usage",
                        "analyze_buffer_performance"} ->
            Cardinality(Those("WPLIST", {"Run", "Running"}))
      [] call.tool = "get_parameter_recommendations" ->
            Cardinality({p \in {Parameters[i] : i \in DOMAIN Parameters} :
                /\ call.filter \in {"all", Advice[p].category}
                /\ Newest(p) \notin {NoNumber, Empty} /\ ~Complies(Newest(p), Advice[p])})
      [] call.tool = "get_database_performance" -> Len(Full("DBSTATC"))
      [] call.tool = "get_task_lists" ->
            Cardinality(Those("STC_SCN_TASKS",
                {Full("STC_SCN_HDR")[i] : i \in DOMAIN Full("STC_SCN_HDR")}))
      [] call.tool = "get_task_list_details" -> Len(Full("STC_SCN_TASKS"))
      [] call.tool = "get_task_list_runs" -> Cardinality(Those("STC_SESSION", {"12"}))

\* The report tells that what is counted was read whole.  Of the names of the
\* task lists, which are not counted, get_task_list_runs tells nothing.
CountedWhole ==
    \A t \in DOMAIN got :
        ToldWhole(t) \/ (call.tool = "get_task_list_runs" /\ t = "STC_SCN_HDR_T")

ReadWhole == \A t \in DOMAIN got : got[t].rows = Full(t)

\* The counts of the sixteen tools that count rows of SAP.  None is too high,
\* and one is too low only where the report shows that something is missing: an
\* error, a table that it does not tell was read, or one with as many rows as it
\* may have.  Three counts are weaker.  Those of the tasks of task lists are too
\* low with nothing to show it if the read of the tasks was cut or failed: they
\* are right if every row came.  So is the one of parameters, which may also be
\* too high: of a history longer than one read the newest value is not seen.
CountIsTrue ==
    Done /\ ~report.error /\ call.tool \in Counting =>
        /\ call.tool # "get_parameter_recommendations" => report.count <= TrueCount
        /\ (IF call.tool \in Silent THEN ReadWhole ELSE CountedWhole) => report.count = TrueCount
=============================================================================
