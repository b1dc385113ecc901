---------------------------- MODULE MCBasisTools ----------------------------
(* A small instance of BasisTools for TLC.                                  *)
EXTENDS BasisTools, TLC

Never == -5

UpTo(n, S) == UNION {[1..k -> S] : k \in 0..n}

Asking(tools, caps, hours, filters) ==
    [tool : tools, cap : caps, hours : hours, filter : filters]

SmallAsks ==
    UNION {
        Asking({"get_trfc_queue_status"}, {2, 4}, {1, 3}, {"all"}),
        Asking({"get_qrfc_queue_status"}, {1, 3}, {0}, {"both", "outbound", "inbound", "sideways"}),
        Asking({"get_lock_entries"}, {2, 4}, {1, 2}, {"all"}),
        Asking({"get_spool_status"}, {2, 4}, {1, 3}, {"all"}),
        Asking({"get_background_jobs"}, {1, 3}, {0}, {"all", "finished", "cancelled"}),
        Asking({"get_client_settings", "check_snc_configuration", "get_instance_status",
                "get_work_process_status", "get_response_time_analysis", "get_memory_usage",
                "analyze_buffer_performance", "get_database_performance",
                "get_task_lists", "get_task_list_details"}, {0}, {0}, {"all"}),
        Asking({"get_syslog_critical"}, {0}, {0}, {"all", "warning"}),
        Asking({"check_update_errors"}, {0}, {0}, {"all", "completed"}),
        Asking({"get_parameter_recommendations"}, {0}, {0}, {"all", "security"}),
        Asking({"get_task_list_runs"}, {0}, {0}, {"all", "success", "error"})}

TwoParameters == <<"login/min_password_lng", "rdisp/max_wprun_time">>
TwoAdvices ==
    "login/min_password_lng" :> [best |-> 8, comparison |-> "gte", category |-> "security"] @@
    "rdisp/max_wprun_time" :> [best |-> 600, comparison |-> "lte", category |-> "performance"]

Entry(s, h) == [state |-> s, age |-> h]
Queued(q, s) == [queue |-> q, state |-> s]
Lock(u, h) == [owner |-> u, age |-> h]
Client(c, k, x) == [category |-> c, changes |-> k, cross |-> x]

\* A few rows of each table: one of each kind a tool tells apart, with ages on
\* both sides of every limit.
SmallHeld(tool, t) ==
    CASE t = "ARFCSSTATE" -> UpTo(3, {Entry("EXECUTED", 3), Entry("SYSFAIL", -1), Entry("RECORDED", 1),
                                      Entry("RECORDED", 2), Entry("RECORDED", NoAge), Entry("SENDED", 3)})
      [] t \in {"TRFCQOUT", "TRFCQIN"} ->
            UpTo(3, {Queued("q1", "STOP"), Queued("q1", "SYSFAIL"), Queued("q2", "CPICERR"), Queued("q2", "READY")})
      [] t = "ENQ" -> UpTo(3, {Lock("u1", -1), Lock("u1", 1), Lock("u1", NoAge), Lock("u2", 2), Lock("u2", NoAge)})
      [] t = "TSP01" -> UpTo(3, [age : {-1, 2}, deleted : BOOLEAN])
      [] t = "TSP02" -> UpTo(3, {"E", "T", "C"})
      [] t = "TBTCO" -> UpTo(4, {"A", "F", "R"})
      [] t = "T000" -> UpTo(3, {Client("P", "1", "1"), Client("P", "2", "1"), Client("T", "2", "1"), Client("P", "2", "0")})
      [] t = "PAHI" -> UpTo(3, {[name |-> "snc/enable", value |-> "0"], [name |-> "snc/enable", value |-> "1"],
                                [name |-> "snc/data_protection/min", value |-> "1"]})
      [] t = "RFC_SYSTEM_INFO" -> {<<"instance">>}
      [] t = "TREE_NODES" -> {<<>>, <<"Security">>, <<"Security", "Database">>}
      [] t = "MSG_LINE_DATA" -> UpTo(3, [area : {"Security", "Database"}, severity : {"error", "info"}])
      [] t = "VBHDR" -> UpTo(3, {"E", "I", "V"})
      [] t = "WPLIST" -> UpTo(3, {"Run", "Wait", "Hold", "Stopped"})
      [] t = "DBSTATC" -> UpTo(3, {"MARA"})
      [] t \in {"login/min_password_lng", "rdisp/max_wprun_time"} -> UpTo(3, {6, 900, NoNumber, Empty})
      [] t = "STC_SCN_HDR" -> {<<>>, <<"L1">>, <<"L1", "L2">>}
      [] t = "STC_SCN_TASKS" ->
            IF tool = "get_task_lists" THEN UpTo(3, {"L1", "L2", "L3"}) ELSE UpTo(3, {10, 20, NoNumber})
      [] t = "STC_SESSION" -> UpTo(3, {"02", "10", "12"})
      [] OTHER -> {<<>>}
=============================================================================
