---------------------------- MODULE DumpSummary ----------------------------
(***************************************************************************)
(* The four tools on short dumps, src/tools/basis/dumps.py.  Each reads the  *)
(* rows of SNAP from a date on and makes claims about time of them: what      *)
(* happened in the last 24 hours, what is increasing.  Of a row it takes the  *)
(* date alone, a midnight, while "now" has a time.                           *)
(*                                                                         *)
(* Time is counted in ticks, PerDay of them a day; dumps go on being written  *)
(* and the clock goes on between the question, SAP's read and the answer.     *)
(* There are two clocks: now is the one of the host the tool runs on          *)
(* (datetime.now()), and SAP dates a dump by its own, which is ahead of it by   *)
(* any of Offsets, or behind if that is negative.  The code compares the two     *)
(* as they are.  That the offset changes (summer time) is left out.          *)
(* The thresholds are constants, so that small numbers reach them.           *)
(***************************************************************************)
EXTENDS Integers, Sequences, FiniteSets

CONSTANTS
    Errors, Programs,   \* error types and programs of the dumps
    Periods,            \* values of the argument "days"
    Half,               \* ticks of half a day
    Horizon,            \* bound on the clock
    Offsets,            \* ticks that SAP's clock may be ahead of the host's
    MaxDumps,           \* bound on the dumps written
    MaxRows,            \* rows a read of SNAP returns at most (10000)
    MinOccurrences,     \* argument of get_repeat_dumps
    Repeats,            \* more dumps of one error are a repetition (3)
    Few, Many,          \* at least Few dumps are MEDIUM (10), above Many HIGH (50)
    Burst,              \* more dumps of one error in 24 hours are CRITICAL (10)
    Enough              \* a spike takes more dumps than this (5)

ASSUME DumpAssumption ==
    /\ {Half, Horizon, MaxDumps, MinOccurrences, Repeats, Few, Many, Burst, Enough}
        \subseteq Nat
    /\ Offsets \subseteq Int
    /\ Periods \subseteq Nat
    /\ Half > 0 /\ Few > 0
    /\ MaxRows \in Nat /\ MaxRows >= Few

PerDay == 2 * Half
Tools == {"summary", "repeats", "program", "analysis"}
Risks == {"LOW", "MEDIUM", "HIGH", "CRITICAL"}
Trends == {"INCREASING", "DECREASING", "STABLE"}
Dumps == [at : Int, date : Int, error : Errors, program : Programs]
Questions == [tool : Tools, days : Periods, wanted : SUBSET Programs, at : Int, cutoff : Int]

VARIABLES
    now,            \* the host's time
    ahead,          \* how far SAP's clock is ahead of it
    dumps,          \* SNAP, in the order of writing
    pc,             \* "idle", "asked", "read" or "failed"
    question,       \* the call: its arguments, when it was made, the date in the WHERE
    rows,           \* the rows SAP answered with, as indices of dumps
    seen,           \* how many dumps there were when SAP read (history)
    report          \* the answer; .read says if SAP's read worked (history)

clock == <<now, ahead>>
vars == <<clock, dumps, pc, question, rows, seen, report>>

----------------------------------------------------------------------------
\* The midnight a day began at.
DayOf(time) == PerDay * (time \div PerDay)

(* What the tools compute of the rows.                                      *)

Count(S) == Cardinality(S)
Of(S, e) == {i \in S : dumps[i].error = e}

\* Faulty variant: the cutoff is rounded down to a date as well.
SinceDate(S) == {i \in S : dumps[i].date >= DayOf(now) - PerDay}

\* _last_24h_max_by_error and the spike compare midnights with a time of day.
LastDay(S) == {i \in S : dumps[i].date >= now - PerDay}

\* Faulty variant: the midpoint is rounded down to a date.
HalvesByDate(S, days) ==
    LET late == {i \in S : dumps[i].date >= DayOf(now) - PerDay * (days \div 2)} IN
    IF 5 * Count(late) > 6 * Count(S \ late) THEN "INCREASING"
    ELSE IF 5 * Count(S \ late) > 6 * Count(late) THEN "DECREASING" ELSE "STABLE"

\* The factor is 1.2, the midpoint days/2 days ago.
Trend(S, days) ==
    LET late == {i \in S : dumps[i].date >= now - days * Half} IN
    IF 5 * Count(late) > 6 * Count(S \ late) THEN "INCREASING"
    ELSE IF 5 * Count(S \ late) > 6 * Count(late) THEN "DECREASING" ELSE "STABLE"

Repeated(S) == \E e \in Errors : Count(Of(S, e)) > Repeats

Patterns(S) ==
    \E e \in Errors, p \in Programs :
        LET both == {i \in Of(S, e) : dumps[i].program = p} IN
        both # {} /\ Count(both) >= MinOccurrences

Risk(S, repeat) ==
    IF \E e \in Errors : Count(Of(LastDay(S), e)) > Burst THEN "CRITICAL"
    ELSE IF repeat \/ Count(S) > Many THEN "HIGH"
    ELSE IF Count(S) >= Few THEN "MEDIUM" ELSE "LOW"

Spike(S) == Count(S) > Enough /\ 5 * Count(LastDay(S)) > 3 * Count(S)

\* Counter.most_common: an error no other outnumbers.
Top(S) == {e \in Errors : \A f \in Errors : Count(Of(S, f)) <= Count(Of(S, e))}

Nothing == [kind |-> "none", risk |-> "LOW", healthy |-> FALSE, read |-> FALSE,
            trends |-> {}, spike |-> FALSE, named |-> {}, at |-> 0]

----------------------------------------------------------------------------
Init ==
    /\ now = 0 /\ ahead \in Offsets
    /\ dumps = <<>>
    /\ pc = "idle"
    /\ question \in [tool : {"summary"}, days : Periods, wanted : {{}}, at : {0}, cutoff : {0}]
    /\ rows = {} /\ seen = 0
    /\ report = Nothing

Tick ==
    /\ now < Horizon
    /\ now' = now + 1
    /\ UNCHANGED <<ahead, dumps, pc, question, rows, seen, report>>

\* SAP writes a dump, with its own date; at is the host's time of it (history).
Dump(e, p) ==
    /\ Len(dumps) < MaxDumps
    /\ dumps' = Append(dumps, [at |-> now, date |-> DayOf(now + ahead), error |-> e, program |-> p])
    /\ UNCHANGED <<clock, pc, question, rows, seen, report>>

\* _date_filter: the date of the moment that many days ago.  Only one of the tools
\* is about a program.
Ask(tool, days, wanted) ==
    /\ pc = "idle"
    /\ tool # "program" => wanted = {}
    /\ pc' = "asked"
    /\ question' = [tool |-> tool, days |-> days, wanted |-> wanted,
                    at |-> now, cutoff |-> DayOf(now - days * PerDay)]
    /\ report' = Nothing
    /\ UNCHANGED <<clock, dumps, rows, seen>>

\* Faulty variant: the first day of the period is left out.
AfterCutoff == {i \in DOMAIN dumps : dumps[i].date > question.cutoff}

Selected == {i \in DOMAIN dumps : dumps[i].date >= question.cutoff}

\* Faulty variant: the rows are not limited.
ReadAll ==
    /\ pc = "asked"
    /\ pc' = "read"
    /\ rows' = Selected
    /\ seen' = Len(dumps)
    /\ UNCHANGED <<clock, dumps, question, report>>

\* Of more than MaxRows rows SAP sends some MaxRows.
Read ==
    /\ pc = "asked"
    /\ pc' = "read"
    /\ rows' \in SUBSET Selected
    /\ rows' = Selected \/ Count(Selected) > MaxRows
    /\ Count(rows') = IF Count(Selected) > MaxRows THEN MaxRows ELSE Count(Selected)
    /\ seen' = Len(dumps)
    /\ UNCHANGED <<clock, dumps, question, report>>

\* _fetch_snap turns a failed read into no rows.
ReadFails ==
    /\ pc = "asked"
    /\ pc' = "failed"
    /\ rows' = {}
    /\ seen' = Len(dumps)
    /\ UNCHANGED <<clock, dumps, question, report>>

\* get_dumps_by_program goes on with the rows of the programs that match.
Kept == IF question.tool = "program"
        THEN {i \in rows : dumps[i].program \in question.wanted} ELSE rows

\* No row, for whatever reason: two of the tools call the system healthy.
ReportEmpty ==
    /\ pc \in {"read", "failed"} /\ Kept = {}
    /\ report' = [Nothing EXCEPT !.kind = "empty",
                                 !.healthy = question.tool \in {"summary", "analysis"},
                                 !.read = pc = "read", !.at = now]

TrendsOf(S) ==
    CASE question.tool = "summary" ->
            {[rows |-> Of(S, e), trend |-> Trend(Of(S, e), question.days)] :
                e \in {f \in Errors : Of(S, f) # {}}}
      [] question.tool = "program" -> {[rows |-> S, trend |-> Trend(S, question.days)]}
      [] OTHER -> {}

\* A CRITICAL summary names the most frequent error as the one with the burst.
ReportRows ==
    /\ pc = "read" /\ Kept # {}
    /\ \E top \in Top(Kept) :
        LET repeat == IF question.tool = "repeats" THEN Patterns(Kept) ELSE Repeated(Kept)
            risk == Risk(Kept, repeat) IN
        report' = [kind |-> "counted", risk |-> risk,
                   healthy |-> question.tool \in {"summary", "analysis"} /\ risk = "LOW",
                   read |-> TRUE, trends |-> TrendsOf(Kept),
                   spike |-> question.tool = "analysis" /\ Spike(Kept),
                   named |-> IF question.tool = "summary" /\ risk = "CRITICAL" THEN {top} ELSE {},
                   at |-> now]

Report ==
    /\ ReportEmpty \/ ReportRows
    /\ pc' = "idle"
    /\ UNCHANGED <<clock, dumps, question, rows, seen>>

Next ==
    \/ Tick
    \/ \E e \in Errors, p \in Programs : Dump(e, p)
    \/ \E tool \in Tools, days \in Periods, wanted \in SUBSET Programs : Ask(tool, days, wanted)
    \/ Read \/ ReadFails \/ Report

Spec == Init /\ [][Next]_vars

----------------------------------------------------------------------------
\* Every variable holds what the code can put there, and a read its limit.
TypeOK ==
    /\ now \in Nat /\ ahead \in Offsets
    /\ dumps \in Seq(Dumps)
    /\ pc \in {"idle", "asked", "read", "failed"}
    /\ question \in Questions
    /\ rows \subseteq DOMAIN dumps /\ Count(rows) <= MaxRows
    /\ seen \in 0..Len(dumps)
    /\ report.kind \in {"none", "empty", "counted"}
    /\ report.risk \in Risks
    /\ report.healthy \in BOOLEAN /\ report.read \in BOOLEAN /\ report.spike \in BOOLEAN
    /\ report.at \in Nat
    /\ report.named \subseteq Errors
    /\ \A t \in report.trends : t.rows \subseteq rows /\ t.trend \in Trends

\* The dumps of S that lie within 24 hours of the report, if SAP's clock is the
\* host's; if it is ahead by some hours, within 24 and as many hours.  Nothing in the
\* code takes the one clock to the other, so no claim can be closer than that.
Recent(S) == {i \in S : dumps[i].at >= report.at - PerDay - ahead}

\* What a report says of the last 24 hours is true of them, as far as SAP's clock
\* and the host's agree, whatever the hour it is made at and however long SAP took to
\* answer: CRITICAL takes a burst of one error within them, a spike that they hold
\* most of the dumps counted.
RecentClaims ==
    /\ report.risk = "CRITICAL" => \E e \in Errors : Count(Of(Recent(Kept), e)) > Burst
    /\ report.spike => 5 * Count(Recent(Kept)) > 3 * Count(Kept)

\* LOW, or that the system appears healthy, is said after a read only if fewer than
\* Few dumps were written in the days asked about, less the hours SAP's clock is
\* behind the host's: the date in the WHERE clause and the limit on the rows hide no
\* other.  A read that failed is left out (HealthyIsRead).
LowIsQuiet ==
    report.read /\ report.risk = "LOW" /\ question.tool # "program" =>
        Count({i \in 1..seen : dumps[i].at >= question.at - question.days * PerDay - ahead}) < Few

\* INCREASING is said only if the later half of the period has more dumps than
\* the earlier, although the dump's time of day is not looked at.  The later half is
\* longer by the hours that SAP's clock is ahead of the host's.
IncreasingIsTrue ==
    \A t \in report.trends : t.trend = "INCREASING" =>
        LET late == {i \in t.rows : dumps[i].at >= report.at - question.days * Half - ahead} IN
        5 * Count(late) > 6 * Count(t.rows \ late)

\* The rest is what the code says of itself and does not keep.

\* "has >10 dumps in the last 24 hours" (dumps.py:238): a burst that makes a report
\* CRITICAL is within 24 hours, in whatever zone SAP and the host are.
CriticalIsRecent ==
    report.risk = "CRITICAL" =>
        \E e \in Errors : Count({i \in Of(Kept, e) : dumps[i].at >= report.at - PerDay}) > Burst

\* "System appears healthy" (dumps.py:173) of so many days (dumps.py:170): those
\* days were quiet, in whatever zone SAP and the host are.
PeriodIsQuiet ==
    report.read /\ report.healthy =>
        Count({i \in 1..seen : dumps[i].at >= question.at - question.days * PerDay}) < Few

\* "Compare dump count in first half vs second half of period" (dumps.py:98): what
\* IncreasingIsTrue says, of DECREASING.
DecreasingIsTrue ==
    \A t \in report.trends : t.trend = "DECREASING" =>
        LET late == {i \in t.rows : dumps[i].at >= report.at - question.days * Half - ahead} IN
        5 * Count(t.rows \ late) > 6 * Count(late)

\* "Max count of any single error type in the last 24 hours" (dumps.py:129): a
\* burst in the rows that were read is reported.
BurstIsCritical ==
    report.kind = "counted" /\ (\E e \in Errors : Count(Of(Recent(Kept), e)) > Burst)
        => report.risk = "CRITICAL"

\* "<error> has >10 dumps in the last 24 hours" (dumps.py:238): the error a
\* CRITICAL summary names is one that has.
NamedHasBurst == \A e \in report.named : Count(Of(Recent(Kept), e)) > Burst

\* "Say plainly when a check returned no data rather than implying it passed"
\* (server.py:41): a system is called healthy only if its dumps were read.
HealthyIsRead == report.healthy => report.read
============================================================================
