---------------------------- MODULE DumpProofs ----------------------------
(***************************************************************************)
(* Proofs about DumpSummary: its types, and that what the tools claim of the  *)
(* last 24 hours, of an increase and of a quiet period is true up to the        *)
(* distance of SAP's clock and the host's, for any such distance, any number     *)
(* of dumps, any length of a day, any thresholds and any delay of the answer.     *)
(***************************************************************************)
EXTENDS DumpSummary, FiniteSetTheorems, TLAPS

\* While a call is under way there is nothing to report yet.
Pending == pc # "idle" => report = Nothing

\* A dump's date is not after SAP's time of it, and none is in the future.
Dated ==
    \A i \in DOMAIN dumps : dumps[i].date <= dumps[i].at + ahead /\ dumps[i].at <= now

Inv == TypeOK /\ Pending /\ Dated

\* A part of the rows is finite and has no more of them.
LEMMA Fewer ==
    ASSUME TypeOK, NEW S, NEW T, S \subseteq T, T \subseteq DOMAIN dumps
    PROVE  /\ Count(S) \in Nat /\ Count(T) \in Nat
           /\ Count(S) <= Count(T)
<1>1. Len(dumps) \in Nat /\ DOMAIN dumps = 1..Len(dumps)
  BY DEF TypeOK
<1>2. IsFiniteSet(1..Len(dumps))
  BY <1>1, FS_Interval
<1>3. IsFiniteSet(T)
  BY <1>1, <1>2, FS_Subset
<1>4. IsFiniteSet(S) /\ Cardinality(S) <= Cardinality(T)
  BY <1>3, FS_Subset
<1>5. Cardinality(S) \in Nat /\ Cardinality(T) \in Nat
  BY <1>3, <1>4, FS_CardinalityType
<1> QED
  BY <1>4, <1>5 DEF Count

\* The times of a dump are numbers.
LEMMA DumpTimes ==
    ASSUME TypeOK, NEW i \in DOMAIN dumps
    PROVE  dumps[i].at \in Int /\ dumps[i].date \in Int
<1>1. dumps[i] \in Dumps
  <2> HIDE DEF Dumps
  <2> QED BY DEF TypeOK
<1> QED
  BY <1>1 DEF Dumps

\* A day begins at a multiple of its length, and lasts as long.
IsMidnight(x) == \E k \in Int : x = k * PerDay

LEMMA DayBegins ==
    ASSUME NEW x \in Int
    PROVE  /\ DayOf(x) \in Int /\ IsMidnight(DayOf(x))
           /\ DayOf(x) <= x /\ x < DayOf(x) + PerDay
<1>1. PerDay \in Int /\ PerDay > 0
  BY DumpAssumption DEF PerDay
<1> HIDE DEF PerDay
<1> DEFINE q == x \div PerDay
           m == x % PerDay
           n == PerDay * q
<1>2. q \in Int /\ x = n + m /\ m \in 0..(PerDay - 1)
  BY <1>1
<1> HIDE DEF q, m
<1>3. n \in Int /\ n = q * PerDay
  BY <1>1, <1>2
<1> HIDE DEF n
<1>4. n <= x /\ x < n + PerDay
  BY <1>1, <1>2, <1>3
<1>5. IsMidnight(n)
  BY <1>2, <1>3 DEF IsMidnight
<1> QED BY <1>3, <1>4, <1>5 DEF DayOf, n, q

\* SAP's clock and the host's are a number of ticks apart.
LEMMA Apart == ASSUME TypeOK PROVE ahead \in Int /\ now \in Int /\ now + ahead \in Int
BY DumpAssumption DEF TypeOK

\* Every trend of a report is one of some of the rows the tool kept.
LEMMA TrendOfRows ==
    ASSUME NEW S, NEW t \in TrendsOf(S)
    PROVE  t.rows \subseteq S /\ t.trend = Trend(t.rows, question.days)
<1>1. CASE question.tool = "summary"
  <2>1. PICK e \in Errors : t = [rows |-> Of(S, e), trend |-> Trend(Of(S, e), question.days)]
    BY <1>1 DEF TrendsOf
  <2>2. Of(S, e) \subseteq S
    BY DEF Of
  <2> QED BY <2>1, <2>2
<1>2. CASE question.tool = "program"
  BY <1>2 DEF TrendsOf
<1>3. CASE question.tool # "summary" /\ question.tool # "program"
  BY <1>3 DEF TrendsOf
<1> QED
  BY <1>1, <1>2, <1>3

\* The tools compute one of the four risks and one of the three trends.
LEMMA Verdicts ==
    ASSUME NEW S, NEW r, NEW d
    PROVE  Risk(S, r) \in Risks /\ Trend(S, d) \in Trends /\ Spike(S) \in BOOLEAN
BY DEF Risk, Risks, Trend, Trends, Spike

\* What one step leaves behind, apart from the claims.
LEMMA InvStep == Inv /\ [Next]_vars => Inv'
<1> SUFFICES ASSUME Inv, [Next]_vars PROVE Inv'
  OBVIOUS
<1> USE DumpAssumption DEF clock
<1>1. CASE Tick
  <2>1. TypeOK'
    BY <1>1 DEF Inv, TypeOK, Tick, PerDay
  <2>2. \A i \in DOMAIN dumps : dumps[i].at \in Int
    BY DumpTimes DEF Inv
  <2>3. Dated'
    BY <1>1, <2>2, Apart DEF Inv, TypeOK, Dated, Tick
  <2>4. Pending'
    BY <1>1 DEF Inv, Pending, Tick, Nothing
  <2> QED BY <2>1, <2>3, <2>4 DEF Inv
<1>2. ASSUME NEW e \in Errors, NEW p \in Programs, Dump(e, p) PROVE Inv'
  <2> DEFINE d == [at |-> now, date |-> DayOf(now + ahead), error |-> e, program |-> p]
  <2>1. d \in Dumps /\ dumps' = Append(dumps, d)
    BY <1>2, Apart, DayBegins DEF Inv, TypeOK, Dump, Dumps
  <2>2. /\ dumps' \in Seq(Dumps) /\ Len(dumps') = Len(dumps) + 1
        /\ DOMAIN dumps \subseteq DOMAIN dumps'
        /\ \A i \in DOMAIN dumps' : i \in DOMAIN dumps \/ dumps'[i] = d
        /\ \A i \in DOMAIN dumps : dumps'[i] = dumps[i]
    <3> HIDE DEF d
    <3> QED BY <2>1 DEF Inv, TypeOK
  <2>3. TypeOK'
    BY <1>2, <2>2 DEF Inv, TypeOK, Dump, Count
  <2>4. Pending'
    BY <1>2 DEF Inv, Pending, Dump, Nothing
  <2>5. Dated'
    <3>1. d.at = now /\ d.date <= now + ahead
      BY Apart, DayBegins DEF Inv
    <3>2. now \in Int /\ UNCHANGED <<now, ahead>>
      BY <1>2, Apart DEF Inv, Dump
    <3> HIDE DEF d
    <3> QED BY <2>2, <3>1, <3>2 DEF Inv, Dated
  <2> QED BY <2>3, <2>4, <2>5 DEF Inv
<1>3. ASSUME NEW tool \in Tools, NEW days \in Periods, NEW wanted \in SUBSET Programs,
             Ask(tool, days, wanted)
      PROVE  Inv'
  <2>1. question' \in Questions
    <3>1. days \in Nat /\ PerDay \in Nat
      BY DEF PerDay
    <3>2. days * PerDay \in Int
      <4> HIDE DEF PerDay
      <4> QED BY <3>1
    <3>3. now \in Int /\ DayOf(now - days * PerDay) \in Int
      <4>1. now \in Int /\ now - days * PerDay \in Int
        BY <3>2, Apart DEF Inv
      <4> QED BY <4>1, DayBegins
    <3> QED BY <1>3, <3>3 DEF Ask, Questions
  <2>2. report' = Nothing
    BY <1>3 DEF Ask
  <2>3. TypeOK'
    BY <1>3, <2>1, <2>2 DEF Inv, TypeOK, Ask, Nothing, Risks
  <2>4. Pending' /\ Dated'
    BY <1>3, <2>2 DEF Inv, Pending, Dated, Ask, Nothing
  <2> QED BY <2>3, <2>4 DEF Inv
<1>4. CASE Read
  <2>1. rows' \subseteq DOMAIN dumps /\ seen' \in 0..Len(dumps)
    BY <1>4 DEF Inv, TypeOK, Read, Selected
  <2>2. Count(Selected) \in Nat
    BY Fewer, Selected \subseteq DOMAIN dumps DEF Inv, Selected
  <2>3. Count(rows') <= MaxRows
    BY <1>4, <2>2 DEF Read
  <2>4. report' = Nothing
    BY <1>4 DEF Inv, Pending, Read
  <2>5. TypeOK'
    BY <1>4, <2>1, <2>3, <2>4 DEF Inv, TypeOK, Read, Nothing, Count, Risks
  <2>6. Pending' /\ Dated'
    BY <1>4, <2>4 DEF Inv, Pending, Dated, Read, Nothing
  <2> QED BY <2>5, <2>6 DEF Inv
<1>5. CASE ReadFails
  <2>1. rows' = {} /\ Count({}) = 0 /\ seen' \in 0..Len(dumps)
    BY <1>5, FS_EmptySet DEF Inv, TypeOK, ReadFails, Count
  <2>2. report' = Nothing
    BY <1>5 DEF Inv, Pending, ReadFails
  <2>3. TypeOK'
    BY <1>5, <2>1, <2>2 DEF Inv, TypeOK, ReadFails, Nothing, Count, Risks
  <2>4. Pending' /\ Dated'
    BY <1>5, <2>2 DEF Inv, Pending, Dated, ReadFails, Nothing
  <2> QED BY <2>3, <2>4 DEF Inv
<1>6. CASE Report
  <2>1. Kept \subseteq rows
    BY DEF Kept
  <2>2. /\ report'.kind \in {"none", "empty", "counted"}
        /\ report'.risk \in Risks
        /\ report'.healthy \in BOOLEAN /\ report'.spike \in BOOLEAN /\ report'.read \in BOOLEAN
        /\ report'.at = now
        /\ report'.named \subseteq Errors
        /\ \A t \in report'.trends : t.rows \subseteq rows /\ t.trend \in Trends
    <3>1. CASE ReportEmpty
      BY <3>1 DEF ReportEmpty, Nothing, Risks
    <3>2. CASE ReportRows
      BY <3>2, <2>1, Verdicts, TrendOfRows DEF ReportRows, Top
    <3> QED BY <1>6, <3>1, <3>2 DEF Report
  <2>3. TypeOK'
    BY <1>6, <2>2 DEF Inv, TypeOK, Report, Count
  <2>4. Pending' /\ Dated'
    BY <1>6 DEF Inv, Pending, Dated, Report
  <2> QED BY <2>3, <2>4 DEF Inv
<1>7. CASE UNCHANGED vars
  <2>1. TypeOK'
    BY <1>7 DEF Inv, TypeOK, vars, Count
  <2>2. Pending' /\ Dated'
    BY <1>7 DEF Inv, Pending, Dated, vars, Nothing
  <2> QED BY <2>1, <2>2 DEF Inv
<1> QED
  BY <1>1, <1>2, <1>3, <1>4, <1>5, <1>6, <1>7 DEF Next

LEMMA InvInit == Init => Inv
<1> SUFFICES ASSUME Init PROVE Inv
  OBVIOUS
<1> USE DumpAssumption
<1>1. dumps = <<>> /\ DOMAIN dumps = {} /\ Len(dumps) = 0
  BY DEF Init
<1>2. Count({}) = 0
  BY FS_EmptySet DEF Count
<1>3. question \in Questions
  BY DEF Init, Questions, Tools
<1>4. TypeOK
  BY <1>1, <1>2, <1>3 DEF Init, TypeOK, Nothing, Risks, PerDay
<1> QED
  BY <1>1, <1>4 DEF Init, Inv, Pending, Dated

\* The invariant holds throughout.
THEOREM Invariance == Spec => []Inv
BY InvInit, InvStep, PTL DEF Spec

\* Every reachable state is well typed: the rows never exceed the limit.
THEOREM DumpTypes == Spec => []TypeOK
<1>1. Inv => TypeOK
  BY DEF Inv
<1> QED
  BY Invariance, <1>1, PTL

\* The rows a tool kept are rows of SNAP.
LEMMA KeptRows == TypeOK => Kept \subseteq DOMAIN dumps
BY DEF TypeOK, Kept

\* Dumps written later do not change the rows a tool kept.
LEMMA KeptStays ==
    ASSUME Inv, Tick \/ (\E e \in Errors, p \in Programs : Dump(e, p)) \/ UNCHANGED vars
    PROVE  /\ Kept' = Kept
           /\ report' = report /\ question' = question /\ ahead' = ahead
           /\ \A i \in rows : dumps'[i] = dumps[i]
<1> USE DEF clock
<1>1. /\ rows' = rows /\ question' = question /\ report' = report /\ ahead' = ahead
      /\ \A i \in DOMAIN dumps : dumps'[i] = dumps[i]
  <2>1. CASE Tick
    BY <2>1 DEF Tick
  <2>2. CASE \E e \in Errors, p \in Programs : Dump(e, p)
    <3>1. PICK e \in Errors, p \in Programs : Dump(e, p)
      BY <2>2
    <3> DEFINE d == [at |-> now, date |-> DayOf(now + ahead), error |-> e, program |-> p]
    <3>2. d \in Dumps /\ dumps' = Append(dumps, d)
      BY <3>1, Apart, DayBegins DEF Inv, TypeOK, Dump, Dumps
    <3> HIDE DEF d
    <3>3. \A i \in DOMAIN dumps : dumps'[i] = dumps[i]
      BY <3>2 DEF Inv, TypeOK
    <3> QED BY <3>1, <3>3 DEF Dump
  <2>3. CASE UNCHANGED vars
    BY <2>3 DEF vars
  <2> QED BY <2>1, <2>2, <2>3
<1>2. \A i \in rows : dumps'[i] = dumps[i]
  BY <1>1 DEF Inv, TypeOK
<1>3. Kept' = Kept
  BY <1>1, <1>2 DEF Kept
<1> QED
  BY <1>1, <1>2, <1>3

\* A dump whose date is less than a day old is less than a day old itself, on SAP's
\* clock.
LEMMA LastDayIsRecent ==
    ASSUME Inv, NEW S, S \subseteq DOMAIN dumps, report'.at = now,
           UNCHANGED <<dumps, ahead>>
    PROVE  LastDay(S) \subseteq Recent(S)'
<1>1. now - PerDay \in Int /\ ahead \in Int
  BY DumpAssumption, Apart DEF Inv, TypeOK, PerDay
<1>2. \A i \in S : /\ dumps[i].at \in Int /\ dumps[i].date \in Int
                   /\ dumps[i].date <= dumps[i].at + ahead
  BY DumpTimes DEF Inv, Dated
<1>3. \A i \in S : dumps[i].date >= now - PerDay => dumps[i].at >= now - PerDay - ahead
  <2> DEFINE since == now - PerDay
  <2> HIDE DEF since
  <2>1. \A i \in S : dumps[i].date >= since => dumps[i].at >= since - ahead
    BY <1>1, <1>2 DEF since
  <2> QED BY <2>1 DEF since
<1> QED
  BY <1>3 DEF LastDay, Recent, PerDay


\* What a report says of the last 24 hours is true of them.
THEOREM RecentClaimsHold == Spec => []RecentClaims
<1>1. Init => RecentClaims
  BY DEF Init, RecentClaims, Nothing
<1>2. Inv /\ RecentClaims /\ [Next]_vars => RecentClaims'
  <2> SUFFICES ASSUME Inv, RecentClaims, [Next]_vars PROVE RecentClaims'
    OBVIOUS
  <2>1. CASE Tick \/ (\E e \in Errors, p \in Programs : Dump(e, p)) \/ UNCHANGED vars
    <3>1. /\ Kept' = Kept /\ report' = report /\ ahead' = ahead /\ Kept \subseteq rows
          /\ \A i \in rows : dumps'[i] = dumps[i]
      BY <2>1, KeptStays DEF Kept
    <3>2. Recent(Kept)' = Recent(Kept)
      BY <3>1 DEF Recent
    <3>3. \A e \in Errors : Of(Recent(Kept), e)' = Of(Recent(Kept), e)
      BY <3>1, <3>2 DEF Of, Recent
    <3> QED BY <3>1, <3>2, <3>3 DEF RecentClaims, Count
  <2>2. CASE report' = Nothing
    BY <2>2 DEF RecentClaims, Nothing
  <2>3. CASE Report
    <3>1. /\ UNCHANGED <<dumps, question, rows, ahead>> /\ Kept' = Kept
          /\ Kept \subseteq DOMAIN dumps
      BY <2>3, KeptRows DEF Inv, Report, Kept, clock
    <3>2. CASE ReportEmpty
      BY <3>2 DEF ReportEmpty, RecentClaims, Nothing
    <3>3. CASE ReportRows
      <4>1. report'.at = now /\ LastDay(Kept) \subseteq Recent(Kept)'
        BY <3>1, <3>3, LastDayIsRecent DEF ReportRows
      <4>2. Recent(Kept)' \subseteq Kept
        BY <3>1 DEF Recent
      <4>3. ASSUME report'.risk = "CRITICAL"
            PROVE  \E e \in Errors : Count(Of(Recent(Kept), e))' > Burst
        <5>1. PICK e \in Errors : Count(Of(LastDay(Kept), e)) > Burst
          BY <3>3, <4>3 DEF ReportRows, Risk
        <5>2. Of(LastDay(Kept), e) \subseteq Of(Recent(Kept), e)'
          BY <3>1, <4>1 DEF Of
        <5>3. Of(Recent(Kept), e)' \subseteq DOMAIN dumps
          BY <3>1, <4>2 DEF Of
        <5>4. Count(Of(LastDay(Kept), e)) <= Count(Of(Recent(Kept), e)')
              /\ Count(Of(LastDay(Kept), e)) \in Nat /\ Count(Of(Recent(Kept), e)') \in Nat
          BY <5>2, <5>3, Fewer DEF Inv
        <5>5. Count(Of(Recent(Kept), e)') > Burst
          BY <5>1, <5>4, DumpAssumption
        <5> QED BY <5>5 DEF Count
      <4>4. ASSUME report'.spike
            PROVE  5 * Count(Recent(Kept)') > 3 * Count(Kept)
        <5>1. 5 * Count(LastDay(Kept)) > 3 * Count(Kept)
          <6>1. report'.spike = (question.tool = "analysis" /\ Spike(Kept))
            BY <3>3 DEF ReportRows
          <6>2. Spike(Kept)
            BY <6>1, <4>4
          <6> QED BY <6>2 DEF Spike
        <5>2. /\ Count(LastDay(Kept)) <= Count(Recent(Kept)')
              /\ Count(LastDay(Kept)) \in Nat /\ Count(Recent(Kept)') \in Nat
          BY <3>1, <4>1, <4>2, Fewer DEF Inv
        <5>3. Count(Kept) \in Nat
          BY <3>1, Fewer DEF Inv
        <5> QED BY <5>1, <5>2, <5>3
      <4> QED BY <3>1, <4>3, <4>4 DEF RecentClaims, Count
    <3> QED BY <2>3, <3>2, <3>3 DEF Report
  <2>4. ASSUME Read \/ ReadFails PROVE report' = Nothing
    BY <2>4 DEF Inv, Pending, Read, ReadFails
  <2>5. ASSUME NEW tool \in Tools, NEW days \in Periods, NEW wanted \in SUBSET Programs,
               Ask(tool, days, wanted)
        PROVE  report' = Nothing
    BY <2>5 DEF Ask
  <2> QED BY <2>1, <2>2, <2>3, <2>4, <2>5 DEF Next
<1> QED
  BY Invariance, <1>1, <1>2, PTL DEF Spec


\* INCREASING is said only of more dumps in the later half of the period, as SAP's
\* clock has it.
THEOREM IncreasingHolds == Spec => []IncreasingIsTrue
<1>1. Init => IncreasingIsTrue
  BY DEF Init, IncreasingIsTrue, Nothing
<1>2. Inv /\ IncreasingIsTrue /\ [Next]_vars => IncreasingIsTrue'
  <2> SUFFICES ASSUME Inv, IncreasingIsTrue, [Next]_vars PROVE IncreasingIsTrue'
    OBVIOUS
  <2>1. CASE Tick \/ (\E e \in Errors, p \in Programs : Dump(e, p)) \/ UNCHANGED vars
    <3>1. /\ report' = report /\ question' = question /\ ahead' = ahead
          /\ \A i \in rows : dumps'[i] = dumps[i]
      BY <2>1, KeptStays
    <3>2. SUFFICES ASSUME NEW t \in report.trends, t.trend = "INCREASING"
                   PROVE  LET late == {i \in t.rows : dumps'[i].at >= report.at - question.days * Half - ahead}
                          IN  5 * Count(late) > 6 * Count(t.rows \ late)
      BY <3>1 DEF IncreasingIsTrue, Count
    <3>3. t.rows \subseteq rows
      BY DEF Inv, TypeOK
    <3>4. {i \in t.rows : dumps'[i].at >= report.at - question.days * Half - ahead}
            = {i \in t.rows : dumps[i].at >= report.at - question.days * Half - ahead}
      BY <3>1, <3>3
    <3> QED BY <3>2, <3>4 DEF IncreasingIsTrue
  <2>2. CASE report' = Nothing
    BY <2>2 DEF IncreasingIsTrue, Nothing
  <2>3. CASE Report
    <3>1. /\ UNCHANGED <<dumps, question, ahead>> /\ Kept \subseteq DOMAIN dumps
      BY <2>3, KeptRows DEF Inv, Report, clock
    <3>2. CASE ReportEmpty
      BY <3>2 DEF ReportEmpty, IncreasingIsTrue, Nothing
    <3>3. CASE ReportRows
      <4>1. report'.at = now /\ report'.trends = TrendsOf(Kept)
        BY <3>3 DEF ReportRows
      <4>2. SUFFICES ASSUME NEW t \in TrendsOf(Kept), t.trend = "INCREASING"
                     PROVE  LET late == {i \in t.rows : dumps[i].at >= now - question.days * Half - ahead}
                            IN  5 * Count(late) > 6 * Count(t.rows \ late)
        BY <3>1, <4>1 DEF IncreasingIsTrue, Count
      <4> DEFINE middle == now - question.days * Half
                 dated == {i \in t.rows : dumps[i].date >= middle}
                 late == {i \in t.rows : dumps[i].at >= middle - ahead}
      <4>3. t.rows \subseteq DOMAIN dumps /\ Trend(t.rows, question.days) = "INCREASING"
        BY <3>1, <4>2, TrendOfRows
      <4>4. 5 * Count(dated) > 6 * Count(t.rows \ dated)
        BY <4>3 DEF Trend
      <4>5. middle \in Int /\ ahead \in Int
        <5>1. now \in Int /\ Half \in Nat /\ question.days \in Nat
          <6>1. question.days \in Periods
            BY DEF Inv, TypeOK, Questions
          <6>2. now \in Int
            BY DEF Inv, TypeOK
          <6> QED BY <6>1, <6>2, DumpAssumption
        <5>2. question.days * Half \in Int
          BY <5>1
        <5> QED BY <5>1, <5>2, Apart DEF Inv
      <4>6. \A i \in t.rows : /\ dumps[i].at \in Int /\ dumps[i].date \in Int
                              /\ dumps[i].date <= dumps[i].at + ahead
        BY <4>3, DumpTimes DEF Inv, Dated
      <4>7. dated \subseteq late /\ t.rows \ late \subseteq t.rows \ dated
        <5> HIDE DEF middle
        <5> QED BY <4>5, <4>6
      <4> HIDE DEF middle, dated, late
      <4>8. late \subseteq DOMAIN dumps /\ t.rows \ dated \subseteq DOMAIN dumps
        BY <4>3 DEF late
      <4>9. /\ Count(dated) <= Count(late)
            /\ Count(dated) \in Nat /\ Count(late) \in Nat
        BY <4>7, <4>8, Fewer DEF Inv
      <4>10. /\ Count(t.rows \ late) <= Count(t.rows \ dated)
             /\ Count(t.rows \ late) \in Nat /\ Count(t.rows \ dated) \in Nat
        BY <4>7, <4>8, Fewer DEF Inv
      <4>11. 5 * Count(late) > 6 * Count(t.rows \ late)
        BY <4>4, <4>9, <4>10
      <4> QED BY <4>11 DEF late, middle
    <3> QED BY <2>3, <3>2, <3>3 DEF Report
  <2>4. ASSUME Read \/ ReadFails PROVE report' = Nothing
    BY <2>4 DEF Inv, Pending, Read, ReadFails
  <2>5. ASSUME NEW tool \in Tools, NEW days \in Periods, NEW wanted \in SUBSET Programs,
               Ask(tool, days, wanted)
        PROVE  report' = Nothing
    BY <2>5 DEF Ask
  <2> QED BY <2>1, <2>2, <2>3, <2>4, <2>5 DEF Next
<1> QED
  BY Invariance, <1>1, <1>2, PTL DEF Spec

(***************************************************************************)
(* LOW.  Dates are midnights, so that a dump of the period asked about, on   *)
(* SAP's clock, is never dated before the first day of it.                  *)
(***************************************************************************)
\* Midnights, and the period of the question.
Days ==
    /\ IsMidnight(question.cutoff)
    /\ \A i \in DOMAIN dumps :
         IsMidnight(dumps[i].date) /\ dumps[i].at + ahead < dumps[i].date + PerDay
    /\ pc # "idle" \/ report.read =>
         question.cutoff <= question.at - question.days * PerDay

\* The dumps a read selects.
Since == {i \in 1..seen : dumps[i].date >= question.cutoff}

\* Rows are missing from an answer only if it has enough of them for an alarm.
Whole ==
    /\ pc = "read" \/ report.read => rows = Since \/ Count(rows) >= Few
    /\ report.read /\ report.risk = "LOW" /\ question.tool # "program" => Count(rows) < Few

LEMMA Multiples ==
    ASSUME NEW P \in Nat, P > 0, NEW a \in Int, NEW b \in Int, a * P > b * P - P
    PROVE  a * P >= b * P
<1>1. a >= b
  <2> SUFFICES ASSUME b - 1 - a >= 0 PROVE FALSE
    OBVIOUS
  <2>1. (b - 1 - a) * P >= 0
    OBVIOUS
  <2>2. (b - 1 - a) * P = b * P - P - a * P
    OBVIOUS
  <2> QED BY <2>1, <2>2
<1>2. (a - b) * P >= 0 /\ (a - b) * P = a * P - b * P
  BY <1>1
<1> QED BY <1>2

\* One midnight is not before another it follows by less than a day.
LEMMA NoMidnightBetween ==
    ASSUME NEW x, NEW y, IsMidnight(x), IsMidnight(y), x > y - PerDay
    PROVE  x >= y
<1>1. PICK a \in Int : x = a * PerDay
  BY DEF IsMidnight
<1>2. PICK b \in Int : y = b * PerDay
  BY DEF IsMidnight
<1>3. PerDay \in Nat /\ PerDay > 0
  BY DumpAssumption DEF PerDay
<1> HIDE DEF PerDay
<1> QED BY <1>1, <1>2, <1>3, Multiples

LEMMA DaysInit == Init => Days
<1> SUFFICES ASSUME Init PROVE Days
  OBVIOUS
<1>1. 0 = 0 * PerDay
  BY DumpAssumption DEF PerDay
<1>2. question.cutoff = 0 /\ DOMAIN dumps = {} /\ pc = "idle" /\ ~report.read
  BY DEF Init, Nothing
<1> HIDE DEF PerDay
<1> QED BY <1>1, <1>2 DEF Days, IsMidnight

LEMMA DaysStep == Inv /\ Days /\ [Next]_vars => Days'
<1> SUFFICES ASSUME Inv, Days, [Next]_vars PROVE Days'
  OBVIOUS
<1> USE DEF clock
<1>0. PerDay \in Int /\ now \in Int /\ now + ahead \in Int
  BY DumpAssumption, Apart DEF Inv, PerDay
<1>1. CASE Tick
  BY <1>1 DEF Tick, Days, IsMidnight
<1>2. ASSUME NEW e \in Errors, NEW p \in Programs, Dump(e, p) PROVE Days'
  <2> DEFINE d == [at |-> now, date |-> DayOf(now + ahead), error |-> e, program |-> p]
  <2>1. d \in Dumps /\ dumps' = Append(dumps, d)
    BY <1>2, Apart, DayBegins DEF Inv, TypeOK, Dump, Dumps
  <2>2. /\ \A i \in DOMAIN dumps' : i \in DOMAIN dumps \/ dumps'[i] = d
        /\ \A i \in DOMAIN dumps : dumps'[i] = dumps[i]
    <3> HIDE DEF d
    <3> QED BY <2>1 DEF Inv, TypeOK
  <2>3. /\ IsMidnight(d.date) /\ d.at + ahead < d.date + PerDay
        /\ UNCHANGED <<ahead, pc, question, report>>
    BY <1>0, <1>2, DayBegins DEF Dump
  <2> HIDE DEF d, PerDay
  <2>4. \A i \in DOMAIN dumps' :
          IsMidnight(dumps'[i].date) /\ dumps'[i].at + ahead < dumps'[i].date + PerDay
    BY <2>2, <2>3 DEF Days
  <2> QED BY <2>3, <2>4 DEF Days, IsMidnight
<1>3. ASSUME NEW tool \in Tools, NEW days \in Periods, NEW wanted \in SUBSET Programs,
             Ask(tool, days, wanted)
      PROVE  Days'
  <2> DEFINE since == now - days * PerDay
  <2>1. /\ question'.cutoff = DayOf(since)
        /\ question'.at = now /\ question'.days = days
        /\ UNCHANGED <<ahead, dumps>>
    BY <1>3 DEF Ask
  <2>2. since \in Int
    <3>1. days \in Int
      BY DumpAssumption
    <3> HIDE DEF PerDay
    <3>2. days * PerDay \in Int
      BY <1>0, <3>1
    <3> QED BY <1>0, <3>2
  <2>3. IsMidnight(DayOf(since)) /\ DayOf(since) <= since
    BY <2>2, DayBegins
  <2> HIDE DEF PerDay
  <2>4. question'.cutoff <= question'.at - question'.days * PerDay
    BY <2>1, <2>3
  <2> QED BY <2>1, <2>3, <2>4 DEF Days, IsMidnight
<1>4. CASE Read \/ ReadFails
  BY <1>4 DEF Inv, Pending, Days, IsMidnight, Read, ReadFails
<1>5. CASE Report
  <2>1. pc # "idle"
    BY <1>5 DEF Report, ReportEmpty, ReportRows
  <2> QED BY <1>5, <2>1 DEF Report, Days, IsMidnight
<1>6. CASE UNCHANGED vars
  BY <1>6 DEF vars, Days, IsMidnight
<1> QED BY <1>1, <1>2, <1>3, <1>4, <1>5, <1>6 DEF Next

LEMMA WholeStep == Inv /\ Whole /\ [Next]_vars => Whole'
<1> SUFFICES ASSUME Inv, Whole, [Next]_vars PROVE Whole'
  OBVIOUS
<1> USE DEF clock
<1>0. Few \in Nat /\ Few > 0 /\ MaxRows >= Few /\ MaxRows \in Nat
  BY DumpAssumption
<1>1. CASE Tick \/ (\E e \in Errors, p \in Programs : Dump(e, p)) \/ UNCHANGED vars
  <2>1. /\ report' = report /\ question' = question
        /\ rows' = rows /\ seen' = seen /\ pc' = pc
        /\ \A i \in DOMAIN dumps : dumps'[i] = dumps[i]
    <3>1. CASE Tick
      BY <3>1 DEF Tick
    <3>2. CASE \E e \in Errors, p \in Programs : Dump(e, p)
      <4>1. PICK e \in Errors, p \in Programs : Dump(e, p)
        BY <3>2
      <4> DEFINE d == [at |-> now, date |-> DayOf(now + ahead), error |-> e, program |-> p]
      <4>2. d \in Dumps /\ dumps' = Append(dumps, d)
        BY <4>1, Apart, DayBegins DEF Inv, TypeOK, Dump, Dumps
      <4> HIDE DEF d
      <4>3. \A i \in DOMAIN dumps : dumps'[i] = dumps[i]
        BY <4>2 DEF Inv, TypeOK
      <4> QED BY <4>1, <4>3 DEF Dump
    <3>3. CASE UNCHANGED vars
      BY <3>3 DEF vars
    <3> QED BY <1>1, <3>1, <3>2, <3>3
  <2>2. Since' = Since
    BY <2>1 DEF Inv, TypeOK, Since
  <2> QED BY <2>1, <2>2 DEF Whole, Count
<1>2. ASSUME NEW tool \in Tools, NEW days \in Periods, NEW wanted \in SUBSET Programs,
             Ask(tool, days, wanted)
      PROVE  Whole'
  BY <1>2 DEF Ask, Whole, Nothing
<1>3. CASE Read
  <2>1. report' = Nothing
    BY <1>3 DEF Inv, Pending, Read
  <2>2. Selected = Since'
    BY <1>3 DEF Inv, TypeOK, Read, Selected, Since
  <2>3. Count(Selected) \in Nat
    BY Fewer, Selected \subseteq DOMAIN dumps DEF Inv, Selected
  <2>4. rows' = Selected \/ Count(rows') >= Few
    BY <1>0, <1>3, <2>3 DEF Read
  <2> QED BY <2>1, <2>2, <2>4 DEF Whole, Nothing, Count
<1>4. CASE ReadFails
  BY <1>4 DEF Inv, Pending, ReadFails, Whole, Nothing
<1>5. CASE Report
  <2>1. UNCHANGED <<dumps, question, rows, seen>> /\ Since' = Since
    BY <1>5 DEF Report, Since
  <2>2. report'.read => pc = "read"
    BY <1>5 DEF Report, ReportEmpty, ReportRows, Nothing
  <2>3. ASSUME report'.risk = "LOW", question.tool # "program" PROVE Count(rows) < Few
    <3>1. Kept = rows /\ Count(rows) \in Nat
      BY <2>3, Fewer DEF Kept, Inv, TypeOK
    <3>2. CASE ReportEmpty
      BY <1>0, <3>1, <3>2, FS_EmptySet DEF ReportEmpty, Count
    <3>3. CASE ReportRows
      BY <1>0, <2>3, <3>1, <3>3 DEF ReportRows, Risk
    <3> QED BY <1>5, <3>2, <3>3 DEF Report
  <2>4. pc' = "idle"
    BY <1>5 DEF Report
  <2> QED BY <2>1, <2>2, <2>3, <2>4 DEF Whole, Count
<1> QED BY <1>1, <1>2, <1>3, <1>4, <1>5 DEF Next

\* LOW is said after a read only of a period that was quiet on SAP's clock: neither
\* the date in the WHERE clause nor the limit on the rows hides a dump of it.
THEOREM LowIsQuietHolds == Spec => []LowIsQuiet
<1>1. Init => Whole
  BY DEF Init, Whole, Nothing
<1>2. Inv /\ Days /\ Whole => LowIsQuiet
  <2> SUFFICES ASSUME Inv, Days, Whole,
                      report.read, report.risk = "LOW", question.tool # "program"
               PROVE  Count({i \in 1..seen :
                               dumps[i].at >= question.at - question.days * PerDay - ahead})
                       < Few
    BY DEF LowIsQuiet
  <2> DEFINE first == question.at - question.days * PerDay
             asked == {i \in 1..seen : dumps[i].at >= first - ahead}
  <2>1. Few \in Nat /\ Count(rows) < Few /\ rows \subseteq DOMAIN dumps
    BY DumpAssumption DEF Whole, Inv, TypeOK
  <2>2. Count(rows) \in Nat
    BY <2>1, Fewer DEF Inv
  <2>3. rows = Since
    BY <2>1, <2>2 DEF Whole
  <2>4. /\ question.cutoff \in Int /\ question.at \in Int /\ question.days \in Int
        /\ PerDay \in Int /\ ahead \in Int
    <3>1. question \in Questions
      BY DEF Inv, TypeOK
    <3>2. PerDay \in Int
      BY DumpAssumption DEF PerDay
    <3>3. question.cutoff \in Int /\ question.at \in Int /\ question.days \in Periods
      BY <3>1 DEF Questions
    <3>4. \A d \in Periods : d \in Int
      BY DumpAssumption
    <3> HIDE DEF PerDay
    <3> QED BY <3>2, <3>3, <3>4, Apart DEF Inv
  <2>5. ASSUME NEW i \in asked PROVE i \in Since
    <3>1. i \in DOMAIN dumps
      BY DEF Inv, TypeOK
    <3>2. dumps[i].at \in Int /\ dumps[i].date \in Int
      BY <3>1, DumpTimes DEF Inv
    <3> HIDE DEF PerDay
    <3>3. question.days * PerDay \in Int
      BY <2>4
    <3>4. dumps[i].date > question.cutoff - PerDay
      <4>1. dumps[i].at + ahead < dumps[i].date + PerDay
        BY <3>1 DEF Days
      <4>2. question.cutoff <= first /\ first \in Int
        BY <2>4, <3>3 DEF Days
      <4>3. dumps[i].at >= first - ahead
        OBVIOUS
      <4> HIDE DEF first
      <4> QED BY <2>4, <3>2, <4>1, <4>2, <4>3
    <3>5. dumps[i].date >= question.cutoff
      BY <3>1, <3>4, NoMidnightBetween DEF Days
    <3> QED BY <3>5 DEF Since
  <2>6. asked \subseteq rows
    BY <2>3, <2>5
  <2> HIDE DEF asked
  <2>7. Count(asked) <= Count(rows) /\ Count(asked) \in Nat
    BY <2>1, <2>6, Fewer DEF Inv
  <2>8. Count(asked) < Few
    BY <2>1, <2>2, <2>7
  <2> QED BY <2>8 DEF asked
<1> QED
  BY <1>1, <1>2, Invariance, DaysInit, DaysStep, WholeStep, PTL DEF Spec
============================================================================
