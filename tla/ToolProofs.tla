----------------------------- MODULE ToolProofs -----------------------------
(***************************************************************************)
(* Proofs about BasisTools: types, and that risk and count of every report   *)
(* are true of what SAP had, for tables of any size, any limits, and reads   *)
(* that end in any order and in any way.                                    *)
(***************************************************************************)
EXTENDS BasisTools, FiniteSetTheorems, SequenceTheorems, TLAPS

----------------------------------------------------------------------------
(* Lists of rows.                                                           *)

\* A list holds its rows at 1 to its length.
LEMMA ListOf ==
    ASSUME NEW s, IsSequence(s)
    PROVE  /\ Len(s) \in Nat /\ DOMAIN s = 1..Len(s)
           /\ s \in Seq({s[i] : i \in 1..Len(s)})
           /\ IsFiniteSet(DOMAIN s)
<1>1. Len(s) \in Nat /\ s = [i \in 1..Len(s) |-> s[i]]
  BY DEF IsSequence
<1>2. DOMAIN s = 1..Len(s)
  BY <1>1
<1>3. s \in Seq({s[i] : i \in 1..Len(s)})
  <2> DEFINE S == {s[i] : i \in 1..Len(s)}
  <2>1. s \in [1..Len(s) -> S]
    BY <1>1
  <2>2. [1..Len(s) -> S] \subseteq Seq(S)
    BY <1>1, SeqDef
  <2> QED BY <2>1, <2>2
<1>4. IsFiniteSet(1..Len(s))
  BY <1>1, FS_Interval
<1> QED BY <1>1, <1>2, <1>3, <1>4

LEMMA EmptyList == IsSequence(<<>>) /\ DOMAIN <<>> = {} /\ Len(<<>>) = 0
BY DEF IsSequence

\* What is left of a list that is cut is its beginning, and all of it unless as
\* many rows are left as may be.
LEMMA FirstIsPrefix ==
    ASSUME NEW s, IsSequence(s), NEW n \in Nat
    PROVE  /\ IsSequence(First(s, n))
           /\ Len(First(s, n)) <= Len(s)
           /\ \A i \in DOMAIN First(s, n) : i \in DOMAIN s /\ First(s, n)[i] = s[i]
           /\ Len(First(s, n)) < n => First(s, n) = s
<1> DEFINE S == {s[i] : i \in 1..Len(s)}
           m == IF n < Len(s) THEN n ELSE Len(s)
<1>1. Len(s) \in Nat /\ DOMAIN s = 1..Len(s) /\ s \in Seq(S)
  BY ListOf
<1>2. m \in Nat /\ m <= Len(s) /\ First(s, n) = SubSeq(s, 1, m)
  BY <1>1 DEF First
<1>3. \A i \in 1..m : s[i] \in S
  BY <1>1, <1>2
<1>4. /\ SubSeq(s, 1, m) \in Seq(S)
      /\ Len(SubSeq(s, 1, m)) = IF 1 <= m THEN m - 1 + 1 ELSE 0
      /\ \A i \in 1..(m - 1 + 1) : SubSeq(s, 1, m)[i] = s[1 + i - 1]
  <2> HIDE DEF S, m
  <2>1. m \in Int /\ 1 \in Int
    BY <1>2
  <2> QED BY <1>3, <2>1, SubSeqProperties
<1>5. /\ Len(First(s, n)) = m /\ DOMAIN First(s, n) = 1..m
      /\ \A i \in 1..m : First(s, n)[i] = s[i]
  <2> HIDE DEF S
  <2>1. Len(SubSeq(s, 1, m)) = m
    BY <1>2, <1>4
  <2>2. \A i \in 1..m : SubSeq(s, 1, m)[i] = s[i]
    BY <1>2, <1>4
  <2>3. DOMAIN SubSeq(s, 1, m) = 1..m
    BY <1>4, <2>1
  <2> QED BY <1>2, <2>1, <2>2, <2>3
<1>6. IsSequence(First(s, n))
  <2>1. First(s, n) = [i \in 1..m |-> First(s, n)[i]]
    BY <1>2, <1>4, <1>5
  <2> QED BY <1>2, <1>5, <2>1 DEF IsSequence
<1>7. Len(First(s, n)) < n => First(s, n) = s
  <2> SUFFICES ASSUME m < n PROVE First(s, n) = s
    BY <1>5
  <2>1. m = Len(s)
    <3>1. Len(s) \in Nat /\ n \in Nat
      BY <1>1
    <3> HIDE DEF S
    <3> QED BY <3>1
  <2> QED BY <1>1, <1>2, <2>1, SubSeqFull
<1> HIDE DEF S, m
<1>8. DOMAIN s = 1..Len(s) /\ Len(s) \in Nat
  BY <1>1
<1>9. \A i \in DOMAIN First(s, n) : i \in DOMAIN s /\ First(s, n)[i] = s[i]
  BY <1>2, <1>5, <1>8
<1>10. Len(First(s, n)) <= Len(s)
  BY <1>2, <1>5
<1> QED BY <1>6, <1>7, <1>9, <1>10

\* Fewer of fewer.
LEMMA FewerOf ==
    ASSUME NEW T, IsFiniteSet(T), NEW S \in SUBSET T
    PROVE  /\ IsFiniteSet(S)
           /\ Cardinality(S) \in Nat /\ Cardinality(T) \in Nat
           /\ Cardinality(S) <= Cardinality(T)
           /\ Cardinality(S) = 0 <=> S = {}
<1>1. IsFiniteSet(S) /\ Cardinality(S) <= Cardinality(T)
  BY FS_Subset
<1>2. Cardinality(S) \in Nat /\ Cardinality(T) \in Nat
  BY <1>1, FS_CardinalityType
<1> QED BY <1>1, <1>2, FS_EmptySet

\* There are no more images than there are things.
LEMMA FiniteImage ==
    ASSUME NEW D, IsFiniteSet(D), NEW f, DOMAIN f = D
    PROVE  IsFiniteSet({f[i] : i \in D})
<1> DEFINE T == {f[i] : i \in D}
           g == [i \in D |-> f[i]]
<1>1. g \in Surjection(D, T)
  BY DEF Surjection
<1> QED BY <1>1, FS_Surjection

----------------------------------------------------------------------------
(* The form of a tool.                                                      *)

\* What follows reads that are made together is done when they have ended.
LEMMA AfterReturns ==
    ASSUME NEW S, NEW g, NEW step, After(S, g, step).read = {}
    PROVE  S \subseteq DOMAIN g /\ After(S, g, step) = step
BY DEF After, Read

LEMMA GivenReturns ==
    ASSUME NEW t, NEW g, NEW step, Given(t, g, step).read = {}
    PROVE  t \in DOMAIN g /\ Given(t, g, step) = IF Came(t, g) THEN step ELSE Error
<1>1. Given(t, g, step) = After({t}, g, IF Came(t, g) THEN step ELSE Error)
  BY DEF Given
<1> QED BY <1>1, AfterReturns

\* A tool reads what it says, and then what it reads next.
LEMMA AfterReads ==
    ASSUME NEW S, NEW g, NEW step
    PROVE  After(S, g, step).read \subseteq S \cup step.read
BY DEF After, Read

LEMMA GivenReads ==
    ASSUME NEW t, NEW g, NEW step
    PROVE  Given(t, g, step).read \subseteq {t} \cup step.read
BY DEF After, Given, Read, Error, Return

LEMMA ReturnsReadNothing ==
    /\ \A r, k, n, z : Said(r, k, n, z).read = {}
    /\ Error.read = {} /\ Note.read = {}
BY DEF Said, Error, Note, Return

\* The next parameter of a list that has not been read is one of the list.
LEMMA NextOfList ==
    ASSUME NEW U, U \subseteq Nat, U # {}
    PROVE  (CHOOSE i \in U : \A j \in U : i <= j) \in U
<1> DEFINE Less == {ss \in Nat \X Nat : ss[1] < ss[2]}
<1>1. IsWellFoundedOn(Less, Nat)
  BY NatLessThanWellFounded DEF OpToRel
<1>2. PICK i \in U : \A j \in U : ~(<<j, i>> \in Less)
  <2> HIDE DEF Less
  <2> QED BY <1>1, WFMin
<1>3. \A j \in U : i <= j
  <2> TAKE j \in U
  <2>1. i \in Nat /\ j \in Nat /\ ~(j < i)
    BY <1>2
  <2> QED BY <2>1
<1> QED BY <1>3

\* The parameters are read one by one.
LEMMA AdviceReads ==
    ASSUME NEW a, NEW g
    PROVE  ParameterAdvice(a, g).read \subseteq {Parameters[i] : i \in DOMAIN Parameters}
<1> DEFINE unread == {i \in DOMAIN Parameters : Parameters[i] \notin DOMAIN g}
           next == CHOOSE i \in unread : \A j \in unread : i <= j
<1>1. CASE unread = {}
  <2>1. ParameterAdvice(a, g).read = {}
    BY <1>1, ReturnsReadNothing DEF ParameterAdvice
  <2> QED BY <2>1
<1>2. CASE unread # {}
  <2>1. DOMAIN Parameters \subseteq Nat
    BY ParametersAssumption, ListOf
  <2>2. next \in unread
    BY <1>2, <2>1, NextOfList
  <2>3. ParameterAdvice(a, g).read = {Parameters[next]}
    BY <1>2 DEF ParameterAdvice, Read
  <2> QED BY <2>2, <2>3
<1> QED BY <1>1, <1>2

\* A tool reads tables.
LEMMA ReadsTables == ASSUME call \in Asks PROVE Step.read \subseteq Tables
<1> USE AfterReads, GivenReads, ReturnsReadNothing DEF Tables
<1>1. call.tool \in Tools
  BY AskAssumption
<1>2. Trfc(call, got).read \subseteq Tables
  BY DEF Trfc
<1>3. Qrfc(call, got).read \subseteq Tables
  BY DEF Qrfc
<1>4. Locks(call, got).read \subseteq Tables
  BY DEF Locks
<1>5. Spool(call, got).read \subseteq Tables
  BY DEF Spool
<1>6. Jobs(call, got).read \subseteq Tables
  BY DEF Jobs
<1>7. Clients(call, got).read \subseteq Tables
  BY DEF Clients
<1>8. Snc(call, got).read \subseteq Tables
  BY DEF Snc
<1>9. Instances(call, got).read \subseteq Tables
  BY DEF Instances
<1>10. Syslog(call, got).read \subseteq Tables
  BY DEF Syslog
<1>11. Updates(call, got).read \subseteq Tables
  BY DEF Updates
<1>12. WorkProcesses(call, got).read \subseteq Tables
  BY DEF WorkProcesses
<1>13. Snapshot(got).read \subseteq Tables
  BY DEF Snapshot
<1>14. Database(call, got).read \subseteq Tables
  BY DEF Database
<1>15. ParameterAdvice(call, got).read \subseteq Tables
  BY AdviceReads
<1>16. TaskLists(call, got).read \subseteq Tables
  BY DEF TaskLists
<1>17. TaskListDetails(call, got).read \subseteq Tables
  BY DEF TaskListDetails
<1>18. TaskListRuns(call, got).read \subseteq Tables
  BY DEF TaskListRuns
<1> QED
  <2> HIDE DEF Tables
  <2> QED BY <1>1, <1>2, <1>3, <1>4, <1>5, <1>6, <1>7, <1>8, <1>9, <1>10, <1>11, <1>12,
             <1>13, <1>14, <1>15, <1>16, <1>17, <1>18
          DEF Step, Tool, Tools, ResponseTimes, Memory, Buffers

----------------------------------------------------------------------------
(* The inductive invariant: what was got of a table is what a read of it     *)
(* leaves of what SAP had, and a report is what the tool makes of that.      *)

Heard(t) ==
    /\ got[t].end \in Ends
    /\ got[t].end = "refused" => t \in Batched
    /\ IsSequence(got[t].full)
    /\ t \in {"ARFCSSTATE", "ENQ", "TSP01"} =>
            \A i \in DOMAIN got[t].full :
                got[t].full[i].age \in Int /\ got[t].full[i].age >= NoAge
    /\ got[t].rows = Received(t, got[t].end, got[t].full)

Inv ==
    /\ call \in Asks \cup {None}
    /\ call = None => got = <<>> /\ report = None
    /\ \A t \in DOMAIN got : Heard(t)
    /\ Done => Step.read = {} /\ report = Step.report

LEMMA InvStep == Inv /\ [Next]_vars => Inv'
<1> SUFFICES ASSUME Inv, [Next]_vars PROVE Inv'
  OBVIOUS
<1> USE DEF Inv
<1>1. ASSUME NEW a \in Asks, Ask(a) PROVE Inv'
  <2>1. call' = a /\ got' = <<>> /\ report' = None /\ a # None
    BY <1>1, NoneAssumption DEF Ask
  <2>2. DOMAIN got' = {} /\ ~Done'
    BY <2>1, EmptyList DEF Done
  <2> QED BY <2>1, <2>2
<1>2. ASSUME Busy, NEW t \in Step.read, NEW end \in Ends, EndRead(t, end) PROVE Inv'
  <2>1. call \in Asks /\ call.tool \in Tools /\ t \in Tables
    BY <1>2, ReadsTables, AskAssumption DEF Busy
  <2>2. PICK full \in Held(call.tool, t) :
          got' = [u \in DOMAIN got \cup {t} |->
                    IF u = t THEN [end |-> end, full |-> full, rows |-> Received(t, end, full)]
                             ELSE got[u]]
    BY <1>2 DEF EndRead
  <2>3. (end = "refused" => t \in Batched) /\ UNCHANGED <<call, report>>
    BY <1>2 DEF EndRead
  <2>4. /\ IsSequence(full)
        /\ t \in {"ARFCSSTATE", "ENQ", "TSP01"} =>
                \A i \in DOMAIN full : full[i].age \in Int /\ full[i].age >= NoAge
    BY <2>1, HeldAssumption
  <2>5. \A u \in DOMAIN got' : Heard(u)'
    <3> TAKE u \in DOMAIN got'
    <3>1. \A e, f : Received(u, e, f)' = Received(u, e, f)
      BY <2>3 DEF Received, Arriving
    <3>2. CASE u = t
      <4>1. /\ got'[u].end = end /\ got'[u].full = full
            /\ got'[u].rows = Received(t, end, full)
        BY <2>2, <3>2
      <4> HIDE DEF Inv
      <4> QED BY <1>2, <2>3, <2>4, <3>1, <3>2, <4>1 DEF Heard
    <3>3. CASE u # t
      <4>1. u \in DOMAIN got /\ got'[u] = got[u]
        BY <2>2, <3>3
      <4> QED BY <3>1, <4>1 DEF Heard
    <3> QED BY <3>2, <3>3
  <2>6. ~Done'
    BY <1>2, <2>3 DEF Busy, Done
  <2> QED BY <1>2, <2>1, <2>3, <2>5, <2>6, NoneAssumption
<1>3. CASE Answer
  <2>1. /\ UNCHANGED <<call, got>> /\ Step.read = {} /\ report' = Step.report
        /\ call # None
    BY <1>3 DEF Answer, Busy
  <2>2. Step' = Step /\ \A t \in DOMAIN got : Heard(t)'
    BY <2>1 DEF Step, Heard, Received, Arriving, Tool
  <2> QED BY <2>1, <2>2
<1>4. CASE UNCHANGED vars
  BY <1>4 DEF vars, Heard, Received, Arriving, Done, Step
<1> QED BY <1>1, <1>2, <1>3, <1>4 DEF Next

LEMMA Invariance == Spec => []Inv
<1>1. Init => Inv
  BY EmptyList DEF Init, Inv, Done
<1> QED BY <1>1, InvStep, PTL DEF Spec

----------------------------------------------------------------------------
(* What a tool has of a table, and what it makes of that.                    *)

\* The rows of a table are the first of those SAP had; all of them, if it was
\* read and fewer arrived than may.
LEMMA RowsOfTable ==
    ASSUME Inv, call \in Asks, NEW t \in DOMAIN got
    PROVE  /\ Full(t) = got[t].full
           /\ IsFiniteSet(DOMAIN Rows(t, got)) /\ IsFiniteSet(DOMAIN Full(t))
           /\ IsSequence(Rows(t, got)) /\ IsSequence(Full(t))
           /\ Len(Rows(t, got)) <= Len(Full(t))
           /\ \A i \in DOMAIN Rows(t, got) : i \in DOMAIN Full(t) /\ Rows(t, got)[i] = Full(t)[i]
           /\ ~Came(t, got) => Rows(t, got) = <<>>
           /\ Came(t, got) /\ (t \in Unlimited \/ Len(Rows(t, got)) < LimitOf(t)) =>
                    Rows(t, got) = Full(t)
<1>1. Heard(t) /\ Full(t) = got[t].full /\ IsSequence(Full(t))
  BY DEF Inv, Heard, Full
<1>2. /\ Rows(t, got) = Received(t, got[t].end, Full(t))
      /\ Came(t, got) => Rows(t, got) = Arriving(t, Full(t))
      /\ ~Came(t, got) => Rows(t, got) = <<>>
  BY <1>1 DEF Heard, Rows, Came, Received
<1>3. call.cap \in Nat /\ FixedCap \in Nat
  BY AskAssumption, ParametersAssumption
<1>4. IsFiniteSet(DOMAIN Full(t)) /\ Len(Full(t)) \in Nat
  BY <1>1, ListOf
<1>5. CASE ~Came(t, got)
  <2>1. Rows(t, got) = <<>>
    BY <1>2, <1>5
  <2>2. /\ DOMAIN Rows(t, got) = {} /\ IsSequence(Rows(t, got))
        /\ Len(Rows(t, got)) = 0
    BY <2>1, EmptyList
  <2> QED BY <1>1, <1>4, <1>5, <2>1, <2>2, FS_EmptySet
<1>6. CASE Came(t, got) /\ t \in Unlimited
  <2>1. Rows(t, got) = Full(t)
    BY <1>2, <1>6 DEF Arriving
  <2> QED BY <1>1, <1>4, <1>6, <2>1
<1>7. CASE Came(t, got) /\ t \notin Unlimited
  <2>1. /\ Rows(t, got) = First(Full(t), LimitOf(t)) /\ LimitOf(t) \in Nat
        /\ t \notin Unlimited
    <3>1. t # "ENQ"
      BY <1>7 DEF Unlimited
    <3> QED BY <1>2, <1>3, <1>7, <3>1 DEF Arriving, LimitOf
  <2>2. /\ IsSequence(Rows(t, got)) /\ Len(Rows(t, got)) <= Len(Full(t))
        /\ \A i \in DOMAIN Rows(t, got) : i \in DOMAIN Full(t) /\ Rows(t, got)[i] = Full(t)[i]
        /\ Len(Rows(t, got)) < LimitOf(t) => Rows(t, got) = Full(t)
    BY <1>1, <2>1, FirstIsPrefix
  <2> QED BY <1>1, <1>7, <2>1, <2>2, ListOf
<1> QED BY <1>5, <1>6, <1>7

\* A table of which the report tells that it is whole is whole.
LEMMA WholeTable ==
    ASSUME Inv, call \in Asks, NEW t \in DOMAIN got, Came(t, got), ToldWhole(t),
           report.total[t] = Len(Rows(t, got))
    PROVE  Rows(t, got) = Full(t)
<1>1. t \in Unlimited \/ Len(Rows(t, got)) < LimitOf(t)
  BY DEF ToldWhole
<1> QED BY <1>1, RowsOfTable

\* What is counted in a table is there.
LEMMA CountOfRows ==
    ASSUME Inv, call \in Asks, NEW t \in DOMAIN got, NEW X
    PROVE  /\ With(Rows(t, got), X) \in Nat /\ Cardinality(Those(t, X)) \in Nat
           /\ With(Rows(t, got), X) <= Cardinality(Those(t, X))
           /\ Rows(t, got) = Full(t) => With(Rows(t, got), X) = Cardinality(Those(t, X))
<1> DEFINE shown == {i \in DOMAIN Rows(t, got) : Rows(t, got)[i] \in X}
<1>1. /\ IsFiniteSet(DOMAIN Full(t))
      /\ \A i \in DOMAIN Rows(t, got) : i \in DOMAIN Full(t) /\ Rows(t, got)[i] = Full(t)[i]
  BY RowsOfTable
<1>2. shown \subseteq Those(t, X) /\ Those(t, X) \subseteq DOMAIN Full(t)
  BY <1>1 DEF Those
<1>3. IsFiniteSet(Those(t, X))
  BY <1>1, <1>2, FewerOf
<1>4. With(Rows(t, got), X) = Cardinality(shown)
  BY DEF With
<1>5. Rows(t, got) = Full(t) => shown = Those(t, X)
  BY DEF Those
<1> HIDE DEF shown
<1> QED BY <1>2, <1>3, <1>4, <1>5, FewerOf

\* A report of the kind a tool can give.
Typed ==
    /\ report.error \in BOOLEAN
    /\ report.risk \in {"none", "LOW", "MEDIUM", "HIGH"}
    /\ report.count \in Nat
    /\ DOMAIN report.total \subseteq DOMAIN got

\* Everything the properties say of a report.
Sound == Typed /\ LowIsClear /\ AlarmHasCause /\ CountIsTrue

LEMMA ErrorIsSound == ASSUME report = Error.report PROVE Sound
<1>1. /\ report.error = TRUE /\ report.risk = "none" /\ report.count = 0
      /\ report.total = <<>>
  BY DEF Error, Return
<1>2. Typed
  <2>1. report.error \in BOOLEAN
    BY <1>1
  <2>2. report.count \in Nat
    BY <1>1
  <2>3. DOMAIN report.total = {}
    BY <1>1, EmptyList
  <2> QED BY <1>1, <2>1, <2>2, <2>3, Zenon DEF Typed
<1>3. LowIsClear /\ AlarmHasCause
  BY <1>1 DEF LowIsClear, AlarmHasCause
<1>4. CountIsTrue
  BY <1>1 DEF CountIsTrue
<1> QED BY <1>2, <1>3, <1>4 DEF Sound

\* A report is what the tool returns when it has nothing more to read.
LEMMA DoneIsReturned ==
    ASSUME Inv, Done
    PROVE  call \in Asks /\ Step.read = {} /\ report = Step.report
BY DEF Inv, Done

LEMMA SaidFields ==
    ASSUME NEW r, NEW k, NEW n, NEW z, report = Said(r, k, n, z).report
    PROVE  report.error = FALSE /\ report.risk = r /\ report.count = k
               /\ report.total = n /\ report.detail = z
BY DEF Said, Return

LEMMA SaidIsTyped ==
    ASSUME NEW r \in {"none", "LOW", "MEDIUM", "HIGH"}, NEW k \in Nat, NEW n, NEW z,
           DOMAIN n \subseteq DOMAIN got, report = Said(r, k, n, z).report
    PROVE  Typed
<1>1. report.error = FALSE /\ report.risk = r /\ report.count = k /\ report.total = n
  BY SaidFields
<1>2. report.error \in BOOLEAN
  BY <1>1
<1> QED BY <1>1, <1>2, Zenon DEF Typed

\* The size told of a table is that of the rows the tool has.
LEMMA SizesOf ==
    ASSUME NEW T
    PROVE  DOMAIN Sizes(T, got) = T /\ \A t \in T : Sizes(T, got)[t] = Len(Rows(t, got))
BY DEF Sizes

\* Of most tools what is counted is whole if the report tells that all is.
LEMMA ToldIsCounted ==
    ASSUME call.tool \notin Silent, call.tool # "get_task_list_runs",
           report.count <= TrueCount, AllToldWhole => report.count = TrueCount
    PROVE  CountIsTrue
<1>1. CountedWhole => AllToldWhole
  BY DEF CountedWhole, AllToldWhole
<1> QED BY <1>1 DEF CountIsTrue

\* Of those whose report is silent about the table it is whole if every row came.
LEMMA SilentIsCounted ==
    ASSUME call.tool \in Silent, report.count <= TrueCount, ReadWhole => report.count = TrueCount
    PROVE  CountIsTrue
BY DEF CountIsTrue

\* A report without a risk that counts rows of one table it was given.
LEMMA CountIsSound ==
    ASSUME Inv, Done, NEW t \in DOMAIN got, NEW X, NEW z, Came(t, got),
           report = Said("none", With(Rows(t, got), X), Sizes({t}, got), z).report,
           call.tool \notin {"get_parameter_recommendations", "get_task_lists",
                             "get_task_list_details"},
           t # "STC_SCN_HDR_T", TrueCount = Cardinality(Those(t, X))
    PROVE  Sound
<1> DEFINE count == With(Rows(t, got), X)
<1>1. /\ report.error = FALSE /\ report.risk = "none" /\ report.count = count
      /\ report.total = Sizes({t}, got)
  BY SaidFields
<1>2. /\ count \in Nat /\ count <= TrueCount
      /\ Rows(t, got) = Full(t) => count = TrueCount
  BY CountOfRows, DoneIsReturned
<1>3. CountedWhole => Rows(t, got) = Full(t)
  <2>1. report.total[t] = Len(Rows(t, got)) /\ call \in Asks
    BY <1>1, SizesOf, DoneIsReturned
  <2>2. CountedWhole => ToldWhole(t)
    BY DEF CountedWhole
  <2> QED BY <2>1, <2>2, WholeTable
<1> HIDE DEF count
<1>4. Typed
  <2>1. DOMAIN Sizes({t}, got) \subseteq DOMAIN got
    BY SizesOf
  <2> QED BY <1>2, <2>1, SaidIsTyped DEF count
<1>5. LowIsClear /\ AlarmHasCause
  BY <1>1 DEF LowIsClear, AlarmHasCause
<1>6. CountIsTrue
  BY <1>1, <1>2, <1>3 DEF CountIsTrue, Silent
<1> QED BY <1>4, <1>5, <1>6 DEF Sound

----------------------------------------------------------------------------
(* The tools that count, one by one.                                        *)

LEMMA JobsSound == ASSUME Inv, Done, call.tool = "get_background_jobs" PROVE Sound
<1>1. Step = Jobs(call, got)
  BY DEF Step, Tool
<1>2. /\ "TBTCO" \in DOMAIN got
      /\ \/ report = Error.report
         \/ /\ Came("TBTCO", got)
            /\ report = Said("none", With(Rows("TBTCO", got), {"A"}), Sizes({"TBTCO"}, got), {}).report
  BY <1>1, DoneIsReturned, GivenReturns DEF Jobs
<1>3. TrueCount = Cardinality(Those("TBTCO", {"A"}))
  BY DEF TrueCount
<1> QED BY <1>2, <1>3, CountIsSound, ErrorIsSound

LEMMA UpdatesSound == ASSUME Inv, Done, call.tool = "check_update_errors" PROVE Sound
<1>1. Step = Updates(call, got)
  BY DEF Step, Tool
<1>2. /\ "VBHDR" \in DOMAIN got
      /\ \/ report = Error.report
         \/ /\ Came("VBHDR", got)
            /\ report = Said("none", With(Rows("VBHDR", got), {"E"}),
                             Sizes({"VBHDR"}, got), {}).report
  BY <1>1, DoneIsReturned, GivenReturns DEF Updates
<1>3. TrueCount = Cardinality(Those("VBHDR", {"E"}))
  BY DEF TrueCount
<1> QED BY <1>2, <1>3, CountIsSound, ErrorIsSound

LEMMA WorkProcessesSound == ASSUME Inv, Done, call.tool = "get_work_process_status" PROVE Sound
<1>1. Step = WorkProcesses(call, got)
  BY DEF Step, Tool
<1>2. /\ "WPLIST" \in DOMAIN got
      /\ \/ report = Error.report
         \/ /\ Came("WPLIST", got)
            /\ report = Said("none", With(Rows("WPLIST", got), {"Hold", "Stopped"}),
                             Sizes({"WPLIST"}, got), {}).report
  BY <1>1, DoneIsReturned, GivenReturns DEF WorkProcesses
<1>3. TrueCount = Cardinality(Those("WPLIST", {"Hold", "Stopped"}))
  BY DEF TrueCount
<1> QED BY <1>2, <1>3, CountIsSound, ErrorIsSound

LEMMA SnapshotsSound ==
    ASSUME Inv, Done,
           call.tool \in {"get_response_time_analysis", "get_memory_usage",
                          "analyze_buffer_performance"}
    PROVE  Sound
<1>1. Step = Snapshot(got)
  BY DEF Step, Tool, ResponseTimes, Memory, Buffers
<1>2. /\ "WPLIST" \in DOMAIN got
      /\ \/ report = Error.report
         \/ /\ Came("WPLIST", got)
            /\ report = Said("none", With(Rows("WPLIST", got), {"Run", "Running"}),
                             Sizes({"WPLIST"}, got), {}).report
  BY <1>1, DoneIsReturned, GivenReturns DEF Snapshot
<1>3. TrueCount = Cardinality(Those("WPLIST", {"Run", "Running"}))
  BY DEF TrueCount
<1> QED BY <1>2, <1>3, CountIsSound, ErrorIsSound

LEMMA TaskListRunsSound == ASSUME Inv, Done, call.tool = "get_task_list_runs" PROVE Sound
<1>1. Step = TaskListRuns(call, got)
  BY DEF Step, Tool
<1>2. /\ "STC_SESSION" \in DOMAIN got
      /\ \/ report = Error.report
         \/ /\ Came("STC_SESSION", got)
            /\ report = Said("none", With(Rows("STC_SESSION", got), {"12"}),
                             Sizes({"STC_SESSION"}, got), {}).report
  BY <1>1, DoneIsReturned, GivenReturns, AfterReturns DEF TaskListRuns
<1>3. TrueCount = Cardinality(Those("STC_SESSION", {"12"}))
  BY DEF TrueCount
<1> QED BY <1>2, <1>3, CountIsSound, ErrorIsSound

\* What a tool found of what there was in a table.
LEMMA Found ==
    ASSUME Inv, call \in Asks, NEW t \in DOMAIN got,
           NEW B \in SUBSET DOMAIN Full(t), NEW A \in SUBSET B
    PROVE  /\ IsFiniteSet(A) /\ IsFiniteSet(B)
           /\ Cardinality(A) \in Nat /\ Cardinality(B) \in Nat
           /\ Cardinality(A) <= Cardinality(B)
           /\ Cardinality(A) = 0 <=> A = {}
<1>1. IsFiniteSet(B)
  BY RowsOfTable, FewerOf
<1> QED BY <1>1, FewerOf

\* A report without a risk whose count is as good as it says.
LEMMA PlainIsSound ==
    ASSUME NEW k \in Nat, NEW n, NEW z, report = Said("none", k, n, z).report,
           DOMAIN n \subseteq DOMAIN got, CountIsTrue
    PROVE  Sound
<1>1. report.error = FALSE /\ report.risk = "none" /\ report.count = k /\ report.total = n
  BY SaidFields
<1>2. Typed
  BY SaidIsTyped
<1>3. LowIsClear /\ AlarmHasCause
  BY <1>1 DEF LowIsClear, AlarmHasCause
<1> QED BY <1>2, <1>3 DEF Sound

LEMMA InstancesSound == ASSUME Inv, Done, call.tool = "get_instance_status" PROVE Sound
<1>1. Step = Instances(call, got)
  BY DEF Step, Tool
<1> DEFINE total == [t \in {"RFC_SYSTEM_INFO"} |-> 1]
<1>2. /\ "RFC_SYSTEM_INFO" \in DOMAIN got
      /\ \/ report = Error.report
         \/ report = Said("none", 1, total, {}).report
  BY <1>1, DoneIsReturned, GivenReturns DEF Instances
<1>3. DOMAIN total \subseteq DOMAIN got
  BY <1>2
<1>4. CountIsTrue
  BY DEF CountIsTrue, Counting
<1> QED BY <1>2, <1>3, <1>4, PlainIsSound, ErrorIsSound

\* All rows that came are counted; without any the report tells of no table.
LEMMA DatabaseSound == ASSUME Inv, Done, call.tool = "get_database_performance" PROVE Sound
<1> DEFINE T == "DBSTATC"
           count == Len(Rows(T, got))
           total == Sizes({T}, got)
<1>1. Step = Database(call, got)
  BY DEF Step, Tool
<1>2. /\ T \in DOMAIN got /\ call \in Asks
      /\ \/ report = Said("none", 0, <<>>, {}).report
         \/ Came(T, got) /\ report = Said("none", count, total, {}).report
  BY <1>1, DoneIsReturned, AfterReturns DEF Database, Note
<1>3. /\ Len(Full(T)) \in Nat /\ count \in Nat /\ count <= Len(Full(T))
      /\ TrueCount = Len(Full(T))
  BY <1>2, RowsOfTable, ListOf DEF TrueCount
<1> SUFFICES CountIsTrue
  <2>1. 0 \in Nat /\ DOMAIN <<>> \subseteq DOMAIN got
    BY EmptyList
  <2>2. DOMAIN total \subseteq DOMAIN got
    BY <1>2, SizesOf
  <2> HIDE DEF count, total
  <2> QED BY <1>2, <1>3, <2>1, <2>2, PlainIsSound
<1>4. call.tool \notin Silent /\ call.tool # "get_task_list_runs"
  BY DEF Silent
<1>5. CASE report = Said("none", 0, <<>>, {}).report
  <2>1. report.count = 0 /\ report.total = <<>>
    BY <1>5, SaidFields
  <2>2. ~AllToldWhole
    BY <1>2, <2>1, EmptyList DEF AllToldWhole, ToldWhole
  <2> QED BY <1>3, <1>4, <2>1, <2>2, ToldIsCounted
<1>6. CASE Came(T, got) /\ report = Said("none", count, total, {}).report
  <2>1. report.count = count /\ report.total = total
    BY <1>6, SaidFields
  <2>2. AllToldWhole => Rows(T, got) = Full(T)
    BY <1>2, <1>6, <2>1, SizesOf, WholeTable DEF AllToldWhole
  <2> QED BY <1>3, <1>4, <2>1, <2>2, ToldIsCounted
<1> QED BY <1>2, <1>5, <1>6

\* The tasks are counted that are of a list whose header came.
LEMMA TaskListsSound == ASSUME Inv, Done, call.tool = "get_task_lists" PROVE Sound
<1> DEFINE H == "STC_SCN_HDR"
           T == "STC_SCN_TASKS"
           lists == {Rows(H, got)[i] : i \in DOMAIN Rows(H, got)}
           all == {Full(H)[i] : i \in DOMAIN Full(H)}
           count == With(Rows(T, got), lists)
           detail == [l \in lists |-> With(Rows(T, got), {l})]
           total == Sizes({H}, got)
<1>1. Step = TaskLists(call, got)
  BY DEF Step, Tool
<1>2. /\ {H, T} \subseteq DOMAIN got /\ call \in Asks
      /\ \/ report = Error.report
         \/ report = Said("none", count, total, detail).report
  BY <1>1, DoneIsReturned, AfterReturns, GivenReturns DEF TaskLists
<1> SUFFICES ASSUME report = Said("none", count, total, detail).report PROVE Sound
  BY <1>2, ErrorIsSound
<1>3. report.count = count
  <2> HIDE DEF count, total, detail
  <2> QED BY SaidFields
<1>4. lists \subseteq all /\ (Rows(H, got) = Full(H) => lists = all)
  BY <1>2, RowsOfTable
<1>5. /\ count \in Nat /\ Cardinality(Those(T, lists)) \in Nat
      /\ count <= Cardinality(Those(T, lists))
      /\ Rows(T, got) = Full(T) => count = Cardinality(Those(T, lists))
  <2> HIDE DEF lists
  <2> QED BY <1>2, CountOfRows
<1>6. /\ Cardinality(Those(T, all)) \in Nat
      /\ Cardinality(Those(T, lists)) <= Cardinality(Those(T, all))
  <2>1. Those(T, lists) \subseteq Those(T, all) /\ Those(T, all) \subseteq DOMAIN Full(T)
    BY <1>4 DEF Those
  <2> HIDE DEF lists, all
  <2> QED BY <1>2, <2>1, Found
<1>7. TrueCount = Cardinality(Those(T, all))
  BY DEF TrueCount
<1>8. DOMAIN total \subseteq DOMAIN got
  BY <1>2, SizesOf
<1>9. ReadWhole => Rows(H, got) = Full(H) /\ Rows(T, got) = Full(T)
  BY <1>2 DEF ReadWhole, Rows
<1> HIDE DEF count, total, detail, lists, all
<1>10. CountIsTrue
  BY <1>3, <1>4, <1>5, <1>6, <1>7, <1>9, SilentIsCounted DEF Silent
<1> QED BY <1>5, <1>8, <1>10, PlainIsSound

LEMMA TaskListDetailsSound ==
    ASSUME Inv, Done, call.tool = "get_task_list_details" PROVE Sound
<1> DEFINE T == "STC_SCN_TASKS"
           count == Len(Rows(T, got))
           total == Sizes({"STC_SCN_HDR"}, got)
<1>1. Step = TaskListDetails(call, got)
  BY DEF Step, Tool
<1>2. /\ {"STC_SCN_HDR", T} \subseteq DOMAIN got /\ call \in Asks
      /\ \/ report = Error.report
         \/ report = Said("none", count, total, {}).report
  BY <1>1, DoneIsReturned, AfterReturns, GivenReturns DEF TaskListDetails
<1> SUFFICES ASSUME report = Said("none", count, total, {}).report PROVE Sound
  BY <1>2, ErrorIsSound
<1>3. report.count = count
  <2> HIDE DEF count, total
  <2> QED BY SaidFields
<1>4. /\ count \in Nat /\ DOMAIN total \subseteq DOMAIN got
      /\ count <= TrueCount /\ (ReadWhole => count = TrueCount)
  <2>1. DOMAIN total \subseteq DOMAIN got
    BY <1>2, SizesOf
  <2>2. count \in Nat /\ count <= TrueCount
    BY <1>2, RowsOfTable, ListOf DEF TrueCount
  <2>3. ReadWhole => count = TrueCount
    BY <1>2 DEF TrueCount, ReadWhole, Rows
  <2> QED BY <2>1, <2>2, <2>3
<1> HIDE DEF count, total
<1>5. CountIsTrue
  BY <1>3, <1>4, SilentIsCounted DEF Silent
<1> QED BY <1>4, <1>5, PlainIsSound

\* The two reads of the system log: without either there is nothing to count.
LEMMA SyslogSound == ASSUME Inv, Done, call.tool = "get_syslog_critical" PROVE Sound
<1> DEFINE L == "MSG_LINE_DATA"
           count == SyslogErrors(call, got)
           total == Sizes(DOMAIN got, got)
<1>1. Step = Syslog(call, got)
  BY DEF Step, Tool
<1>2. /\ "TREE_NODES" \in DOMAIN got
      /\ \/ report = Error.report
         \/ report = Said("none", 0, <<>>, {}).report
         \/ L \in DOMAIN got /\ Came(L, got) /\ report = Said("none", count, total, {}).report
  <2>1. CASE got["TREE_NODES"].end = "failed" \/ Rows("TREE_NODES", got) = <<>>
    BY <1>1, <2>1, DoneIsReturned, AfterReturns DEF Syslog, Note
  <2>2. CASE ~(got["TREE_NODES"].end = "failed" \/ Rows("TREE_NODES", got) = <<>>)
    <3> DEFINE rest == CASE got[L].end = "failed" -> Error
                         [] got[L].end = "refused" -> Note
                         [] OTHER -> Said("none", count, total, {})
    <3>1. "TREE_NODES" \in DOMAIN got /\ Step = After({L}, got, rest)
      BY <1>1, <2>2, DoneIsReturned, AfterReturns DEF Syslog
    <3>2. L \in DOMAIN got /\ Step = rest
      BY <3>1, DoneIsReturned, AfterReturns
    <3>3. got[L].end \in Ends
      BY <3>2 DEF Inv, Heard
    <3> QED BY <3>1, <3>2, <3>3, DoneIsReturned DEF Ends, Came, Note
  <2> QED BY <2>1, <2>2
<1>3. CASE report = Error.report
  BY <1>3, ErrorIsSound
<1> DEFINE errors == {i \in DOMAIN Full(L) : Full(L)[i].severity = "error"}
           shown == {i \in DOMAIN Rows(L, got) : Rows(L, got)[i].severity = "error"}
<1>4. TrueCount = Cardinality(errors) /\ count = Cardinality(shown)
  BY DEF TrueCount, SyslogErrors
<1>5. CASE report = Said("none", 0, <<>>, {}).report
  <2>1. /\ report.error = FALSE /\ report.risk = "none" /\ report.count = 0
        /\ report.total = <<>>
    BY <1>5, SaidFields
  <2>2. ~AllToldWhole
    BY <1>2, <2>1, EmptyList DEF AllToldWhole, ToldWhole
  <2>3. TrueCount \in Nat
    <3>1. CASE L \in DOMAIN got
      BY <1>4, <3>1, Found, DoneIsReturned
    <3>2. CASE L \notin DOMAIN got
      <4>1. errors = {}
        BY <3>2, EmptyList DEF Full
      <4>2. Cardinality(errors) = 0
        BY <4>1, FS_EmptySet
      <4> QED BY <1>4, <4>2
    <3> QED BY <3>1, <3>2
  <2>4. Typed
    <3>1. 0 \in Nat /\ DOMAIN <<>> \subseteq DOMAIN got
      BY EmptyList
    <3> QED BY <1>5, <3>1, SaidIsTyped
  <2>5. LowIsClear /\ AlarmHasCause
    BY <2>1 DEF LowIsClear, AlarmHasCause
  <2>6. CountIsTrue
    BY <2>1, <2>2, <2>3, ToldIsCounted DEF Silent
  <2> QED BY <2>4, <2>5, <2>6 DEF Sound
<1>6. CASE L \in DOMAIN got /\ Came(L, got) /\ report = Said("none", count, total, {}).report
  <2>1. /\ report.error = FALSE /\ report.risk = "none" /\ report.count = count
        /\ report.total = total
    BY <1>6, SaidFields
  <2>2. errors \subseteq DOMAIN Full(L) /\ shown \subseteq errors
    BY <1>6, DoneIsReturned, RowsOfTable
  <2>3. count \in Nat /\ TrueCount \in Nat /\ count <= TrueCount
    BY <1>4, <1>6, <2>2, Found, DoneIsReturned
  <2>4. AllToldWhole => count = TrueCount
    <3> SUFFICES ASSUME AllToldWhole PROVE count = TrueCount
      OBVIOUS
    <3>1. Rows(L, got) = Full(L)
      BY <1>6, <2>1, SizesOf, WholeTable, DoneIsReturned DEF AllToldWhole
    <3> QED BY <1>4, <3>1
  <2>5. Typed
    <3>1. DOMAIN total \subseteq DOMAIN got
      BY SizesOf
    <3> HIDE DEF count, total
    <3> QED BY <1>6, <2>3, <3>1, SaidIsTyped
  <2>6. LowIsClear /\ AlarmHasCause
    BY <2>1 DEF LowIsClear, AlarmHasCause
  <2>7. CountIsTrue
    BY <2>1, <2>3, <2>4, ToldIsCounted DEF Silent
  <2> QED BY <2>5, <2>6, <2>7 DEF Sound
<1> QED BY <1>2, <1>3, <1>5, <1>6

----------------------------------------------------------------------------
(* The tools that judge: clients, SNC and locks.                             *)

\* A finite set whose members are marked, or those of two such sets.
LEMMA Marked ==
    ASSUME NEW A, IsFiniteSet(A), NEW B, IsFiniteSet(B), NEW x, NEW y
    PROVE  IsFiniteSet(({x} \X A) \cup ({y} \X B)) /\ IsFiniteSet((A \X {x}) \cup (B \X {y}))
<1>1. IsFiniteSet({x}) /\ IsFiniteSet({y})
  BY FS_Singleton
<1>2. /\ IsFiniteSet({x} \X A) /\ IsFiniteSet({y} \X B)
      /\ IsFiniteSet(A \X {x}) /\ IsFiniteSet(B \X {y})
  BY <1>1, FS_Product
<1> QED BY <1>2, FS_Union

\* A client setting that is found is one SAP had, and all are found in a whole
\* table.
LEMMA ClientsSound == ASSUME Inv, Done, call.tool = "get_client_settings" PROVE Sound
<1> DEFINE rows == Rows("T000", got)
           findings == ClientFindings(rows)
           count == Cardinality(findings)
           risk == IF findings = {} THEN "LOW" ELSE "HIGH"
           total == Sizes({"T000"}, got)
<1>1. Step = Clients(call, got)
  BY DEF Step, Tool
<1>2. /\ "T000" \in DOMAIN got
      /\ \/ report = Error.report
         \/ Came("T000", got) /\ report = Said(risk, count, total, {}).report
  BY <1>1, DoneIsReturned, GivenReturns DEF Clients
<1> SUFFICES ASSUME Came("T000", got), report = Said(risk, count, total, {}).report PROVE Sound
  BY <1>2, ErrorIsSound
<1>3. /\ report.error = FALSE /\ report.risk = risk /\ report.count = count
      /\ report.total = total
  BY SaidFields
<1>4. /\ IsFiniteSet(DOMAIN rows)
      /\ \A i \in DOMAIN rows : i \in DOMAIN Full("T000") /\ rows[i] = Full("T000")[i]
  BY <1>2, DoneIsReturned, RowsOfTable
<1>5. /\ \A f \in findings : f[1] \in OpenClients
      /\ rows = Full("T000") => \A i \in OpenClients : <<i, "cross">> \in findings
                                                       \/ <<i, "changes">> \in findings
  <2>1. \A f \in findings : f[1] \in OpenClients
    BY <1>4 DEF ClientFindings, OpenClients
  <2>2. rows = Full("T000") => \A i \in OpenClients : <<i, "cross">> \in findings
                                                       \/ <<i, "changes">> \in findings
    BY DEF ClientFindings, OpenClients
  <2> QED BY <2>1, <2>2
<1>6. count \in Nat
  <2>1. /\ IsFiniteSet({j \in DOMAIN rows : rows[j].cross = "0"})
        /\ IsFiniteSet({j \in DOMAIN rows : rows[j].category = "P" /\ rows[j].changes # "1"})
    BY <1>4, FewerOf
  <2>2. IsFiniteSet(findings)
    BY <2>1, Marked DEF ClientFindings
  <2> HIDE DEF findings
  <2> QED BY <2>2, FS_CardinalityType
<1>7. AllToldWhole => rows = Full("T000")
  BY <1>2, <1>3, SizesOf, WholeTable, DoneIsReturned DEF AllToldWhole
<1> HIDE DEF rows, findings
<1>8. Typed
  <2>1. DOMAIN total \subseteq DOMAIN got
    BY <1>2, SizesOf
  <2> HIDE DEF count, total
  <2> QED BY <1>6, <2>1, SaidIsTyped
<1>9. LowIsClear
  <2> SUFFICES ASSUME report.risk = "LOW", AllToldWhole PROVE OpenClients = {}
    BY DEF LowIsClear
  <2> QED BY <1>3, <1>5, <1>7
<1>10. AlarmHasCause
  <2> SUFFICES ASSUME report.risk = "HIGH" PROVE OpenClients # {}
    BY <1>3 DEF AlarmHasCause
  <2> QED BY <1>3, <1>5
<1>11. CountIsTrue
  BY DEF CountIsTrue, Counting
<1> QED BY <1>8, <1>9, <1>10, <1>11 DEF Sound

LEMMA SncSound == ASSUME Inv, Done, call.tool = "check_snc_configuration" PROVE Sound
<1> DEFINE rows == Rows("PAHI", got)
           enabled == \E i \in DOMAIN rows : rows[i].name = "snc/enable" /\ rows[i].value = "1"
           risk == IF enabled THEN "LOW" ELSE "HIGH"
           total == Sizes({"PAHI"}, got)
<1>1. Step = Snc(call, got)
  BY DEF Step, Tool
<1>2. /\ "PAHI" \in DOMAIN got
      /\ \/ report = Error.report
         \/ Came("PAHI", got) /\ report = Said(risk, 0, total, {}).report
  BY <1>1, DoneIsReturned, GivenReturns DEF Snc
<1> SUFFICES ASSUME Came("PAHI", got), report = Said(risk, 0, total, {}).report PROVE Sound
  BY <1>2, ErrorIsSound
<1>3. report.error = FALSE /\ report.risk = risk /\ report.count = 0 /\ report.total = total
  BY SaidFields
<1>4. \A i \in DOMAIN rows : i \in DOMAIN Full("PAHI") /\ rows[i] = Full("PAHI")[i]
  BY <1>2, DoneIsReturned, RowsOfTable
<1>5. (enabled => Encrypted) /\ (rows = Full("PAHI") => (enabled <=> Encrypted))
  BY <1>4 DEF Encrypted
<1>6. AllToldWhole => rows = Full("PAHI")
  BY <1>2, <1>3, SizesOf, WholeTable, DoneIsReturned DEF AllToldWhole
<1> HIDE DEF rows, enabled
<1>7. Typed
  <2>1. DOMAIN total \subseteq DOMAIN got
    BY <1>2, SizesOf
  <2> HIDE DEF total
  <2> QED BY <2>1, SaidIsTyped
<1>8. LowIsClear
  <2> SUFFICES ASSUME report.risk = "LOW" PROVE Encrypted
    BY DEF LowIsClear
  <2> QED BY <1>3, <1>5
<1>9. AlarmHasCause
  <2> SUFFICES ASSUME report.risk \in {"MEDIUM", "HIGH"}, AllToldWhole PROVE ~Encrypted
    BY DEF AlarmHasCause
  <2> QED BY <1>3, <1>5, <1>6
<1>10. CountIsTrue
  BY DEF CountIsTrue, Counting
<1> QED BY <1>7, <1>8, <1>9, <1>10 DEF Sound

\* The list of locks is cut when it has arrived.
LEMMA LocksSound == ASSUME Inv, Done, call.tool = "get_lock_entries" PROVE Sound
<1> DEFINE full == Full("ENQ")
           rows == First(Rows("ENQ", got), call.cap)
           stale == Stale(rows, call.hours)
           heavy == Heavy(rows)
           count == Cardinality(stale)
           risk == IF stale = {} /\ heavy = {} THEN "LOW"
                   ELSE IF count >= StaleHigh THEN "HIGH" ELSE "MEDIUM"
           total == [t \in {"ENQ"} |-> Len(rows)]
<1>1. Step = Locks(call, got)
  BY DEF Step, Tool
<1>2. /\ "ENQ" \in DOMAIN got
      /\ \/ report = Error.report
         \/ Came("ENQ", got) /\ report = Said(risk, count, total, heavy).report
  BY <1>1, DoneIsReturned, GivenReturns DEF Locks
<1> SUFFICES ASSUME Came("ENQ", got), report = Said(risk, count, total, heavy).report PROVE Sound
  BY <1>2, ErrorIsSound
<1>3. /\ report.error = FALSE /\ report.risk = risk /\ report.count = count
      /\ report.total = total
  BY SaidFields
<1>4. /\ IsSequence(full) /\ rows = First(full, call.cap)
      /\ call.cap \in Nat /\ call.hours \in Nat
      /\ \A i \in DOMAIN full : full[i].age \in Int /\ full[i].age >= NoAge
  <2>1. Rows("ENQ", got) = full /\ IsSequence(full)
    BY <1>2, DoneIsReturned, RowsOfTable DEF Unlimited
  <2>2. full = got["ENQ"].full
    BY <1>2, DoneIsReturned, RowsOfTable
  <2>3. call.cap \in Nat /\ call.hours \in Nat
    BY DoneIsReturned, AskAssumption
  <2> QED BY <1>2, <2>1, <2>2, <2>3 DEF Inv, Heard
<1>5. /\ \A i \in DOMAIN rows : i \in DOMAIN full /\ rows[i] = full[i]
      /\ Len(rows) < call.cap => rows = full
  BY <1>4, FirstIsPrefix
<1> HIDE DEF rows, full
<1>6. /\ OldLocks = Stale(full, call.hours)
      /\ OldLocks \subseteq DOMAIN full /\ stale \subseteq OldLocks
  <2>1. OldLocks = Stale(full, call.hours)
    BY <1>4, NoAgeAssumption DEF OldLocks, Stale, full
  <2> QED BY <1>5, <2>1 DEF Stale
<1>7. /\ count \in Nat /\ Cardinality(OldLocks) \in Nat /\ count <= Cardinality(OldLocks)
      /\ count = 0 <=> stale = {}
  <2> HIDE DEF stale
  <2> QED BY <1>2, <1>6, Found, DoneIsReturned DEF full
<1>8. heavy \subseteq Hoarded /\ Hoarded = Heavy(full)
  <2>1. Hoarded = Heavy(full)
    BY DEF Hoarded, Heavy, full
  <2> SUFFICES ASSUME NEW u \in heavy PROVE u \in Heavy(full)
    BY <2>1
  <2> DEFINE few == {i \in DOMAIN rows : rows[i].owner = u}
             many == {i \in DOMAIN full : full[i].owner = u}
  <2>2. PICK k \in DOMAIN rows : u = rows[k].owner
    BY DEF Heavy
  <2>3. Cardinality(few) >= HeavyLocks
    BY DEF Heavy
  <2>4. few \subseteq many /\ many \subseteq DOMAIN full
    BY <1>5
  <2>5. /\ Cardinality(few) \in Nat /\ Cardinality(many) \in Nat
        /\ Cardinality(few) <= Cardinality(many)
    <3> HIDE DEF few, many
    <3> QED BY <1>2, <2>4, Found, DoneIsReturned DEF full
  <2>6. Cardinality(many) >= HeavyLocks
    BY <2>3, <2>5, LimitsAssumption
  <2> QED BY <1>5, <2>2, <2>6 DEF Heavy
<1>9. AllToldWhole => rows = full
  <2> SUFFICES ASSUME AllToldWhole PROVE rows = full
    OBVIOUS
  <2>1. total["ENQ"] < call.cap
    BY <1>2, <1>3 DEF AllToldWhole, ToldWhole, LimitOf
  <2> QED BY <1>5, <2>1
<1> HIDE DEF stale, heavy
<1>10. Typed
  <2>1. DOMAIN total \subseteq DOMAIN got
    BY <1>2
  <2> HIDE DEF count, total
  <2> QED BY <1>7, <2>1, SaidIsTyped
<1>11. LowIsClear
  <2> SUFFICES ASSUME report.risk = "LOW", AllToldWhole PROVE OldLocks = {} /\ Hoarded = {}
    BY DEF LowIsClear
  <2> QED BY <1>3, <1>6, <1>8, <1>9 DEF stale, heavy
<1>12. AlarmHasCause
  <2>1. ASSUME report.risk = "HIGH" PROVE Cardinality(OldLocks) >= StaleHigh
    BY <1>3, <1>7, <2>1, LimitsAssumption
  <2>2. ASSUME report.risk = "MEDIUM" PROVE OldLocks # {} \/ Hoarded # {}
    BY <1>3, <1>6, <1>8, <2>2
  <2> QED BY <2>1, <2>2 DEF AlarmHasCause
<1>13. CountIsTrue
  <2>1. TrueCount = Cardinality(OldLocks)
    BY DEF TrueCount
  <2>2. rows = full => count = Cardinality(OldLocks)
    BY <1>6 DEF stale
  <2> HIDE DEF count
  <2> QED BY <1>3, <1>7, <1>9, <2>1, <2>2, ToldIsCounted DEF Silent
<1> QED BY <1>10, <1>11, <1>12, <1>13 DEF Sound

----------------------------------------------------------------------------
(* The tools that judge two reads, or the oldest of many: spool and queues.  *)

LEMMA SpoolSound == ASSUME Inv, Done, call.tool = "get_spool_status" PROVE Sound
<1> DEFINE requests == Rows("TSP01", got)
           outputs == Rows("TSP02", got)
           failed == {i \in DOMAIN outputs : outputs[i] \in FailedOutput}
           aged == Aged(requests)
           count == Cardinality(failed)
           risk == IF failed = {} /\ Cardinality(aged) <= AgedHigh THEN "LOW"
                   ELSE IF count >= OutputsHigh THEN "HIGH" ELSE "MEDIUM"
           total == Sizes(Available(got), got)
           detail == Cardinality(aged)
<1>1. Step = Spool(call, got)
  BY DEF Step, Tool
<1>2. /\ "TSP01" \in DOMAIN got
      /\ \/ report = Error.report
         \/ /\ Came("TSP01", got) /\ "TSP02" \in DOMAIN got
            /\ report = Said(risk, count, total, detail).report
  <2> DEFINE rest == After({"TSP02"}, got, Said(risk, count, total, detail))
  <2>1. Step = Given("TSP01", got, rest)
    BY <1>1 DEF Spool
  <2> HIDE DEF rest
  <2>2. /\ "TSP01" \in DOMAIN got
        /\ Step = IF Came("TSP01", got) THEN rest ELSE Error
    BY <2>1, DoneIsReturned, GivenReturns
  <2> HIDE DEF risk, count, total, detail
  <2>3. Came("TSP01", got) => /\ "TSP02" \in DOMAIN got
                              /\ Step = Said(risk, count, total, detail)
    BY <2>2, DoneIsReturned, AfterReturns DEF rest
  <2> QED BY <2>2, <2>3, DoneIsReturned
<1> SUFFICES ASSUME Came("TSP01", got), "TSP02" \in DOMAIN got,
                    report = Said(risk, count, total, detail).report
             PROVE  Sound
  BY <1>2, ErrorIsSound
<1>3. /\ report.error = FALSE /\ report.risk = risk /\ report.count = count
      /\ report.total = total
  BY SaidFields
<1>4. /\ \A i \in DOMAIN requests : i \in DOMAIN Full("TSP01") /\ requests[i] = Full("TSP01")[i]
      /\ \A i \in DOMAIN outputs : i \in DOMAIN Full("TSP02") /\ outputs[i] = Full("TSP02")[i]
  BY <1>2, DoneIsReturned, RowsOfTable
<1>5. /\ aged \subseteq OldRequests /\ OldRequests \subseteq DOMAIN Full("TSP01")
      /\ failed \subseteq BadOutputs /\ BadOutputs \subseteq DOMAIN Full("TSP02")
      /\ requests = Full("TSP01") => aged = OldRequests
      /\ outputs = Full("TSP02") => failed = BadOutputs
  <2> HIDE DEF requests, outputs
  <2> QED BY <1>4 DEF Aged, OldRequests, BadOutputs, Those
<1> HIDE DEF failed, aged
<1>6. /\ count \in Nat /\ Cardinality(BadOutputs) \in Nat /\ count <= Cardinality(BadOutputs)
      /\ detail \in Nat /\ Cardinality(OldRequests) \in Nat
      /\ detail <= Cardinality(OldRequests)
  BY <1>2, <1>5, Found, DoneIsReturned
<1>7. AllToldWhole => requests = Full("TSP01") /\ outputs = Full("TSP02")
  <2> SUFFICES ASSUME AllToldWhole PROVE requests = Full("TSP01") /\ outputs = Full("TSP02")
    OBVIOUS
  <2>1. /\ ToldWhole("TSP01") /\ ToldWhole("TSP02")
        /\ "TSP01" \in Available(got) /\ "TSP02" \in Available(got)
    BY <1>2, <1>3, SizesOf DEF AllToldWhole, ToldWhole
  <2>2. /\ report.total["TSP01"] = Len(requests) /\ report.total["TSP02"] = Len(outputs)
        /\ Came("TSP02", got)
    BY <1>3, <2>1, SizesOf DEF Available
  <2> QED BY <1>2, <2>1, <2>2, WholeTable, DoneIsReturned
<1> HIDE DEF requests, outputs
<1>8. Typed
  <2>1. DOMAIN total \subseteq DOMAIN got
    BY <1>2, SizesOf DEF Available
  <2> HIDE DEF count, total, detail
  <2> QED BY <1>6, <2>1, SaidIsTyped
<1>9. LowIsClear
  <2> SUFFICES ASSUME report.risk = "LOW", AllToldWhole
               PROVE  BadOutputs = {} /\ Cardinality(OldRequests) <= AgedHigh
    BY DEF LowIsClear
  <2> QED BY <1>3, <1>5, <1>7
<1>10. AlarmHasCause
  <2>1. ASSUME report.risk = "HIGH" PROVE Cardinality(BadOutputs) >= OutputsHigh
    BY <1>3, <1>6, <2>1, LimitsAssumption
  <2>2. ASSUME report.risk = "MEDIUM"
        PROVE  BadOutputs # {} \/ Cardinality(OldRequests) > AgedHigh
    <3>1. failed # {} \/ ~(detail <= AgedHigh)
      BY <1>3, <2>2
    <3> QED BY <1>5, <1>6, <3>1, LimitsAssumption
  <2> QED BY <2>1, <2>2 DEF AlarmHasCause
<1>11. CountIsTrue
  <2>1. TrueCount = Cardinality(BadOutputs)
    BY DEF TrueCount
  <2>2. outputs = Full("TSP02") => count = Cardinality(BadOutputs)
    BY <1>5
  <2> HIDE DEF count
  <2> QED BY <1>3, <1>6, <1>7, <2>1, <2>2, ToldIsCounted DEF Silent
<1> QED BY <1>8, <1>9, <1>10, <1>11 DEF Sound

\* Of the entries that are open and dated one is the first of the oldest: there
\* are only so many, and each that is not has an older or earlier one before it.
LEMMA OldestIsFound ==
    ASSUME NEW rows, IsSequence(rows), \A i \in DOMAIN rows : rows[i].age \in Int,
           NEW k \in DOMAIN rows, rows[k].state # "EXECUTED", rows[k].age # NoAge
    PROVE  \E e \in {rows[i] : i \in OldestOpen(rows)} :
              /\ \E i \in DOMAIN rows : e = rows[i]
              /\ \A i \in DOMAIN rows :
                    rows[i].state # "EXECUTED" /\ rows[i].age # NoAge => e.age >= rows[i].age
<1> DEFINE open == {i \in DOMAIN rows : rows[i].state # "EXECUTED" /\ rows[i].age # NoAge}
           before(i) == {j \in open : rows[j].age > rows[i].age
                                        \/ (rows[j].age = rows[i].age /\ j < i)}
           size == [i \in open |-> Cardinality(before(i))]
           Less == {ss \in Nat \X Nat : ss[1] < ss[2]}
           sizes == {size[i] : i \in open}
<1>1. IsFiniteSet(open) /\ open \subseteq Nat
  <2>1. IsFiniteSet(DOMAIN rows) /\ DOMAIN rows = 1..Len(rows) /\ Len(rows) \in Nat
    BY ListOf
  <2> QED BY <2>1, FewerOf
<1>2. \A i \in open : IsFiniteSet(before(i)) /\ Cardinality(before(i)) \in Nat
  <2> TAKE i \in open
  <2>1. before(i) \in SUBSET open
    OBVIOUS
  <2> HIDE DEF open, before
  <2> QED BY <1>1, <2>1, FewerOf
<1>3. PICK i \in open : \A j \in open : ~(size[j] < size[i])
  <2>1. IsWellFoundedOn(Less, Nat)
    BY NatLessThanWellFounded DEF OpToRel
  <2>2. sizes \subseteq Nat /\ k \in open /\ sizes # {}
    BY <1>2
  <2> HIDE DEF Less, sizes
  <2>3. PICK n \in sizes : \A m \in sizes : ~(<<m, n>> \in Less)
    BY <2>1, <2>2, WFMin
  <2>4. PICK i \in open : n = size[i]
    BY <2>3 DEF sizes
  <2>5. \A j \in open : size[j] \in Nat /\ size[j] \in sizes
    BY <1>2 DEF sizes
  <2> HIDE DEF size, open
  <2>6. \A j \in open : ~(size[j] < size[i])
    BY <2>3, <2>4, <2>5 DEF Less
  <2> QED BY <2>4, <2>6
<1>4. before(i) = {}
  <2> SUFFICES ASSUME NEW j \in before(i) PROVE FALSE
    OBVIOUS
  <2>1. before(j) \subseteq before(i) \ {j}
    BY <1>1, <1>3
  <2>2. IsFiniteSet(before(i)) /\ Cardinality(before(i) \ {j}) = Cardinality(before(i)) - 1
        /\ IsFiniteSet(before(i) \ {j})
    <3> HIDE DEF before, open
    <3> QED BY <1>2, <1>3, FS_RemoveElement
  <2>3. j \in open /\ Cardinality(before(j)) <= Cardinality(before(i) \ {j})
    <3>1. j \in open
      OBVIOUS
    <3> HIDE DEF before, open
    <3> QED BY <2>1, <2>2, <3>1, FewerOf
  <2>4. size[j] = Cardinality(before(j)) /\ size[i] = Cardinality(before(i))
    BY <1>3, <2>3
  <2> HIDE DEF before, open, size
  <2> QED BY <1>2, <1>3, <2>2, <2>3, <2>4
<1>5. \A j \in open : rows[j].age < rows[i].age \/ (rows[j].age = rows[i].age /\ i <= j)
  BY <1>1, <1>3, <1>4
<1>6. i \in OldestOpen(rows)
  BY <1>3, <1>5 DEF OldestOpen
<1> QED BY <1>3, <1>5, <1>6

LEMMA TrfcSound == ASSUME Inv, Done, call.tool = "get_trfc_queue_status" PROVE Sound
<1> DEFINE T == "ARFCSSTATE"
           rows == Rows(T, got)
           failed == {i \in DOMAIN rows : rows[i].state \in FailedStates}
           oldest == {rows[i] : i \in OldestOpen(rows)}
           stuck == \E e \in oldest : e.state = "RECORDED" /\ e.age > StuckHours
           count == Cardinality(failed)
           risk == IF count > FailedHigh \/ stuck THEN "HIGH"
                   ELSE IF failed # {} THEN "MEDIUM" ELSE "LOW"
           total == Sizes({T}, got)
<1>1. Step = Trfc(call, got)
  BY DEF Step, Tool
<1>2. /\ T \in DOMAIN got
      /\ \/ report = Error.report
         \/ Came(T, got) /\ report = Said(risk, count, total, oldest).report
  <2>1. Step = Given(T, got, Said(risk, count, total, oldest))
    BY <1>1 DEF Trfc
  <2> HIDE DEF risk, count, total, oldest
  <2> QED BY <2>1, DoneIsReturned, GivenReturns
<1> SUFFICES ASSUME Came(T, got), report = Said(risk, count, total, oldest).report PROVE Sound
  BY <1>2, ErrorIsSound
<1>3. /\ report.error = FALSE /\ report.risk = risk /\ report.count = count
      /\ report.total = total /\ report.detail = oldest
  BY SaidFields
<1>4. /\ IsSequence(rows)
      /\ \A i \in DOMAIN rows : i \in DOMAIN Full(T) /\ rows[i] = Full(T)[i]
      /\ \A i \in DOMAIN Full(T) : Full(T)[i].age \in Int /\ Full(T)[i].age >= NoAge
  <2>1. Full(T) = got[T].full
    BY <1>2, DoneIsReturned, RowsOfTable
  <2> QED BY <1>2, <2>1, DoneIsReturned, RowsOfTable DEF Inv, Heard
<1>5. AllToldWhole => rows = Full(T)
  <2>1. report.total[T] = Len(Rows(T, got)) /\ call \in Asks /\ T \in DOMAIN got
    BY <1>2, <1>3, SizesOf, DoneIsReturned
  <2> QED BY <2>1, WholeTable DEF AllToldWhole
<1>6. /\ failed \subseteq Failed(T) /\ Failed(T) \subseteq DOMAIN Full(T)
      /\ rows = Full(T) => failed = Failed(T)
  <2> HIDE DEF rows
  <2> QED BY <1>4 DEF Failed
<1>7. /\ count \in Nat /\ Cardinality(Failed(T)) \in Nat /\ count <= Cardinality(Failed(T))
      /\ count = 0 <=> failed = {}
  <2> HIDE DEF failed
  <2> QED BY <1>2, <1>6, Found, DoneIsReturned
<1>8. stuck => Stuck # {}
  <2> SUFFICES ASSUME NEW i \in OldestOpen(rows), rows[i].state = "RECORDED",
                      rows[i].age > StuckHours
               PROVE  Stuck # {}
    OBVIOUS
  <2>1. i \in DOMAIN rows
    BY DEF OldestOpen
  <2> HIDE DEF rows
  <2> QED BY <1>4, <2>1 DEF Stuck
<1>9. ASSUME ~stuck, rows = Full(T), Stuck # {}
      PROVE  \E e \in oldest : e.state # "RECORDED" /\
                    \A i \in Stuck : e.age >= Full(T)[i].age
  <2>1. StuckHours \in Nat /\ NoAge \in Int /\ NoAge < 0
    BY LimitsAssumption, NoAgeAssumption
  <2>2. \A i \in Stuck : /\ i \in DOMAIN rows /\ rows[i].state = "RECORDED"
                         /\ rows[i].age > StuckHours /\ rows[i].age \in Int
                         /\ rows[i].age # NoAge
    <3> HIDE DEF rows
    <3> QED BY <1>4, <1>9, <2>1 DEF Stuck
  <2>3. PICK k \in Stuck : TRUE
    BY <1>9
  <2>4. \A i \in DOMAIN rows : rows[i].age \in Int
    BY <1>4
  <2> HIDE DEF rows
  <2>5. PICK e \in oldest :
          /\ \E i \in DOMAIN rows : e = rows[i]
          /\ \A i \in DOMAIN rows :
                rows[i].state # "EXECUTED" /\ rows[i].age # NoAge => e.age >= rows[i].age
    BY <1>4, <2>2, <2>3, <2>4, OldestIsFound
  <2>6. \A i \in Stuck : e.age >= rows[i].age
    BY <2>2, <2>5
  <2>7. e.age \in Int
    BY <2>4, <2>5
  <2>8. e.age > StuckHours
    BY <2>1, <2>2, <2>3, <2>6, <2>7
  <2>9. e.state # "RECORDED"
    BY <1>9, <2>5, <2>8
  <2> QED BY <1>9, <2>5, <2>6, <2>9
<1> HIDE DEF rows, failed, oldest, stuck
<1>10. Typed
  <2>1. DOMAIN total \subseteq DOMAIN got
    BY <1>2, SizesOf
  <2> HIDE DEF count, total
  <2> QED BY <1>7, <2>1, SaidIsTyped
<1>11. LowIsClear
  <2> SUFFICES ASSUME report.risk = "LOW", AllToldWhole
               PROVE  /\ Failed(T) = {}
                      /\ Stuck # {} => \E e \in oldest : e.state # "RECORDED" /\
                                         \A i \in Stuck : e.age >= Full(T)[i].age
    BY <1>3 DEF LowIsClear
  <2> QED BY <1>3, <1>5, <1>6, <1>9
<1>12. AlarmHasCause
  <2>1. ASSUME report.risk = "HIGH"
        PROVE  Cardinality(Failed(T)) > FailedHigh \/ Stuck # {}
    BY <1>3, <1>7, <1>8, <2>1, LimitsAssumption
  <2>2. ASSUME report.risk = "MEDIUM" PROVE Failed(T) # {}
    BY <1>3, <1>6, <2>2
  <2> QED BY <2>1, <2>2 DEF AlarmHasCause
<1>13. CountIsTrue
  <2>1. TrueCount = Cardinality(Failed(T))
    BY DEF TrueCount
  <2>2. rows = Full(T) => count = Cardinality(Failed(T))
    BY <1>6
  <2> HIDE DEF count
  <2> QED BY <1>3, <1>5, <1>7, <2>1, <2>2, ToldIsCounted DEF Silent
<1> QED BY <1>10, <1>11, <1>12, <1>13 DEF Sound

\* The queues of one direction that are failed are failed in SAP.
LEMMA QueuesOf ==
    ASSUME Inv, call \in Asks, NEW t \in {"TRFCQOUT", "TRFCQIN"}
    PROVE  /\ IsFiniteSet({Full(t)[i].queue : i \in Failed(t)})
           /\ t \notin DOMAIN got => {Full(t)[i].queue : i \in Failed(t)} = {}
           /\ t \in DOMAIN got =>
                 /\ FailedQueues(t, got) \subseteq {Full(t)[i].queue : i \in Failed(t)}
                 /\ Rows(t, got) = Full(t) =>
                        FailedQueues(t, got) = {Full(t)[i].queue : i \in Failed(t)}
<1> DEFINE queues == {Full(t)[i].queue : i \in Failed(t)}
           f == [i \in Failed(t) |-> Full(t)[i].queue]
<1>1. CASE t \notin DOMAIN got
  <2>1. Failed(t) = {}
    BY <1>1, EmptyList DEF Failed, Full
  <2>2. queues = {}
    BY <2>1
  <2> HIDE DEF queues
  <2>3. IsFiniteSet(queues)
    BY <2>2, FS_EmptySet
  <2> QED BY <1>1, <2>2, <2>3 DEF queues
<1>2. CASE t \in DOMAIN got
  <2>1. \A i \in DOMAIN Rows(t, got) : i \in DOMAIN Full(t) /\ Rows(t, got)[i] = Full(t)[i]
    BY <1>2, RowsOfTable
  <2>2. IsFiniteSet(Failed(t))
    BY <1>2, RowsOfTable, FewerOf DEF Failed
  <2>3. IsFiniteSet({f[i] : i \in Failed(t)})
    <3>1. DOMAIN f = Failed(t)
      OBVIOUS
    <3> HIDE DEF f
    <3> QED BY <2>2, <3>1, FiniteImage
  <2>4. {f[i] : i \in Failed(t)} = queues
    OBVIOUS
  <2>5. FailedQueues(t, got) \subseteq queues
    BY <2>1 DEF FailedQueues, Failed
  <2>6. Rows(t, got) = Full(t) => FailedQueues(t, got) = queues
    BY DEF FailedQueues, Failed
  <2> HIDE DEF f, queues
  <2> QED BY <1>2, <2>3, <2>4, <2>5, <2>6 DEF queues
<1> QED BY <1>1, <1>2

\* A direction that was not read is left out, and the report tells so.
LEMMA QrfcSound == ASSUME Inv, Done, call.tool = "get_qrfc_queue_status" PROVE Sound
<1> DEFINE O == "TRFCQOUT"
           I == "TRFCQIN"
           asked == CASE call.filter = "both" -> {O, I}
                      [] call.filter = "outbound" -> {O}
                      [] call.filter = "inbound" -> {I}
                      [] OTHER -> {}
           came == {t \in asked : Came(t, got)}
           failed == UNION {{t} \X FailedQueues(t, got) : t \in came}
           queues(t) == {Full(t)[i].queue : i \in Failed(t)}
           count == Cardinality(failed)
           risk == IF count >= QueuesHigh THEN "HIGH"
                   ELSE IF count > 0 THEN "MEDIUM" ELSE "LOW"
           total == Sizes(came, got)
           detail == asked \ came
<1>1. Step = Qrfc(call, got)
  BY DEF Step, Tool
<1>2. asked \subseteq {O, I}
  OBVIOUS
<1>3. \/ report = Error.report
      \/ asked \subseteq DOMAIN got /\ report = Said(risk, count, total, detail).report
  <2>1. CASE asked = {}
    BY <1>1, <2>1, DoneIsReturned DEF Qrfc
  <2>2. CASE asked # {}
    <3> DEFINE rest == After(asked, got, Said(risk, count, total, detail))
    <3>1. Step = After(asked \cap {O}, got, rest)
      BY <1>1, <2>2 DEF Qrfc
    <3> HIDE DEF rest, asked
    <3>2. Step = rest
      BY <3>1, DoneIsReturned, AfterReturns
    <3> HIDE DEF risk, count, total, detail
    <3> QED BY <3>2, DoneIsReturned, AfterReturns DEF rest
  <2> QED BY <2>1, <2>2
<1> SUFFICES ASSUME asked \subseteq DOMAIN got,
                    report = Said(risk, count, total, detail).report
             PROVE  Sound
  BY <1>3, ErrorIsSound
<1>4. /\ report.error = FALSE /\ report.risk = risk /\ report.count = count
      /\ report.total = total
  <2> HIDE DEF risk, count, total, detail
  <2> QED BY SaidFields
<1> HIDE DEF asked
<1>5. call \in Asks /\ came \subseteq asked
  BY DoneIsReturned
<1>6. FailedQ = ({O} \X queues(O)) \cup ({I} \X queues(I))
  BY DEF FailedQ
<1>7. IsFiniteSet(queues(O)) /\ IsFiniteSet(queues(I))
  BY <1>5, QueuesOf
<1>8. IsFiniteSet(FailedQ)
  <2> HIDE DEF queues
  <2> QED BY <1>6, <1>7, Marked
<1>9. \A t \in came : FailedQueues(t, got) \subseteq queues(t)
  BY <1>2, <1>5, QueuesOf
<1>10. failed \subseteq FailedQ
  <2> HIDE DEF queues
  <2> QED BY <1>2, <1>5, <1>6, <1>9
<1>11. /\ count \in Nat /\ Cardinality(FailedQ) \in Nat /\ count <= Cardinality(FailedQ)
       /\ count = 0 <=> failed = {}
  <2> HIDE DEF failed
  <2> QED BY <1>8, <1>10, FewerOf
<1>12. AllToldWhole => failed = FailedQ
  <2> SUFFICES ASSUME AllToldWhole PROVE FailedQ \subseteq failed
    BY <1>10
  <2>1. \A t \in DOMAIN got : t \in came /\ ToldWhole(t)
    BY <1>4, SizesOf DEF AllToldWhole, ToldWhole
  <2>2. \A t \in {O, I} : t \in DOMAIN got => Rows(t, got) = Full(t)
    <3> TAKE t \in {O, I}
    <3> SUFFICES ASSUME t \in DOMAIN got PROVE Rows(t, got) = Full(t)
      OBVIOUS
    <3>1. Came(t, got) /\ ToldWhole(t) /\ t \in came
      BY <2>1
    <3>2. report.total[t] = Len(Rows(t, got))
      BY <1>4, <3>1, SizesOf
    <3> QED BY <1>5, <3>1, <3>2, WholeTable
  <2>3. \A t \in {O, I} : (t \in came /\ FailedQueues(t, got) = queues(t)) \/ queues(t) = {}
    BY <1>5, <2>1, <2>2, QueuesOf
  <2> HIDE DEF queues, came
  <2> QED BY <1>6, <2>3
<1> HIDE DEF failed, came
<1>13. Typed
  <2>1. DOMAIN total \subseteq DOMAIN got
    BY <1>5, SizesOf
  <2> HIDE DEF count, total, detail
  <2> QED BY <1>11, <2>1, SaidIsTyped
<1>14. LowIsClear
  <2> SUFFICES ASSUME report.risk = "LOW", AllToldWhole PROVE FailedQ = {}
    BY DEF LowIsClear
  <2> QED BY <1>4, <1>11, <1>12
<1>15. AlarmHasCause
  <2>1. ASSUME report.risk = "HIGH" PROVE Cardinality(FailedQ) >= QueuesHigh
    BY <1>4, <1>11, <2>1, LimitsAssumption
  <2>2. ASSUME report.risk = "MEDIUM" PROVE Cardinality(FailedQ) >= 1
    BY <1>4, <1>11, <2>2
  <2> QED BY <2>1, <2>2 DEF AlarmHasCause
<1>16. CountIsTrue
  <2>1. TrueCount = Cardinality(FailedQ)
    BY DEF TrueCount
  <2>2. failed = FailedQ => count = Cardinality(FailedQ)
    OBVIOUS
  <2> HIDE DEF count
  <2> QED BY <1>4, <1>11, <1>12, <2>1, <2>2, ToldIsCounted DEF Silent
<1> QED BY <1>13, <1>14, <1>15, <1>16 DEF Sound

----------------------------------------------------------------------------
(* The parameters: what is judged is the newest value that was read.         *)

LEMMA ParametersSound ==
    ASSUME Inv, Done, call.tool = "get_parameter_recommendations" PROVE Sound
<1> DEFINE names == {Parameters[i] : i \in DOMAIN Parameters}
           shown == {Parameters[i] : i \in {j \in DOMAIN Parameters :
                        call.filter \in {"all", Advice[Parameters[j]].category}}}
           verdict == [p \in shown |-> Verdict(Current(Rows(p, got)), Advice[p])]
           bad == {p \in shown : verdict[p] = "not_compliant"}
           count == Cardinality(bad)
           wrong == {p \in names :
                       /\ call.filter \in {"all", Advice[p].category}
                       /\ Newest(p) \notin {NoNumber, Empty} /\ ~Complies(Newest(p), Advice[p])}
           unread == {i \in DOMAIN Parameters : Parameters[i] \notin DOMAIN got}
           next == CHOOSE i \in unread : \A j \in unread : i <= j
<1>1. Step = ParameterAdvice(call, got)
  BY DEF Step, Tool
<1>2. names \subseteq DOMAIN got /\ report = Said("none", count, <<>>, verdict).report
  <2>1. Step = IF unread # {} THEN Read({Parameters[next]})
               ELSE Said("none", count, <<>>, verdict)
    BY <1>1 DEF ParameterAdvice
  <2> HIDE DEF count, verdict, next, unread
  <2>2. unread = {}
    BY <2>1, DoneIsReturned DEF Read
  <2>3. report = Said("none", count, <<>>, verdict).report
    BY <2>1, <2>2, DoneIsReturned
  <2> QED BY <2>2, <2>3 DEF unread
<1>3. /\ report.error = FALSE /\ report.risk = "none" /\ report.count = count
      /\ report.total = <<>>
  <2> HIDE DEF count, verdict
  <2> QED BY <1>2, SaidFields
<1>4. IsFiniteSet(names)
  <2>1. IsFiniteSet(DOMAIN Parameters)
    BY ParametersAssumption, ListOf
  <2> QED BY <2>1, FiniteImage
<1>5. count \in Nat
  <2>1. bad \subseteq names
    OBVIOUS
  <2> HIDE DEF bad, names
  <2> QED BY <1>4, <2>1, FewerOf
<1>6. ASSUME ReadWhole PROVE bad = wrong
  <2>1. \A p \in names : Current(Rows(p, got)) = Newest(p)
    BY <1>2, <1>6 DEF Current, Newest, Rows, ReadWhole
  <2>2. shown = {p \in names : call.filter \in {"all", Advice[p].category}}
    OBVIOUS
  <2>3. \A p \in shown : p \in bad <=> Verdict(Newest(p), Advice[p]) = "not_compliant"
    BY <2>1
  <2>4. \A p \in names : Verdict(Newest(p), Advice[p]) = "not_compliant" <=>
          Newest(p) \notin {NoNumber, Empty} /\ ~Complies(Newest(p), Advice[p])
    BY DEF Verdict
  <2>5. bad \subseteq shown
    OBVIOUS
  <2> HIDE DEF names, shown, bad
  <2> QED BY <2>2, <2>3, <2>4, <2>5
<1>7. TrueCount = Cardinality(wrong)
  BY DEF TrueCount
<1> HIDE DEF bad, wrong, verdict
<1>8. Typed
  <2>1. DOMAIN <<>> \subseteq DOMAIN got
    BY EmptyList
  <2> HIDE DEF count
  <2> QED BY <1>2, <1>5, <2>1, SaidIsTyped
<1>9. LowIsClear /\ AlarmHasCause
  BY <1>3 DEF LowIsClear, AlarmHasCause
<1>10. CountIsTrue
  BY <1>3, <1>6, <1>7 DEF CountIsTrue, Silent
<1> QED BY <1>8, <1>9, <1>10 DEF Sound

----------------------------------------------------------------------------
(* The theorems.                                                            *)

LEMMA EveryReportSound == ASSUME Inv, Done PROVE Sound
<1>1. call.tool \in Tools
  BY DoneIsReturned, AskAssumption
<1> QED
  BY <1>1, TrfcSound, QrfcSound, LocksSound, SpoolSound, JobsSound, ClientsSound, SncSound,
     InstancesSound, SyslogSound, UpdatesSound, WorkProcessesSound, SnapshotsSound,
     DatabaseSound, ParametersSound, TaskListsSound, TaskListDetailsSound, TaskListRunsSound
  DEF Tools

\* Types are those the code can put there: a tool has no more rows than SAP, none
\* of a read that failed, and a report speaks only of tables that were asked for.
THEOREM ToolTypes == Spec => []TypeOK
<1>1. Inv => TypeOK
  <2> SUFFICES ASSUME Inv PROVE TypeOK
    OBVIOUS
  <2>1. ASSUME NEW t \in DOMAIN got
        PROVE  /\ got[t].end \in Ends
               /\ Len(got[t].rows) <= Len(got[t].full)
               /\ got[t].end # "answered" => got[t].rows = <<>>
    <3>1. call \in Asks
      BY <2>1, EmptyList DEF Inv
    <3> QED BY <2>1, <3>1, RowsOfTable DEF Inv, Heard, Rows, Came
  <2>2. Done => Typed
    BY EveryReportSound DEF Sound
  <2> QED BY <2>1, <2>2 DEF TypeOK, Typed, Inv
<1> QED BY <1>1, Invariance, PTL

\* LOW, from whichever tool, is safe to act on when the report tells that it saw
\* every table whole: SAP had nothing the tool looks for.
THEOREM LowMeansClear == Spec => []LowIsClear
<1>1. Inv => LowIsClear
  <2>1. Inv /\ Done => LowIsClear
    BY EveryReportSound DEF Sound
  <2>2. ~Done => LowIsClear
    BY DEF LowIsClear
  <2> QED BY <2>1, <2>2
<1> QED BY <1>1, Invariance, PTL

\* No alarm without a cause in SAP of the size the tool states, whichever reads
\* were cut, refused or failed.
THEOREM AlarmsHaveCauses == Spec => []AlarmHasCause
<1>1. Inv => AlarmHasCause
  <2>1. Inv /\ Done => AlarmHasCause
    BY EveryReportSound DEF Sound
  <2>2. ~Done => AlarmHasCause
    BY DEF AlarmHasCause
  <2> QED BY <2>1, <2>2
<1> QED BY <1>1, Invariance, PTL

\* Of the sixteen tools that count rows of SAP: a count is never too high, and too
\* low only where the report shows that something is missing.  The three that
\* CountIsTrue names are right if every row came; nothing shows that one did not.
THEOREM CountsAreTrue == Spec => []CountIsTrue
<1>1. Inv => CountIsTrue
  <2>1. Inv /\ Done => CountIsTrue
    BY EveryReportSound DEF Sound
  <2>2. ~Done => CountIsTrue
    BY DEF CountIsTrue
  <2> QED BY <2>1, <2>2
<1> QED BY <1>1, Invariance, PTL
=============================================================================
