---------------------------- MODULE HealthProofs ----------------------------
(* What holds of the health summary for any number of syslog areas.         *)
EXTENDS HealthSummary, TLAPS

\* A component that was not read is one the tool has marked unavailable, and
\* the verdict was drawn from the components as they are.
Marked ==
    /\ "instances" \in unread => instances = "unavailable"
    /\ "jobs" \in unread => jobs = "unavailable"
    /\ "syslog" \in unread => syslog = "unavailable"
    /\ pc = "instances" => unread = {}
    /\ pc = "jobs" => unread \subseteq {"instances"}
    /\ pc \in {"tree", "history"} => unread \subseteq {"instances", "jobs"}
    /\ health # "none" => health = Health(instances, jobs, syslog)

\* Every reachable state of the health summary is well typed, whatever way its
\* requests end.
THEOREM HealthTypes == Spec => []TypeOK
  <1>1. Init => TypeOK
    BY DEF Init, TypeOK
  <1>2. TypeOK /\ [Next]_vars => TypeOK'
    <2> SUFFICES ASSUME TypeOK, [Next]_vars
                 PROVE  TypeOK'
      OBVIOUS
    <2>1. CASE Call
      BY <2>1 DEF TypeOK, Call
    <2>2. ASSUME NEW o \in Outcomes, ReadInstances(o)
          PROVE  TypeOK'
      BY <2>2 DEF TypeOK, ReadInstances
    <2>3. ASSUME NEW o \in Outcomes, ReadJobs(o)
          PROVE  TypeOK'
      BY <2>3 DEF TypeOK, ReadJobs, Systems, Jobs
    <2>4. ASSUME NEW o \in Outcomes, ReadTree(o)
          PROVE  TypeOK'
      <3>1. CASE o = "answered" /\ sap.tree # {}
        BY <2>4, <3>1 DEF TypeOK, ReadTree, Systems
      <3>2. CASE ~(o = "answered" /\ sap.tree # {})
        <4>1. /\ \E r \in {"text", Reason(o)} : Return(r, "clean")
              /\ unread' = unread \cup {"syslog"}
              /\ UNCHANGED <<areas, problems>> /\ pc = "tree"
          BY <2>4, <3>2 DEF ReadTree
        <4> QED BY <4>1 DEF TypeOK, Return, Health
      <3> QED BY <3>1, <3>2
    <2>5. ASSUME NEW o \in Outcomes, ReadHistory(o)
          PROVE  TypeOK'
      BY <2>5 DEF TypeOK, ReadHistory, Return, Health
    <2>6. CASE SapChanges
      BY <2>6 DEF TypeOK, SapChanges, locals
    <2>7. CASE UNCHANGED vars
      BY <2>7 DEF TypeOK, vars, locals
    <2> QED BY <2>1, <2>2, <2>3, <2>4, <2>5, <2>6, <2>7 DEF Next
  <1> QED BY <1>1, <1>2, PTL DEF Spec

\* If no request ends in an exception without a text, a component that could
\* not be read makes the verdict UNKNOWN.
THEOREM FailedReadIsUnknown ==
    ASSUME "timed_out" \notin Outcomes
    PROVE  Spec => []FailureIsUnknown
  <1>1. Init => Marked
    BY DEF Init, Marked
  <1>2. TypeOK /\ Marked /\ [Next]_vars => Marked'
    <2> SUFFICES ASSUME TypeOK, Marked, [Next]_vars
                 PROVE  Marked'
      OBVIOUS
    <2>1. CASE Call
      BY <2>1 DEF Marked, Call
    <2>2. ASSUME NEW o \in Outcomes, ReadInstances(o)
          PROVE  Marked'
      BY <2>2 DEF Marked, TypeOK, ReadInstances, Flag
    <2>3. ASSUME NEW o \in Outcomes, ReadJobs(o)
          PROVE  Marked'
      <3>1. /\ pc = "jobs" /\ pc' = "tree"
            /\ UNCHANGED <<instances, syslog, health>>
        BY <2>3 DEF ReadJobs
      <3>2. CASE o = "answered"
        BY <2>3, <3>1, <3>2 DEF Marked, TypeOK, ReadJobs
      <3>3. CASE o # "answered"
        <4>1. jobs' = "unavailable"
          BY <2>3, <3>3 DEF ReadJobs, Flag
        <4>2. unread' = unread \cup {"jobs"}
          BY <2>3, <3>3 DEF ReadJobs
        <4> QED BY <3>1, <4>1, <4>2 DEF Marked, TypeOK
      <3> QED BY <3>2, <3>3
    <2>4. ASSUME NEW o \in Outcomes, ReadTree(o)
          PROVE  Marked'
      <3>1. o # "answered" => Truthy(Reason(o))
        BY OutcomeAssumption DEF Reason, Truthy
      <3> QED BY <2>4, <3>1 DEF Marked, TypeOK, ReadTree, Return, Truthy
    <2>5. ASSUME NEW o \in Outcomes, ReadHistory(o)
          PROVE  Marked'
      <3>1. o # "answered" => Truthy(Reason(o))
        BY OutcomeAssumption DEF Reason, Truthy
      <3>2. /\ pc' = "idle" /\ UNCHANGED <<instances, jobs>>
            /\ o # "answered" => syslog' = "unavailable"
            /\ health' = Health(instances, jobs, syslog')
            /\ unread' = unread \cup (IF o = "answered" THEN {} ELSE {"syslog"})
        BY <2>5, <3>1 DEF ReadHistory, Return
      <3>3. pc = "history"
        BY <2>5 DEF ReadHistory
      <3> QED BY <3>2, <3>3, TypeOK DEF Marked, TypeOK
    <2>6. CASE SapChanges
      BY <2>6 DEF Marked, SapChanges, locals
    <2>7. CASE UNCHANGED vars
      BY <2>7 DEF Marked, vars, locals
    <2> QED BY <2>1, <2>2, <2>3, <2>4, <2>5, <2>6, <2>7 DEF Next
  <1>3. TypeOK /\ Marked => FailureIsUnknown
    BY DEF TypeOK, Marked, FailureIsUnknown, Health
  <1> QED BY <1>1, <1>2, <1>3, HealthTypes, PTL DEF Spec

\* What SAP has shown is what the components say, a component that is marked
\* unavailable was not read, and the verdict was drawn from the components.
Recorded ==
    /\ pc \in {"instances", "jobs"} => problems = {}
    /\ pc \in {"tree", "history"} => problems \subseteq {"cancelled"}
    /\ pc \in {"instances", "jobs", "tree", "history"} => syslog = "unread"
    /\ pc \in {"instances", "jobs"} => jobs = "unread"
    /\ pc = "instances" => instances = "unread"
    /\ "cancelled" \in problems <=> jobs = "cancelled"
    /\ "errors" \in problems <=> syslog = "errors"
    /\ instances = "unavailable" => "instances" \in unread
    /\ jobs = "unavailable" => "jobs" \in unread
    /\ syslog = "unavailable" => "syslog" \in unread
    /\ health # "none" => health = Health(instances, jobs, syslog)

\* The end of a call: what the last answer adds to each side.
LEMMA ReturnIsRecorded ==
    ASSUME TypeOK, Recorded, pc \in {"tree", "history"},
           NEW reason, NEW log \in {"errors", "clean"}, Return(reason, log),
           Truthy(reason) => "syslog" \in unread' /\ log = "clean",
           unread \subseteq unread',
           problems' = problems \cup (IF log = "errors" THEN {"errors"} ELSE {})
    PROVE  Recorded'
<1>1. /\ pc' = "idle" /\ instances' = instances /\ jobs' = jobs
      /\ syslog' = IF Truthy(reason) THEN "unavailable" ELSE log
      /\ health' = Health(instances', jobs', syslog')
  BY DEF Return
<1>2. problems \subseteq {"cancelled"}
  BY DEF Recorded
<1> QED
  BY <1>1, <1>2 DEF Recorded

LEMMA RecordedHolds == Spec => []Recorded
  <1>1. Init => Recorded
    BY DEF Init, Recorded
  <1>2. TypeOK /\ Recorded /\ [Next]_vars => Recorded'
    <2> SUFFICES ASSUME TypeOK, Recorded, [Next]_vars
                 PROVE  Recorded'
      OBVIOUS
    <2>1. CASE Call
      BY <2>1 DEF Recorded, Call
    <2>2. ASSUME NEW o \in Outcomes, ReadInstances(o)
          PROVE  Recorded'
      BY <2>2 DEF Recorded, TypeOK, ReadInstances, Flag
    <2>3. ASSUME NEW o \in Outcomes, ReadJobs(o)
          PROVE  Recorded'
      <3>1. CASE o = "answered"
        BY <2>3, <3>1 DEF Recorded, TypeOK, ReadJobs, Flag
      <3>2. CASE o # "answered"
        BY <2>3, <3>2 DEF Recorded, TypeOK, ReadJobs, Flag
      <3> QED BY <3>1, <3>2
    <2>4. ASSUME NEW o \in Outcomes, ReadTree(o)
          PROVE  Recorded'
      <3>1. CASE o = "answered" /\ sap.tree # {}
        BY <2>4, <3>1 DEF Recorded, ReadTree
      <3>2. CASE ~(o = "answered" /\ sap.tree # {})
        <4>1. PICK reason : /\ Return(reason, "clean") /\ pc = "tree"
                            /\ unread' = unread \cup {"syslog"} /\ problems' = problems
          BY <2>4, <3>2 DEF ReadTree
        <4> QED BY <4>1, ReturnIsRecorded
      <3> QED BY <3>1, <3>2
    <2>5. ASSUME NEW o \in Outcomes, ReadHistory(o)
          PROVE  Recorded'
      <3> DEFINE found == o = "answered" /\ sap.errors \cap areas # {}
                 log == IF found THEN "errors" ELSE "clean"
      <3>1. /\ pc = "history" /\ Return(Reason(o), log)
            /\ problems' = problems \cup (IF found THEN {"errors"} ELSE {})
            /\ unread' = unread \cup (IF o = "answered" THEN {} ELSE {"syslog"})
        BY <2>5 DEF ReadHistory
      <3>2. Truthy(Reason(o)) => o # "answered"
        BY DEF Truthy, Reason
      <3>3. /\ log \in {"errors", "clean"} /\ unread \subseteq unread'
            /\ Truthy(Reason(o)) => "syslog" \in unread' /\ log = "clean"
            /\ problems' = problems \cup (IF log = "errors" THEN {"errors"} ELSE {})
        BY <3>1, <3>2
      <3> HIDE DEF log
      <3> QED BY <3>1, <3>3, ReturnIsRecorded
    <2>6. CASE SapChanges
      BY <2>6 DEF Recorded, SapChanges, locals
    <2>7. CASE UNCHANGED vars
      BY <2>7 DEF Recorded, vars, locals
    <2> QED BY <2>1, <2>2, <2>3, <2>4, <2>5, <2>6, <2>7 DEF Next
  <1> QED BY <1>1, <1>2, HealthTypes, PTL DEF Spec

\* OK is said of what SAP showed, and a warning has its cause in it, whatever way
\* the requests end and however SAP moves between them.
THEOREM VerdictsAreSeen == Spec => []VerdictIsSeen
  <1>1. TypeOK /\ Recorded => VerdictIsSeen
    <2> SUFFICES ASSUME TypeOK, Recorded PROVE VerdictIsSeen
      OBVIOUS
    <2>1. problems \subseteq {"cancelled", "errors"}
      BY DEF TypeOK
    <2> QED BY <2>1 DEF Recorded, VerdictIsSeen, Health
  <1> QED BY <1>1, RecordedHolds, HealthTypes, PTL

\* UNKNOWN is said only if a component was not read.
THEOREM UnknownHasCause == Spec => []UnknownIsUnread
  <1>1. Recorded => UnknownIsUnread
    BY DEF Recorded, UnknownIsUnread, Health
  <1> QED BY <1>1, RecordedHolds, PTL
============================================================================
