-------------------------- MODULE JcoBridgeProofs --------------------------
(* Theorems about JcoBridge for every pool, request and allow-list.         *)
EXTENDS JcoBridge, TLAPS

\* What the check of a handler guarantees about the request it lets through.
LEMMA RequestShape ==
    ASSUME NEW r \in Requests, Admitted(r)
    PROVE  /\ r.conn \in Conns
           /\ r.kind \in {"table", "call", "batch"}
           /\ r.calls \in Seq(Calls)
           /\ Len(r.calls) > 0
           /\ r.kind # "batch" => Len(r.calls) = 1
           /\ r.kind = "batch" => r.calls \in Batches
           /\ \A i \in 1..Len(r.calls) :
                /\ r.calls[i].fn \in Functions
                /\ r.calls[i].iface \in Interfaces
                /\ r.calls[i].fn \in Allowed \/ r.calls[i].fn = ReadTable
<1>1. /\ r.conn \in Conns
      /\ r.kind \in {"table", "call", "batch"}
      /\ r.kind = "batch" => r.calls \in Batches
      /\ r.kind # "batch" => r.calls \in Singles
      /\ r.kind = "table" => r.calls \in TableReads
  BY DEF Requests, TableReads, Singles
<1>2. ASSUME NEW s \in Singles PROVE s \in Seq(Calls) /\ Len(s) = 1
  <2>1. PICK c \in Calls : s = <<c>>
    BY DEF Singles
  <2> QED
    BY <2>1
<1>3. r.calls \in Seq(Calls)
  BY <1>1, <1>2, BatchAssumption
<1>4. Len(r.calls) > 0
  BY <1>3 DEF Admitted
<1>5. ASSUME NEW i \in 1..Len(r.calls)
      PROVE  /\ r.calls[i].fn \in Functions
             /\ r.calls[i].iface \in Interfaces
             /\ r.calls[i].fn \in Allowed \/ r.calls[i].fn = ReadTable
  <2>1. r.calls[i] \in Calls
    BY <1>3
  <2>2. Admissible(r.kind, r.calls[i])
    BY <1>3 DEF Admitted, Rejected
  <2>3. r.kind = "table" => r.calls[i].fn \in {ReadTable, Blank}
    BY <1>1 DEF TableReads
  <2> QED
    BY <2>1, <2>2, <2>3 DEF Admissible, Calls
<1> QED
  BY <1>1, <1>2, <1>3, <1>4, <1>5

\* What a worker that has a request may rely on.
LEMMA BusyWorker ==
    ASSUME TypeOK, NEW t \in Workers, pc[t] # "idle"
    PROVE  /\ req[t] \in Requests
           /\ Admitted(req[t])
           /\ req[t].conn \in Conns
           /\ NameOf(t) \in DestNames
           /\ req[t].kind \in {"table", "call", "batch"}
           /\ req[t].calls \in Seq(Calls)
           /\ Len(req[t].calls) > 0
           /\ req[t].kind # "batch" => Len(req[t].calls) = 1
           /\ req[t].kind = "batch" => req[t].calls \in Batches
  BY RequestShape, DestinationAssumption DEF TypeOK, NameOf, DestName

\* The call a running worker executes next is one that its request may make.
LEMMA CurrentCall ==
    ASSUME TypeOK, NEW t \in Workers, pc[t] = "run"
    PROVE  /\ done[t] + 1 \in 1..Len(req[t].calls)
           /\ Current(t) = req[t].calls[done[t] + 1]
           /\ Current(t).fn \in Functions
           /\ Current(t).iface \in Interfaces
           /\ Current(t).fn \in Allowed \/ Current(t).fn = ReadTable
<1>1. done[t] + 1 \in 1..Len(req[t].calls)
  BY BusyWorker DEF TypeOK
<1> QED
  BY <1>1, BusyWorker, RequestShape DEF Current

(***************************************************************************)
(* Types.                                                                   *)
(***************************************************************************)
\* Every reachable state is well typed, and a worker that is not idle serves a
\* request that its handler's check admitted.
THEOREM TypeCorrect == Spec => []TypeOK
<1>1. Init => TypeOK
  BY DEF Init, TypeOK, BeforeRun, InBatch
<1>2. TypeOK /\ [Next]_vars => TypeOK'
  <2> SUFFICES ASSUME TypeOK, [Next]_vars PROVE TypeOK'
    OBVIOUS
  <2> USE DestinationAssumption, FunctionAssumption DEF TypeOK, BeforeRun, InBatch
  <2>1. ASSUME NEW t \in Workers, NEW r \in Requests, Refuse(t, r) PROVE TypeOK'
    BY <2>1 DEF Refuse, Fresh, RefusalCode
  <2>2. ASSUME NEW t \in Workers, RefuseMalformed(t) PROVE TypeOK'
    BY <2>2 DEF RefuseMalformed, Fresh
  <2>3. ASSUME NEW t \in Workers, NEW r \in Requests, Accept(t, r) PROVE TypeOK'
    BY <2>3 DEF Accept, Fresh
  <2>4. ASSUME NEW t \in Workers, Serve(t) PROVE TypeOK'
    <3>1. ASSUME pc[t] # "idle" PROVE NameOf(t) \in DestNames /\ req[t].conn \in Conns
      BY <3>1, BusyWorker
    <3>2. ASSUME pc[t] = "run"
          PROVE  /\ Current(t).fn \in Functions
                 /\ Current(t).iface \in Interfaces
                 /\ done[t] + 1 \in 1..Len(req[t].calls)
                 /\ Len(req[t].calls) \in Nat
      BY <3>2, CurrentCall, BusyWorker
    <3>3. CASE Lookup(t)
      BY <3>3 DEF Lookup
    <3>4. CASE Put(t)
      BY <3>1, <3>4 DEF Put
    <3>5. CASE Notify(t)
      BY <3>1, <3>5 DEF Notify
    <3>6. CASE Resolve(t)
      BY <3>1, <3>6, BusyWorker DEF Resolve, Caching, Resolved
    <3>7. CASE ResolveFails(t)
      BY <3>1, <3>7, BusyWorker DEF ResolveFails, Reply, Caching, Resolved
    <3>8. CASE CallSucceeds(t)
      BY <3>2, <3>8 DEF CallSucceeds, Executing, Reply
    <3>9. CASE CallFails(t)
      BY <3>2, <3>9 DEF CallFails, Executing, Reply
    <3>10. CASE CallNotExecuted(t)
      BY <3>10 DEF CallNotExecuted, Reply
    <3>11. CASE EntrySucceeds(t)
      BY <3>2, <3>11 DEF EntrySucceeds, Executing
    <3>12. CASE EntryFails(t)
      BY <3>2, <3>12 DEF EntryFails
    <3>13. BatchCode(t) \in {200, 400, 403, 500}
      BY DEF BatchCode
    <3>14. CASE FinallyNothing(t)
      <4>1. PICK code \in {200, 400, 403, 500} : Reply(t, code)
        BY <3>14, <3>13 DEF FinallyNothing, EndOfBatch
      <4> QED
        BY <3>14, <4>1 DEF FinallyNothing, Reply
    <3>15. CASE FinallyLogoff(t)
      <4>1. PICK code \in {200, 400, 403, 500} : Reply(t, code)
        BY <3>15, <3>13 DEF FinallyLogoff, EndOfBatch
      <4> QED
        BY <3>15, <4>1 DEF FinallyLogoff, Executing, Reply
    <3>16. CASE FinallyLogoffFails(t)
      <4>1. PICK code \in {200, 400, 403, 500} : Reply(t, code)
        BY <3>16, <3>13 DEF FinallyLogoffFails, EndOfBatch
      <4> QED
        BY <3>16, <4>1 DEF FinallyLogoffFails, Executing, Reply
    <3> QED
      BY <2>4, <3>3, <3>4, <3>5, <3>6, <3>7, <3>8, <3>9, <3>10, <3>11,
         <3>12, <3>14, <3>15, <3>16 DEF Serve
  <2>5. CASE UNCHANGED vars
    BY <2>5 DEF vars, wvars
  <2> QED
    BY <2>1, <2>2, <2>3, <2>4, <2>5 DEF Next
<1> QED
  BY <1>1, <1>2, PTL DEF Spec

(***************************************************************************)
(* The allow-list.                                                          *)
(***************************************************************************)
LogonAllowed == \A t \in Workers : xmi[t] # None => Logon \in Allowed

\* SAP executes only functions of the allow-list, for any list that has
\* RFC_READ_TABLE, and BAPI_XMI_LOGOFF whenever it has BAPI_XMI_LOGON: the two
\* that the bridge runs without asking.
THEOREM AllowListHolds ==
    ASSUME ReadTable \in Allowed, Logon \in Allowed => Logoff \in Allowed
    PROVE  Spec => []OnlyAllowedRun
<1>1. Init => LogonAllowed /\ OnlyAllowedRun
  BY DEF Init, LogonAllowed, OnlyAllowedRun
<1>2. TypeOK /\ LogonAllowed /\ OnlyAllowedRun /\ [Next]_vars
        => LogonAllowed' /\ OnlyAllowedRun'
  <2> SUFFICES ASSUME TypeOK, LogonAllowed, OnlyAllowedRun, [Next]_vars
               PROVE  LogonAllowed' /\ OnlyAllowedRun'
    OBVIOUS
  <2> USE FunctionAssumption DEF LogonAllowed, OnlyAllowedRun
  <2>0. /\ xmi \in [Workers -> Interfaces \cup {None}]
        /\ ran \in [Workers -> SUBSET Functions]
    BY DEF TypeOK
  <2>1. ASSUME NEW t \in Workers, Fresh(t) PROVE LogonAllowed' /\ OnlyAllowedRun'
    BY <2>0, <2>1 DEF Fresh
  <2>2. ASSUME NEW t \in Workers, Serve(t) PROVE LogonAllowed' /\ OnlyAllowedRun'
    <3>1. CASE UNCHANGED <<xmi, ran>>
      BY <3>1
    <3>2. ASSUME pc[t] = "run" PROVE Current(t).fn \in Allowed
      BY <3>2, CurrentCall
    <3>3. CASE CallSucceeds(t) \/ CallFails(t)
      BY <2>0, <3>2, <3>3 DEF CallSucceeds, CallFails, Executing
    <3>4. CASE EntrySucceeds(t)
      BY <2>0, <3>2, <3>4 DEF EntrySucceeds, Executing
    <3>5. CASE EntryFails(t)
      BY <2>0, <3>2, <3>5 DEF EntryFails
    <3>6. CASE FinallyLogoff(t) \/ FinallyLogoffFails(t)
      BY <2>0, <3>6 DEF FinallyLogoff, FinallyLogoffFails, Executing
    <3> QED
      BY <2>2, <3>1, <3>3, <3>4, <3>5, <3>6
      DEF Serve, Lookup, Put, Notify, Resolve, ResolveFails, CallNotExecuted,
          FinallyNothing
  <2>3. CASE UNCHANGED vars
    BY <2>3 DEF vars, wvars
  <2> QED
    BY <2>1, <2>2, <2>3 DEF Next, Refuse, RefuseMalformed, Accept
<1> QED
  BY <1>1, <1>2, TypeCorrect, PTL DEF Spec

(***************************************************************************)
(* What a worker has done for its request, by where it is.                  *)
(***************************************************************************)
NothingDone(t) == ran[t] = {} /\ sessions[t] = {} /\ xmi[t] = None

Progress ==
    \A t \in Workers :
        /\ pc[t] \in BeforeRun => NothingDone(t) /\ status[t] = 0
        /\ pc[t] = "run" => status[t] = 0
        /\ pc[t] = "run" /\ req[t].kind # "batch" => NothingDone(t) /\ done[t] = 0
        /\ pc[t] = "finally" =>
             /\ req[t].kind = "batch"
             /\ status[t] \in {0, 500}
             /\ status[t] = 0 => done[t] = Len(req[t].calls)

LEMMA ProgressHolds == Spec => [](Progress /\ RejectedRanNothing)
<1>1. Init => Progress /\ RejectedRanNothing
  BY DEF Init, Progress, RejectedRanNothing, BeforeRun
<1>2. TypeOK /\ Progress /\ RejectedRanNothing /\ [Next]_vars
        => Progress' /\ RejectedRanNothing'
  <2> SUFFICES ASSUME TypeOK, Progress, RejectedRanNothing, [Next]_vars
               PROVE  Progress' /\ RejectedRanNothing'
    OBVIOUS
  <2> USE DEF Progress, RejectedRanNothing, NothingDone, BeforeRun, InBatch, TypeOK
  <2>1. ASSUME NEW t \in Workers, NEW r \in Requests, Refuse(t, r)
        PROVE  Progress' /\ RejectedRanNothing'
    BY <2>1 DEF Refuse, Fresh, RefusalCode
  <2>2. ASSUME NEW t \in Workers, RefuseMalformed(t)
        PROVE  Progress' /\ RejectedRanNothing'
    BY <2>2 DEF RefuseMalformed, Fresh
  <2>3. ASSUME NEW t \in Workers, NEW r \in Requests, Accept(t, r)
        PROVE  Progress' /\ RejectedRanNothing'
    BY <2>3 DEF Accept, Fresh
  <2>4. ASSUME NEW t \in Workers, Serve(t) PROVE Progress' /\ RejectedRanNothing'
    <3>1. CASE Lookup(t) \/ Put(t) \/ Notify(t) \/ Resolve(t)
      BY <3>1 DEF Lookup, Put, Notify, Resolve
    <3>2. CASE ResolveFails(t)
      BY <3>2 DEF ResolveFails, Reply
    <3>3. CASE CallNotExecuted(t)
      <4>1. PICK code \in {400, 500} : Reply(t, code)
        BY <3>3 DEF CallNotExecuted
      <4> QED
        BY <3>3, <4>1 DEF CallNotExecuted, Reply
    <3>4. CASE CallSucceeds(t)
      BY <3>4 DEF CallSucceeds, Executing, Reply
    <3>5. CASE CallFails(t)
      BY <3>5 DEF CallFails, Executing, Reply
    <3>6. CASE EntrySucceeds(t)
      BY <3>6, BusyWorker DEF EntrySucceeds, Executing
    <3>7. CASE EntryFails(t)
      BY <3>7 DEF EntryFails
    <3>8. CASE FinallyNothing(t)
      BY <3>8 DEF FinallyNothing, Reply, EndOfBatch, BatchCode
    <3>9. CASE FinallyLogoff(t)
      BY <3>9 DEF FinallyLogoff, Executing, Reply, EndOfBatch, BatchCode
    <3>10. CASE FinallyLogoffFails(t)
      BY <3>10 DEF FinallyLogoffFails, Executing, Reply, EndOfBatch, BatchCode
    <3> QED
      BY <2>4, <3>1, <3>2, <3>3, <3>6, <3>7, <3>8, <3>9, <3>4, <3>5, <3>10 DEF Serve
  <2>5. CASE UNCHANGED vars
    BY <2>5 DEF vars, wvars
  <2> QED
    BY <2>1, <2>2, <2>3, <2>4, <2>5 DEF Next
<1> QED
  BY <1>1, <1>2, TypeCorrect, PTL DEF Spec

\* No function of a request that is answered 400 or 403 has run, whichever
\* entry of a batch was refused and however a call ended.
THEOREM RefusalsRunNothing == Spec => []RejectedRanNothing
  BY ProgressHolds, PTL

\* Every step that answers 200 answers a request whose calls have all succeeded.
THEOREM OnlyCompleteSucceeds == Spec => SuccessIsComplete
<1>1. TypeOK /\ Progress /\ [Next]_vars
        => [\A t \in Workers :
              (pc[t] # "idle" /\ pc'[t] = "idle" /\ status'[t] = 200)
                 => done'[t] = Len(req[t].calls)]_vars
  <2> SUFFICES ASSUME TypeOK, Progress, [Next]_vars,
                      NEW t \in Workers,
                      pc[t] # "idle", pc'[t] = "idle", status'[t] = 200
               PROVE  done'[t] = Len(req[t].calls)
    OBVIOUS
  <2> USE DEF Progress, BeforeRun, InBatch, TypeOK
  <2>1. PICK u \in Workers : Serve(u) /\ t = u
    BY DEF Next, Refuse, RefuseMalformed, Accept, Fresh, vars, wvars, Serve,
           Lookup, Put, Notify, Resolve, ResolveFails, CallSucceeds, CallFails,
           CallNotExecuted, EntrySucceeds, EntryFails, FinallyNothing,
           FinallyLogoff, FinallyLogoffFails, EndOfBatch, Reply
  <2>2. CASE CallSucceeds(t)
    <3>1. Len(req[t].calls) = 1 /\ done[t] = 0
      BY <2>2, BusyWorker DEF CallSucceeds
    <3> QED
      BY <2>2, <3>1 DEF CallSucceeds
  <2>3. CASE FinallyNothing(t) \/ FinallyLogoff(t) \/ FinallyLogoffFails(t)
    BY <2>3
    DEF FinallyNothing, FinallyLogoff, FinallyLogoffFails, Reply, EndOfBatch, BatchCode
  <2> QED
    BY <2>1, <2>2, <2>3
    DEF Serve, Lookup, Put, Notify, Resolve, ResolveFails, CallFails,
        CallNotExecuted, EntrySucceeds, EntryFails, Reply
<1> QED
  BY <1>1, TypeCorrect, ProgressHolds, PTL DEF Spec, SuccessIsComplete

\* Once an entry of a batch has failed nothing but LOGOFF runs for that batch,
\* wherever the failure was and whatever other workers do.
THEOREM FailureStopsBatch == Spec => NothingAfterFailure
<1>1. TypeOK /\ Progress /\ [Next]_vars
        => [\A t \in Workers :
              (pc[t] # "idle" /\ status[t] = 500) => ran'[t] \subseteq ran[t] \cup {Logoff}]_vars
  <2> SUFFICES ASSUME TypeOK, Progress, [Next]_vars,
                      NEW t \in Workers, pc[t] # "idle", status[t] = 500
               PROVE  ran'[t] \subseteq ran[t] \cup {Logoff}
    OBVIOUS
  <2>1. pc[t] = "finally" /\ ran \in [Workers -> SUBSET Functions]
    <3>1. pc[t] \in {"idle"} \cup BeforeRun \cup InBatch /\ ran \in [Workers -> SUBSET Functions]
      BY DEF TypeOK
    <3>2. pc[t] \notin BeforeRun \cup {"run"}
      BY DEF Progress
    <3> QED
      BY <3>1, <3>2 DEF InBatch
  <2>2. ASSUME NEW u \in Workers, u # t, Serve(u) \/ Fresh(u) PROVE ran'[t] = ran[t]
    BY <2>1, <2>2
    DEF Fresh, Serve, Lookup, Put, Notify, Resolve, ResolveFails, CallSucceeds, CallFails,
        CallNotExecuted, EntrySucceeds, EntryFails, FinallyNothing, FinallyLogoff,
        FinallyLogoffFails, Executing
  <2>3. CASE Serve(t)
    BY <2>1, <2>3
    DEF Serve, Lookup, Put, Notify, Resolve, ResolveFails, CallSucceeds, CallFails,
        CallNotExecuted, EntrySucceeds, EntryFails, FinallyNothing, FinallyLogoff,
        FinallyLogoffFails, Executing
  <2>4. ~Fresh(t)
    BY <2>1 DEF Fresh
  <2>5. CASE UNCHANGED vars
    BY <2>5 DEF vars, wvars
  <2> QED
    BY <2>2, <2>3, <2>4, <2>5 DEF Next, Refuse, RefuseMalformed, Accept
<1> QED
  BY <1>1, TypeCorrect, ProgressHolds, PTL DEF Spec, NothingAfterFailure

(***************************************************************************)
(* XMI sessions.                                                            *)
(***************************************************************************)
InterfacesOf(calls) == {calls[i].iface : i \in DOMAIN calls}

\* No batch names two interfaces.
OneInterface == \A b \in Batches : \A i, j \in InterfacesOf(b) : i = j

\* The local xmiInterface is the session the batch has open.
SessionKnown ==
    \A t \in Workers : pc[t] # "idle" =>
        /\ sessions[t] \subseteq {xmi[t]}
        /\ xmi[t] \in InterfacesOf(req[t].calls) \cup {None}

\* When every batch keeps to one interface, an answered batch has closed its XMI
\* session or has tried to. A batch that logs on to two closes the last one only.
THEOREM NoSessionStranded ==
    ASSUME OneInterface
    PROVE  Spec => []NoStrandedSession
<1>1. Init => SessionKnown /\ NoStrandedSession
  BY DEF Init, SessionKnown, NoStrandedSession
<1>2. TypeOK /\ Progress /\ SessionKnown /\ NoStrandedSession /\ [Next]_vars
        => SessionKnown' /\ NoStrandedSession'
  <2> SUFFICES ASSUME TypeOK, Progress, SessionKnown, NoStrandedSession, [Next]_vars
               PROVE  SessionKnown' /\ NoStrandedSession'
    OBVIOUS
  <2> USE FunctionAssumption DEF SessionKnown, NoStrandedSession
  <2>0. /\ pc \in [Workers -> {"idle"} \cup BeforeRun \cup InBatch]
        /\ xmi \in [Workers -> Interfaces \cup {None}]
        /\ sessions \in [Workers -> SUBSET Interfaces]
        /\ abandoned \in [Workers -> SUBSET Interfaces]
        /\ DOMAIN req = Workers
    BY DEF TypeOK
  <2>1. ASSUME NEW t \in Workers, RefuseMalformed(t) \/ \E r \in Requests : Refuse(t, r)
        PROVE  SessionKnown' /\ NoStrandedSession'
    BY <2>0, <2>1 DEF Refuse, RefuseMalformed, Fresh
  <2>2. ASSUME NEW t \in Workers, NEW r \in Requests, Accept(t, r)
        PROVE  SessionKnown' /\ NoStrandedSession'
    BY <2>0, <2>2 DEF Accept, Fresh
  <2>3. ASSUME NEW t \in Workers, Serve(t) PROVE SessionKnown' /\ NoStrandedSession'
    <3>1. CASE Lookup(t) \/ Put(t) \/ Notify(t) \/ Resolve(t) \/ EntryFails(t)
      BY <2>0, <3>1 DEF Lookup, Put, Notify, Resolve, EntryFails
    <3>2. ASSUME sessions[t] = {},
                 NEW code, Reply(t, code), UNCHANGED <<xmi, sessions, abandoned>>
          PROVE  SessionKnown' /\ NoStrandedSession'
      BY <2>0, <3>2 DEF Reply
    <3>3. CASE ResolveFails(t) \/ CallSucceeds(t) \/ CallFails(t) \/ CallNotExecuted(t)
      <4>1. sessions[t] = {}
        BY <3>3
        DEF Progress, NothingDone, BeforeRun, ResolveFails, CallSucceeds, CallFails,
            CallNotExecuted
      <4>2. PICK code \in {200, 400, 500} : Reply(t, code)
        BY <3>3 DEF ResolveFails, CallSucceeds, CallFails, CallNotExecuted
      <4> QED
        BY <3>2, <3>3, <4>1, <4>2 DEF ResolveFails, CallSucceeds, CallFails, CallNotExecuted
    <3>4. CASE EntrySucceeds(t)
      <4>1. pc[t] = "run" /\ req[t].kind = "batch"
        BY <3>4 DEF EntrySucceeds
      <4>2. /\ Current(t).iface \in InterfacesOf(req[t].calls)
            /\ Current(t).iface \in Interfaces
        BY <4>1, CurrentCall, BusyWorker DEF InterfacesOf
      <4>3. \A s \in sessions[t] : s = Current(t).iface
        BY <2>0, <4>1, <4>2, BusyWorker DEF OneInterface
      <4> QED
        BY <2>0, <3>4, <4>1, <4>2, <4>3 DEF EntrySucceeds
    <3>5. CASE FinallyNothing(t)
      BY <2>0, <3>2, <3>5 DEF FinallyNothing, EndOfBatch
    <3>6. CASE FinallyLogoff(t)
      BY <2>0, <3>6 DEF FinallyLogoff, EndOfBatch, Reply
    <3>7. CASE FinallyLogoffFails(t)
      BY <2>0, <3>7 DEF FinallyLogoffFails, EndOfBatch, Reply
    <3> QED
      BY <2>3, <3>1, <3>3, <3>4, <3>5, <3>6, <3>7 DEF Serve
  <2>4. CASE UNCHANGED vars
    BY <2>4 DEF vars, wvars
  <2> QED
    BY <2>1, <2>2, <2>3, <2>4 DEF Next
<1> QED
  BY <1>1, <1>2, TypeCorrect, ProgressHolds, PTL DEF Spec

(***************************************************************************)
(* Destinations.                                                            *)
(***************************************************************************)
\* Both maps hold under a name only connections that have this name.
NamesKept ==
    /\ \A n \in DestNames : dests[n] # None => DestName(dests[n]) = n
    /\ \A n \in DestNames : cache[n] # None => DestName(cache[n]) = n
    /\ \A t \in Workers : dest[t] # None => pc[t] # "idle" /\ DestName(dest[t]) = NameOf(t)
    /\ \A t \in Workers : pc[t] \in BeforeRun => dest[t] = None

LEMMA NamesKeptHolds == Spec => [](NamesKept /\ StaleOnlyWhileNotifying)
<1>1. Init => NamesKept /\ StaleOnlyWhileNotifying
  BY DEF Init, NamesKept, StaleOnlyWhileNotifying
<1>2. TypeOK /\ NamesKept /\ StaleOnlyWhileNotifying /\ [Next]_vars
        => NamesKept' /\ StaleOnlyWhileNotifying'
  <2> SUFFICES ASSUME TypeOK, NamesKept, StaleOnlyWhileNotifying, [Next]_vars
               PROVE  NamesKept' /\ StaleOnlyWhileNotifying'
    OBVIOUS
  <2> USE DestinationAssumption DEF NamesKept, StaleOnlyWhileNotifying, NameOf, BeforeRun
  <2>0. /\ pc \in [Workers -> {"idle"} \cup BeforeRun \cup InBatch]
        /\ dest \in [Workers -> Conns \cup {None}]
        /\ dests \in [DestNames -> Conns \cup {None}]
        /\ cache \in [DestNames -> Conns \cup {None}]
        /\ DOMAIN req = Workers
    BY DEF TypeOK
  <2>1. ASSUME NEW t \in Workers, RefuseMalformed(t) \/ \E r \in Requests : Refuse(t, r)
        PROVE  NamesKept' /\ StaleOnlyWhileNotifying'
    BY <2>0, <2>1 DEF Refuse, RefuseMalformed, Fresh
  <2>2. ASSUME NEW t \in Workers, NEW r \in Requests, Accept(t, r)
        PROVE  NamesKept' /\ StaleOnlyWhileNotifying'
    BY <2>0, <2>2 DEF Accept, Fresh
  <2>3. ASSUME NEW t \in Workers, Serve(t)
        PROVE  NamesKept' /\ StaleOnlyWhileNotifying'
    <3>1. ASSUME pc[t] # "idle" PROVE NameOf(t) \in DestNames /\ req[t].conn \in Conns
      BY <3>1, BusyWorker
    <3>2. CASE Lookup(t)
      BY <2>0, <3>2 DEF Lookup
    <3>3. CASE Put(t)
      BY <2>0, <3>1, <3>3 DEF Put
    <3>4. CASE Notify(t)
      BY <2>0, <3>1, <3>4 DEF Notify
    <3>5. CASE Resolve(t)
      BY <2>0, <3>1, <3>5 DEF Resolve, Caching, Resolved
    <3>6. ASSUME NEW code, Reply(t, code), UNCHANGED <<dests, cache>>, pc[t] # "notify"
          PROVE  NamesKept' /\ StaleOnlyWhileNotifying'
      BY <2>0, <3>6 DEF Reply
    <3>7. CASE CallSucceeds(t) \/ CallFails(t) \/ CallNotExecuted(t)
      <4>1. PICK code \in {200, 400, 500} : Reply(t, code)
        BY <3>7 DEF CallSucceeds, CallFails, CallNotExecuted
      <4> QED
        BY <3>6, <3>7, <4>1 DEF CallSucceeds, CallFails, CallNotExecuted
    <3>10. CASE ResolveFails(t)
      <4>1. CASE UNCHANGED cache
        BY <3>6, <3>10, <4>1 DEF ResolveFails
      <4>2. CASE Caching(t)
        BY <2>0, <3>1, <3>10, <4>2 DEF ResolveFails, Reply, Caching, Resolved
      <4> QED
        BY <3>10, <4>1, <4>2 DEF ResolveFails
    <3>8. CASE FinallyNothing(t) \/ FinallyLogoff(t) \/ FinallyLogoffFails(t)
      BY <3>6, <3>8 DEF FinallyNothing, FinallyLogoff, FinallyLogoffFails, EndOfBatch
    <3>9. CASE EntrySucceeds(t) \/ EntryFails(t)
      BY <2>0, <3>9 DEF EntrySucceeds, EntryFails
    <3> QED
      BY <2>3, <3>2, <3>3, <3>4, <3>5, <3>7, <3>8, <3>9, <3>10 DEF Serve
  <2>4. CASE UNCHANGED vars
    BY <2>4 DEF vars, wvars
  <2> QED
    BY <2>1, <2>2, <2>3, <2>4 DEF Next
<1> QED
  BY <1>1, <1>2, TypeCorrect, PTL DEF Spec

\* Whatever the other workers do to the provider, every request runs on a
\* destination with the name of its own.  That is its own system, client and user
\* if no other target has the same hash code, which String.hashCode does not rule
\* out.
THEOREM DestinationKept == Spec => []SameDestination
<1>1. NamesKept => SameDestination
  BY DEF NamesKept, SameDestination, NameOf
<1> QED
  BY <1>1, NamesKeptHolds, PTL

\* Outdated properties stay in JCo's cache only until the worker that replaced
\* them fires its event.
THEOREM StaleIsTransient == Spec => []StaleOnlyWhileNotifying
  BY NamesKeptHolds, PTL
============================================================================
