----------------------------- MODULE JcoBridge -----------------------------
(***************************************************************************)
(* The JCo REST bridge, src/bridge/SapJcoRest.java: an HTTP server with a   *)
(* fixed pool of worker threads that checks the names of the function       *)
(* modules a request asks for, resolves a JCo destination from the          *)
(* connection parameters in the request, and runs the functions on SAP.     *)
(*                                                                         *)
(* A request is a table read, a single call or a batch.  One worker serves  *)
(* one request at a time; workers share the provider's map of destination   *)
(* properties (dests) and JCo's own cache of destinations (cache).          *)
(*                                                                         *)
(* Function modules, connections, SAP users and interfaces are model        *)
(* values; a function module's data never decides what the bridge does.     *)
(***************************************************************************)
EXTENDS Naturals, Sequences, FiniteSets

CONSTANTS
    Workers,        \* threads of the fixed pool (8 in the program)
    Conns,          \* full connection parameter sets a request may carry
    Targets,        \* what identifies a destination: host, number, client, user
    TargetOf,       \* [Conns -> Targets]: the rest is password and language
    DestNames,      \* destination names, "DYN_" + the hash in hexadecimal
    Hash,           \* [Targets -> DestNames]: String.hashCode, not injective
    Functions,      \* function modules SAP knows
    ReadTable,      \* RFC_READ_TABLE
    Logon,          \* BAPI_XMI_LOGON
    Logoff,         \* BAPI_XMI_LOGOFF
    Allowed,        \* the allow-list, the default one or JCO_ALLOWED_FUNCTIONS
    Blank,          \* a missing or blank table or function name
    Interfaces,     \* XMI interfaces a call may name ("XAL" is the default)
    Batches,        \* sequences of calls a batch request may carry
    None

Calls == [fn : Functions \cup {Blank}, iface : Interfaces]

ASSUME DestinationAssumption ==
    /\ TargetOf \in [Conns -> Targets]
    /\ Hash \in [Targets -> DestNames]
    /\ None \notin Conns

ASSUME FunctionAssumption ==
    /\ {ReadTable, Logon, Logoff} \subseteq Functions
    /\ Logon # Logoff
    /\ Blank \notin Functions
    /\ Allowed \subseteq Functions
    /\ None \notin Interfaces

ASSUME BatchAssumption == Batches \subseteq Seq(Calls)

VARIABLES
    pc,         \* where each worker is
    req,        \* the request a worker serves, None when it is idle
    dest,       \* the connection its JCo destination logs on with
    done,       \* how many calls of the request have succeeded
    xmi,        \* local xmiInterface of rfcBatch
    status,     \* HTTP status of the reply, 0 while there is none
    ran,        \* function modules the current request has executed on SAP
    sessions,   \* XMI sessions the current batch holds open on SAP
    abandoned,  \* sessions whose closing LOGOFF was attempted and failed
    dests,      \* DynamicProvider.dests
    cache       \* JCoDestinationManager's cache, cleared by listener.updated

wvars == <<pc, req, dest, done, xmi, status, ran, sessions, abandoned>>
vars == <<wvars, dests, cache>>

(***************************************************************************)
(* Requests, and the check every request passes before SAP is involved.     *)
(***************************************************************************)
Singles == {<<c>> : c \in Calls}
TableReads == {<<c>> : c \in {d \in Calls : d.fn \in {ReadTable, Blank}}}

Requests ==
    [kind : {"table"}, conn : Conns, calls : TableReads]
        \cup [kind : {"call"}, conn : Conns, calls : Singles]
        \cup [kind : {"batch"}, conn : Conns, calls : Batches]

\* /api/table/read asks for a table, not for a function, and never consults
\* the allow-list.
Admissible(kind, call) ==
    /\ call.fn # Blank
    /\ kind = "table" \/ call.fn \in Allowed

\* Faulty variant: only the first entry of a batch is checked.
FirstRejected(r) ==
    {i \in DOMAIN r.calls : i = 1 /\ ~Admissible(r.kind, r.calls[i])}

Rejected(r) == {i \in DOMAIN r.calls : ~Admissible(r.kind, r.calls[i])}
Admitted(r) == r.calls # <<>> /\ Rejected(r) = {}

\* The first entry that fails decides: 400 for a blank name, 403 otherwise.
RefusalCode(r) ==
    IF \/ r.calls = <<>>
       \/ \E i \in Rejected(r) : /\ \A j \in Rejected(r) : i <= j
                                 /\ r.calls[i].fn = Blank
    THEN 400 ELSE 403

\* Faulty variant: the key of a destination leaves out what tells two apart.
SharedDestName(c) == Hash[CHOOSE tg \in Targets : TRUE]

DestName(c) == Hash[TargetOf[c]]
NameOf(t) == DestName(req[t].conn)
Current(t) == req[t].calls[done[t] + 1]

----------------------------------------------------------------------------
Init ==
    /\ pc = [t \in Workers |-> "idle"]
    /\ req = [t \in Workers |-> None]
    /\ dest = [t \in Workers |-> None]
    /\ done = [t \in Workers |-> 0]
    /\ xmi = [t \in Workers |-> None]
    /\ status = [t \in Workers |-> 0]
    /\ ran = [t \in Workers |-> {}]
    /\ sessions = [t \in Workers |-> {}]
    /\ abandoned = [t \in Workers |-> {}]
    /\ dests = [n \in DestNames |-> None]
    /\ cache = [n \in DestNames |-> None]

\* The handler starts with fresh local variables.
Fresh(t) ==
    /\ pc[t] = "idle"
    /\ done' = [done EXCEPT ![t] = 0]
    /\ xmi' = [xmi EXCEPT ![t] = None]
    /\ ran' = [ran EXCEPT ![t] = {}]
    /\ sessions' = [sessions EXCEPT ![t] = {}]
    /\ abandoned' = [abandoned EXCEPT ![t] = {}]
    /\ UNCHANGED <<dest, dests, cache>>

Refuse(t, r) ==
    /\ Fresh(t)
    /\ ~Admitted(r)
    /\ status' = [status EXCEPT ![t] = RefusalCode(r)]
    /\ UNCHANGED <<pc, req>>

\* A body that does not parse, or has another shape, ends in the handler's
\* catch clauses: 400 for a malformed number in a call, 500 otherwise.
RefuseMalformed(t) ==
    /\ Fresh(t)
    /\ \E code \in {400, 500} : status' = [status EXCEPT ![t] = code]
    /\ UNCHANGED <<pc, req>>

Accept(t, r) ==
    /\ Fresh(t)
    /\ Admitted(r)
    /\ pc' = [pc EXCEPT ![t] = "lookup"]
    /\ req' = [req EXCEPT ![t] = r]
    /\ status' = [status EXCEPT ![t] = 0]

(***************************************************************************)
(* dest(): DynamicProvider.addOrUpdate, then getDestination.  The map is    *)
(* concurrent but get, put and the event are three separate steps.          *)
(***************************************************************************)
Lookup(t) ==
    /\ pc[t] = "lookup"
    /\ pc' = [pc EXCEPT ![t] =
                IF dests[NameOf(t)] = req[t].conn THEN "resolve" ELSE "put"]
    /\ UNCHANGED <<req, dest, done, xmi, status, ran, sessions, abandoned,
                   dests, cache>>

Put(t) ==
    /\ pc[t] = "put"
    /\ dests' = [dests EXCEPT ![NameOf(t)] = req[t].conn]
    /\ pc' = [pc EXCEPT ![t] = "notify"]
    /\ UNCHANGED <<req, dest, done, xmi, status, ran, sessions, abandoned, cache>>

\* Faulty variant: the listener is not told.
SilentNotify(t) ==
    /\ pc[t] = "notify"
    /\ pc' = [pc EXCEPT ![t] = "resolve"]
    /\ UNCHANGED <<req, dest, done, xmi, status, ran, sessions, abandoned,
                   dests, cache>>

Notify(t) ==
    /\ pc[t] = "notify"
    /\ cache' = [cache EXCEPT ![NameOf(t)] = None]
    /\ pc' = [pc EXCEPT ![t] = "resolve"]
    /\ UNCHANGED <<req, dest, done, xmi, status, ran, sessions, abandoned, dests>>

Resolved(n) == IF cache[n] # None THEN cache[n] ELSE dests[n]

Caching(t) == cache' = [cache EXCEPT ![NameOf(t)] = Resolved(NameOf(t))]

Resolve(t) ==
    /\ pc[t] = "resolve"
    /\ dest' = [dest EXCEPT ![t] = Resolved(NameOf(t))]
    /\ Caching(t)
    /\ pc' = [pc EXCEPT ![t] = "run"]
    /\ UNCHANGED <<req, done, xmi, status, ran, sessions, abandoned, dests>>

\* The worker answers and waits for its next request.
Reply(t, code) ==
    /\ pc' = [pc EXCEPT ![t] = "idle"]
    /\ status' = [status EXCEPT ![t] = code]
    /\ req' = [req EXCEPT ![t] = None]
    /\ dest' = [dest EXCEPT ![t] = None]

\* getDestination throws, or, for a batch, JCoContext.begin after it: every
\* handler answers 500, no function has run.
ResolveFails(t) ==
    /\ pc[t] = "resolve"
    /\ Reply(t, 500)
    /\ UNCHANGED cache \/ (req[t].kind = "batch" /\ Caching(t))
    /\ UNCHANGED <<done, xmi, ran, sessions, abandoned, dests>>

(***************************************************************************)
(* runFunction and its callers.  A call succeeds, fails on SAP, or is never *)
(* executed because the repository does not have it or a parameter cannot   *)
(* be bound.  A call that raised left SAP's XMI sessions as they were.      *)
(***************************************************************************)
Executing(t, f) == ran' = [ran EXCEPT ![t] = @ \cup {f}]

CallSucceeds(t) ==
    /\ pc[t] = "run"
    /\ req[t].kind # "batch"
    /\ Executing(t, Current(t).fn)
    /\ done' = [done EXCEPT ![t] = @ + 1]
    /\ Reply(t, 200)
    /\ UNCHANGED <<xmi, sessions, abandoned, dests, cache>>

CallFails(t) ==
    /\ pc[t] = "run"
    /\ req[t].kind # "batch"
    /\ Executing(t, Current(t).fn)
    /\ Reply(t, 500)
    /\ UNCHANGED <<done, xmi, sessions, abandoned, dests, cache>>

\* 400 for a parameter bindImports refuses, 500 for a function the repository
\* does not have; a table read's own parameters always exist.
CallNotExecuted(t) ==
    /\ pc[t] = "run"
    /\ req[t].kind # "batch"
    /\ \E code \in IF req[t].kind = "call" THEN {400, 500} ELSE {500} : Reply(t, code)
    /\ UNCHANGED <<done, xmi, ran, sessions, abandoned, dests, cache>>

\* Faulty variant: the loop runs once too often.
EntrySucceedsTooFar(t) ==
    /\ pc[t] = "run"
    /\ req[t].kind = "batch"
    /\ Executing(t, Current(t).fn)
    /\ done' = [done EXCEPT ![t] = @ + 1]
    /\ pc' = [pc EXCEPT ![t] = IF done[t] + 1 > Len(req[t].calls)
                               THEN "finally" ELSE "run"]
    /\ UNCHANGED <<req, dest, xmi, status, sessions, abandoned, dests, cache>>

\* The loop of rfcBatch leaves for its finally block after its last call.
EntrySucceeds(t) ==
    LET call == Current(t) IN
    /\ pc[t] = "run"
    /\ req[t].kind = "batch"
    /\ Executing(t, call.fn)
    /\ done' = [done EXCEPT ![t] = @ + 1]
    /\ xmi' = [xmi EXCEPT ![t] = CASE call.fn = Logon -> call.iface
                                   [] call.fn = Logoff -> None
                                   [] OTHER -> @]
    /\ sessions' = [sessions EXCEPT ![t] = CASE call.fn = Logon -> @ \cup {call.iface}
                                             [] call.fn = Logoff -> @ \ {call.iface}
                                             [] OTHER -> @]
    /\ pc' = [pc EXCEPT ![t] = IF done[t] + 1 = Len(req[t].calls)
                               THEN "finally" ELSE "run"]
    /\ UNCHANGED <<req, dest, status, abandoned, dests, cache>>

\* Faulty variant: an unbindable parameter of an entry is answered 400.
EntryFailsWith400(t) ==
    /\ pc[t] = "run"
    /\ req[t].kind = "batch"
    /\ status' = [status EXCEPT ![t] = 400]
    /\ pc' = [pc EXCEPT ![t] = "finally"]
    /\ UNCHANGED <<req, dest, done, xmi, ran, sessions, abandoned, dests, cache>>

\* Faulty variant: the reply is sent from the catch clause of the loop.
EntryFailsAtOnce(t) ==
    /\ pc[t] = "run"
    /\ req[t].kind = "batch"
    /\ Reply(t, 500)
    /\ UNCHANGED <<done, xmi, ran, sessions, abandoned, dests, cache>>

\* Faulty variant: the loop goes on after a failed entry.
EntryFailsAndGoesOn(t) ==
    /\ pc[t] = "run"
    /\ req[t].kind = "batch"
    /\ status' = [status EXCEPT ![t] = 500]
    /\ done' = [done EXCEPT ![t] = @ + 1]
    /\ pc' = [pc EXCEPT ![t] = IF done[t] + 1 = Len(req[t].calls)
                               THEN "finally" ELSE "run"]
    /\ UNCHANGED <<req, dest, xmi, ran, sessions, abandoned, dests, cache>>

\* Any exception ends the loop with failedIndex set: the reply will be 500,
\* also for a parameter that cannot be bound.
EntryFails(t) ==
    /\ pc[t] = "run"
    /\ req[t].kind = "batch"
    /\ \E fs \in {{}, {Current(t).fn}} : ran' = [ran EXCEPT ![t] = @ \cup fs]
    /\ status' = [status EXCEPT ![t] = 500]
    /\ pc' = [pc EXCEPT ![t] = "finally"]
    /\ UNCHANGED <<req, dest, done, xmi, sessions, abandoned, dests, cache>>

\* Faulty variant: failedIndex is not looked at.
AlwaysOK(t) == 200

BatchCode(t) == IF status[t] = 0 THEN 200 ELSE status[t]

\* The finally block ends with JCoContext.end: if that throws, the reply is 500.
EndOfBatch(t) == \E code \in {BatchCode(t), 500} : Reply(t, code)

\* Faulty variant: a failed batch is answered only if it had a session.
FinallyNothingIfGood(t) ==
    /\ pc[t] = "finally"
    /\ xmi[t] = None
    /\ status[t] = 0
    /\ Reply(t, 200)
    /\ UNCHANGED <<done, xmi, ran, sessions, abandoned, dests, cache>>

FinallyNothing(t) ==
    /\ pc[t] = "finally"
    /\ xmi[t] = None
    /\ EndOfBatch(t)
    /\ UNCHANGED <<done, xmi, ran, sessions, abandoned, dests, cache>>

FinallyLogoff(t) ==
    /\ pc[t] = "finally"
    /\ xmi[t] # None
    /\ Executing(t, Logoff)
    /\ sessions' = [sessions EXCEPT ![t] = @ \ {xmi[t]}]
    /\ EndOfBatch(t)
    /\ UNCHANGED <<done, xmi, abandoned, dests, cache>>

\* A failing LOGOFF is logged and does not change the reply.
FinallyLogoffFails(t) ==
    /\ pc[t] = "finally"
    /\ xmi[t] # None
    /\ Executing(t, Logoff)
    /\ abandoned' = [abandoned EXCEPT ![t] = @ \cup {xmi[t]}]
    /\ EndOfBatch(t)
    /\ UNCHANGED <<done, xmi, sessions, dests, cache>>

\* What a worker that has a request may do next.
Serve(t) ==
    \/ Lookup(t) \/ Put(t) \/ Notify(t) \/ Resolve(t) \/ ResolveFails(t)
    \/ CallSucceeds(t) \/ CallFails(t) \/ CallNotExecuted(t)
    \/ EntrySucceeds(t) \/ EntryFails(t)
    \/ FinallyNothing(t) \/ FinallyLogoff(t) \/ FinallyLogoffFails(t)

Next == \E t \in Workers :
            \/ RefuseMalformed(t)
            \/ \E r \in Requests : Refuse(t, r) \/ Accept(t, r)
            \/ Serve(t)

Spec == Init /\ [][Next]_vars

\* A thread that has a request keeps running, and SAP answers every call; no
\* request need ever arrive.
FairSpec == Spec /\ \A t \in Workers : WF_vars(Serve(t))

----------------------------------------------------------------------------
(***************************************************************************)
(* Types.                                                                   *)
(***************************************************************************)
BeforeRun == {"lookup", "put", "notify", "resolve"}
InBatch == {"run", "finally"}

\* Every variable has its type; a worker has a request exactly while it is
\* not idle, and that request passed the check of its handler.
TypeOK ==
    /\ pc \in [Workers -> {"idle"} \cup BeforeRun \cup InBatch]
    /\ done \in [Workers -> Nat]
    /\ xmi \in [Workers -> Interfaces \cup {None}]
    /\ status \in [Workers -> {0, 200, 400, 403, 500}]
    /\ ran \in [Workers -> SUBSET Functions]
    /\ sessions \in [Workers -> SUBSET Interfaces]
    /\ abandoned \in [Workers -> SUBSET Interfaces]
    /\ dest \in [Workers -> Conns \cup {None}]
    /\ dests \in [DestNames -> Conns \cup {None}]
    /\ cache \in [DestNames -> Conns \cup {None}]
    /\ DOMAIN req = Workers
    /\ \A t \in Workers :
         /\ pc[t] = "idle" => req[t] = None
         /\ pc[t] # "idle" => req[t] \in Requests /\ Admitted(req[t])
         /\ pc[t] \in BeforeRun => done[t] = 0
         /\ pc[t] = "run" => done[t] < Len(req[t].calls)

(***************************************************************************)
(* Safety.                                                                  *)
(***************************************************************************)
\* Whatever a request names and however its calls end, SAP executes only
\* functions of the allow-list, the LOGOFF of the finally block included
\* (SapJcoRest.java:34-45, bridge/README.md:15).
OnlyAllowedRun == \A t \in Workers : ran[t] \subseteq Allowed

\* A caller that is told 400 or 403 may correct its request and send it again:
\* no function of the refused request was executed, not even the entries of a
\* batch before the refused one (SapJcoRest.java:158-159, 177-188).
RejectedRanNothing ==
    \A t \in Workers : status[t] \in {400, 403} => ran[t] = {}

\* When a batch is answered, every XMI session it opened has been closed, or
\* its LOGOFF was attempted and failed (SapJcoRest.java:161-163, 220-229).
NoStrandedSession ==
    \A t \in Workers : pc[t] = "idle" => sessions[t] \subseteq abandoned[t]

\* A request runs on a destination of its own system, client and user, also
\* when other workers update the shared provider between its put, the event
\* and its getDestination (SapJcoRest.java:256-259, 529-549).
SameTarget ==
    \A t \in Workers :
        dest[t] # None => TargetOf[dest[t]] = TargetOf[req[t].conn]

\* A request runs only on a destination that has the name of its own: of what
\* two workers race for, nothing ends up under another name.  It is all the code
\* ensures where two targets have one hash code, or two connections differ in
\* password or language only (SapJcoRest.java:256-259, 529-549).
SameDestination ==
    \A t \in Workers : dest[t] # None => DestName(dest[t]) = DestName(req[t].conn)

\* A request runs with the connection parameters it carries, password and
\* language included (SapJcoRest.java:21-22, bridge/README.md:45-46).
OwnConnection ==
    \A t \in Workers : dest[t] # None => dest[t] = req[t].conn

\* JCo goes on using outdated properties of a destination only until the
\* worker that changed them has fired its event (SapJcoRest.java:543-547).
StaleOnlyWhileNotifying ==
    \A n \in DestNames :
        cache[n] \notin {None, dests[n]} =>
            \E t \in Workers : pc[t] = "notify" /\ NameOf(t) = n

(***************************************************************************)
(* Action properties.                                                       *)
(***************************************************************************)
\* A request is answered 200 only when each of its calls has succeeded: a
\* LOGOFF in the finally block never hides the entry that failed
\* (SapJcoRest.java:214-217, 233-244).
SuccessIsComplete ==
    [][\A t \in Workers :
          (pc[t] # "idle" /\ pc'[t] = "idle" /\ status'[t] = 200)
             => done'[t] = Len(req[t].calls)]_vars

\* Once an entry of a batch has failed nothing but LOGOFF is executed for that
\* batch (SapJcoRest.java:214-231).
NothingAfterFailure ==
    [][\A t \in Workers :
          (pc[t] # "idle" /\ status[t] = 500) => ran'[t] \subseteq ran[t] \cup {Logoff}]_vars

(***************************************************************************)
(* Liveness.                                                                *)
(***************************************************************************)
\* Every request that a worker has accepted is answered and the worker returns
\* to the pool, provided SAP answers each call.
Answered == \A t \in Workers : pc[t] # "idle" ~> pc[t] = "idle"
============================================================================
