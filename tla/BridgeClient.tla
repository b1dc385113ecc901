---------------------------- MODULE BridgeClient ----------------------------
(***************************************************************************)
(* Tool calls of the MCP server against the bridge: the coroutines of        *)
(* src/tools/basis/, whose helpers _safe_table_read and _safe_rfc_call turn   *)
(* every exception of the connector into a flag; the connector's HTTP         *)
(* client, which gives up after a time (src/connectors/jco_connector.py);     *)
(* and the fixed pool of threads of src/bridge/SapJcoRest.java with its      *)
(* queue.  The bridge does not learn that a client has given up, and has no   *)
(* limit on the time a call to SAP may take.                                 *)
(*                                                                         *)
(* What is asked and answered is left out: a request ends well or badly.     *)
(***************************************************************************)
EXTENDS Naturals, Sequences, FiniteSets

CONSTANTS
    Calls,          \* tool calls, each made once
    Requests,       \* HTTP requests they make
    Stages,         \* for each call, the sets of requests it awaits in turn
    Essential,      \* requests whose loss ends the call with an error
    Workers,        \* threads of the bridge's pool (8 in the program)
    MaxHung,        \* calls to SAP that never return
    None

ASSUME StagesAssumption ==
    /\ Essential \subseteq Requests
    /\ Stages \in [Calls -> Seq(SUBSET Requests)]
    /\ \A c \in Calls : Len(Stages[c]) > 0
    /\ \A c, d \in Calls : \A m \in DOMAIN Stages[c], n \in DOMAIN Stages[d] :
            <<c, m>> # <<d, n>> => Stages[c][m] \cap Stages[d][n] = {}

ASSUME PoolAssumption ==
    /\ IsFiniteSet(Requests)
    /\ None \notin Requests
    /\ MaxHung \in Nat

VARIABLES
    stage,          \* the stage a call awaits, 0 before it
    req,            \* what the client knows of each request
    queue,          \* requests the pool has accepted and no thread has taken
    serving,        \* the request each thread serves, None when it is idle
    hung            \* threads whose call to SAP never returns

vars == <<stage, req, queue, serving, hung>>

Over == {"answered", "failed", "timed_out"}
Returned(c) == Len(Stages[c]) + 1
UnderWay(c) == stage[c] \in 1..Len(Stages[c])
Asked(c) == Stages[c][stage[c]]

Init ==
    /\ stage = [c \in Calls |-> 0]
    /\ req = [r \in Requests |-> "unsent"]
    /\ queue = <<>>
    /\ serving = [w \in Workers |-> None]
    /\ hung = {}

----------------------------------------------------------------------------
(* The coroutines.                                                          *)

\* The orders in which requests that are made at once may reach the bridge.
Arrivals(R) ==
    {s \in [1..Cardinality(R) -> R] : \A r \in R : \E i \in DOMAIN s : s[i] = r}

\* asyncio.gather starts the reads of a stage together; a plain await is a
\* stage of one request.
Send(R) ==
    /\ req' = [r \in Requests |-> IF r \in R THEN "waiting" ELSE req[r]]
    /\ \E s \in Arrivals(R) : queue' = queue \o s
    /\ UNCHANGED <<serving, hung>>

Call(c) ==
    /\ stage[c] = 0
    /\ stage' = [stage EXCEPT ![c] = 1]
    /\ Send(Stages[c][1])

\* Faulty variant: the first failure ends the wait, as a gather of coroutines
\* that raise would.
StageIsOverAtFailure(c) ==
    \/ \A r \in Asked(c) : req[r] \in Over
    \/ \E r \in Asked(c) : req[r] \in {"failed", "timed_out"}

\* A gather of coroutines that never raise waits for all of them.
StageIsOver(c) == \A r \in Asked(c) : req[r] \in Over

\* "if hdr_err: return" ends the call; so does the end of its last stage.
Proceed(c) ==
    /\ UnderWay(c) /\ StageIsOver(c)
    /\ LET fatal == \E r \in Asked(c) \cap Essential : req[r] # "answered"
           next == IF fatal THEN Returned(c) ELSE stage[c] + 1
       IN /\ stage' = [stage EXCEPT ![c] = next]
          /\ Send(IF next = Returned(c) THEN {} ELSE Stages[c][next])

\* Faulty variant: a request that has timed out is sent again.
TimeoutAndRetry(r) ==
    /\ req[r] = "waiting"
    /\ queue' = Append(queue, r)
    /\ UNCHANGED <<stage, req, serving, hung>>

\* httpx raises when the bridge has been silent for the connector's timeout.
Timeout(r) ==
    /\ req[r] = "waiting"
    /\ req' = [req EXCEPT ![r] = "timed_out"]
    /\ UNCHANGED <<stage, queue, serving, hung>>

----------------------------------------------------------------------------
(* The threads of the bridge.                                               *)

Take(w) ==
    /\ serving[w] = None /\ queue # <<>>
    /\ serving' = [serving EXCEPT ![w] = Head(queue)]
    /\ queue' = Tail(queue)
    /\ UNCHANGED <<stage, req, hung>>

\* SAP does not answer, and nothing in the bridge ends the wait.
Hang(w) ==
    /\ serving[w] # None /\ w \notin hung
    /\ Cardinality(hung) < MaxHung
    /\ hung' = hung \cup {w}
    /\ UNCHANGED <<stage, req, queue, serving>>

\* Faulty variant: a thread is free again whatever its call does.
FinishAnyway(w) ==
    /\ serving[w] # None
    /\ \E o \in {"answered", "failed"} :
        req' = [req EXCEPT ![serving[w]] = IF @ = "waiting" THEN o ELSE @]
    /\ serving' = [serving EXCEPT ![w] = None]
    /\ UNCHANGED <<stage, queue, hung>>

\* Faulty variant: the exception of a reply nobody waits for is not caught.
FinishOrDie(w) ==
    /\ serving[w] # None /\ w \notin hung
    /\ req[serving[w]] = "waiting"
    /\ \E o \in {"answered", "failed"} : req' = [req EXCEPT ![serving[w]] = o]
    /\ serving' = [serving EXCEPT ![w] = None]
    /\ UNCHANGED <<stage, queue, hung>>

\* SAP has answered, with a result or an error, or the request could not be
\* read; send writes the reply, and a client that has gone does not matter.
Finish(w) ==
    /\ serving[w] # None /\ w \notin hung
    /\ \E o \in {"answered", "failed"} :
        req' = [req EXCEPT ![serving[w]] = IF @ = "waiting" THEN o ELSE @]
    /\ serving' = [serving EXCEPT ![w] = None]
    /\ UNCHANGED <<stage, queue, hung>>

Next ==
    \/ \E c \in Calls : Call(c) \/ Proceed(c)
    \/ \E r \in Requests : Timeout(r)
    \/ \E w \in Workers : Take(w) \/ Hang(w) \/ Finish(w)

Spec == Init /\ [][Next]_vars

\* A timer fires, the event loop runs what is ready, an idle thread takes what
\* is queued, and a call to SAP that does not hang returns.  Calls need not come.
Fairness ==
    /\ \A c \in Calls : WF_vars(Proceed(c))
    /\ \A r \in Requests : WF_vars(Timeout(r))
    /\ \A w \in Workers : WF_vars(Take(w)) /\ WF_vars(Finish(w))

FairSpec == Spec /\ Fairness

----------------------------------------------------------------------------
\* Every variable holds what the code can put there.
TypeOK ==
    /\ stage \in [Calls -> Nat]
    /\ \A c \in Calls : stage[c] <= Returned(c)
    /\ req \in [Requests -> {"unsent", "waiting"} \cup Over]
    /\ queue \in Seq(Requests)
    /\ serving \in [Workers -> Requests \cup {None}]
    /\ hung \subseteq {w \in Workers : serving[w] # None}

\* What a client knows of a request, as the caller of the tool sees it.
Outcome(s) ==
    CASE s = "waiting" -> "open"
      [] s \in {"failed", "timed_out"} -> "lost"
      [] OTHER -> s

Promise == INSTANCE ToolCall WITH outcome <- [r \in Requests |-> Outcome(req[r])]

\* Every tool call keeps its promise: no late reply changes what a call has
\* been told, no call returns while one of its gathered reads is open, none asks
\* on without an answer it needs, and all return, even if threads of the bridge
\* hang in SAP.
KeepsCalls == Promise!Spec

\* A request is with the bridge once, in the queue or with one thread, and one
\* that a client waits for is there.
Queued(r) == \E i \in DOMAIN queue : queue[i] = r
Served(r) == \E w \in Workers : serving[w] = r

OnePlace ==
    \A r \in Requests :
        /\ \A i, j \in DOMAIN queue : queue[i] = r /\ queue[j] = r => i = j
        /\ \A v, w \in Workers : serving[v] = r /\ serving[w] = r => v = w
        /\ ~(Queued(r) /\ Served(r))
        /\ req[r] = "waiting" => Queued(r) \/ Served(r)

\* As long as fewer calls hang than there are threads, every request that
\* reaches the pool is taken up, those of clients that have given up included.
EveryRequestServed ==
    \A r \in Requests : Queued(r) ~> ~Queued(r)
=============================================================================
