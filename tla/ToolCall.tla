------------------------------ MODULE ToolCall ------------------------------
(***************************************************************************)
(* What a tool call promises its caller, whatever becomes of the bridge: it  *)
(* asks SAP stage by stage, the next stage only when every request of the    *)
(* stage before is over; a request is over once, answered or lost, and stays *)
(* so; the call returns early only for the loss of an answer it cannot do    *)
(* without; and it returns.                                                  *)
(***************************************************************************)
EXTENDS Naturals, Sequences

CONSTANTS
    Calls,          \* the calls that are made, each once
    Requests,       \* the requests they make of SAP
    Stages,         \* for each call, the sets of requests it makes in turn
    Essential       \* the requests a call cannot do without

VARIABLES
    stage,          \* 0 before the call, Returned(c) after it
    outcome         \* of each request: unsent, open, answered or lost

vars == <<stage, outcome>>

Returned(c) == Len(Stages[c]) + 1
UnderWay(c) == stage[c] \in 1..Len(Stages[c])
Asked(c) == Stages[c][stage[c]]

Init ==
    /\ stage = [c \in Calls |-> 0]
    /\ outcome = [r \in Requests |-> "unsent"]

\* Call c enters stage n, with all of its requests at once.
Enter(c, n) ==
    /\ stage' = [stage EXCEPT ![c] = n]
    /\ outcome' = [r \in Requests |->
                    IF n <= Len(Stages[c]) /\ r \in Stages[c][n] THEN "open" ELSE outcome[r]]

Begin(c) == stage[c] = 0 /\ Enter(c, 1)

End(r) ==
    /\ outcome[r] = "open"
    /\ \E o \in {"answered", "lost"} : outcome' = [outcome EXCEPT ![r] = o]
    /\ UNCHANGED stage

Proceed(c) ==
    /\ UnderWay(c)
    /\ \A r \in Asked(c) : outcome[r] \in {"answered", "lost"}
    /\ \/ /\ \A r \in Asked(c) \cap Essential : outcome[r] = "answered"
          /\ Enter(c, stage[c] + 1)
       \/ /\ \E r \in Asked(c) \cap Essential : outcome[r] = "lost"
          /\ Enter(c, Returned(c))

Next ==
    \/ \E c \in Calls : Begin(c) \/ Proceed(c)
    \/ \E r \in Requests : End(r)

EveryCallReturns == \A c \in Calls : UnderWay(c) ~> stage[c] = Returned(c)

Safety == Init /\ [][Next]_vars
Spec == Safety /\ EveryCallReturns
=============================================================================
