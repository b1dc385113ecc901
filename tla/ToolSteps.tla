----------------------------- MODULE ToolSteps -----------------------------
(***************************************************************************)
(* The form of a tool of src/tools/basis/: a coroutine that, from its        *)
(* arguments and the answers it has got so far, either asks for more or      *)
(* returns a report.                                                        *)
(*                                                                         *)
(* An answer records how the read ended, the rows the tool was given and,    *)
(* for the properties only, the rows SAP had for it (full).  A report says   *)
(* whether it is an error, the risk, a count, of which tables it tells that  *)
(* they were read and how many rows of each, and whatever else the           *)
(* properties look at (detail).                                             *)
(***************************************************************************)
EXTENDS Integers, Sequences, FiniteSets

CONSTANT None

\* The ends of a read: a result; an HTTP error, which a batch returns as a
\* value; an exception.
Ends == {"answered", "refused", "failed"}
Came(t, got) == got[t].end = "answered"
Rows(t, got) == got[t].rows

\* A list of rows, whatever the rows are.
IsSequence(s) == Len(s) \in Nat /\ s = [i \in 1..Len(s) |-> s[i]]

\* At most n rows.
First(rows, n) == SubSeq(rows, 1, IF n < Len(rows) THEN n ELSE Len(rows))

Read(tables) == [read |-> tables, report |-> None]
Return(report) == [read |-> {}, report |-> report]

Said(risk, count, total, detail) ==
    Return([error |-> FALSE, risk |-> risk, count |-> count,
            total |-> total, detail |-> detail])
Error == Return([error |-> TRUE, risk |-> "none", count |-> 0, total |-> <<>>, detail |-> {}])

\* No error, and a note in place of data.
Note == Said("none", 0, <<>>, {})

\* Once the reads of a set, which are made together, have ended: step.
After(tables, got, step) ==
    IF tables \subseteq DOMAIN got THEN step ELSE Read(tables \ DOMAIN got)

\* A read the tool cannot do without.
Given(t, got, step) == After({t}, got, IF Came(t, got) THEN step ELSE Error)

Sizes(tables, got) == [t \in tables |-> Len(Rows(t, got))]
=============================================================================
