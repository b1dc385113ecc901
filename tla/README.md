# A TLA+ model of SAP Basis Copilot

The program answers questions about a SAP system: an MCP server (Python) offers
25 read-only tools, its hosted form is guarded by an OAuth authorization server
with a login page, and an HTTP bridge (Java, SAP JCo) executes the function
modules the tools ask for. This directory models the parts of it that keep
state, that run concurrently or that can be wrong about what they say, checks
them with TLC on small instances, and proves what matters most of them with
TLAPS for every value of the constants.

Paths such as `oauth_provider.py:267` are relative to `src/`.

## 1. Inventory

| Component (source) | State it keeps | Operations | Hard behaviour |
|---|---|---|---|
| JCo REST bridge (`bridge/SapJcoRest.java`) | pool of 8 threads; map of destination properties; JCo's own cache of destinations; XMI sessions in SAP | `/api/table/read`, `/api/rfc/call`, `/api/rfc/batch` | threads share the destination maps; a batch may fail at any entry and has a `finally`; a request may wait for SAP for ever |
| OAuth server (`oauth_provider.py`) | clients, pending sessions, codes, access and refresh tokens; two JSON files | register, authorize, GET/POST of the login page, exchange of codes and refresh tokens, load, revoke, restart | the login page suspends on the form; load and exchange are separate calls; a save truncates and then writes; crash and restart |
| User store (`user_store.py`, `manage_users.py`) | `users.json` | add, passwd, delete (a process each); authenticate and exists (the server) | commands of two operators; a read during a write; a command that is stopped |
| Connector (`connectors/`) | none | one RFC call, a batch, a table read, each an HTTP request with a 60 s timeout | an answer, an HTTP error with or without results, an exception with or without a text; an answer that comes after the client has gone, or never |
| Health summary (`monitoring.py`) | locals over four awaits | one tool | each request may fail in a way of its own, SAP changes between them |
| OS snapshot (`os_monitor.py`) | locals over a search and a batch | one tool | fallback from one monitor set to the next, a batch cut short, merged flags |
| Dump tools (`dumps.py`) | locals over one read | four tools | dates without a time compared with a time, SAP's clock with the host's, a failed read, a limit on the rows |
| Queues, locks, spool (`queues.py`, `locks.py`, `spool.py`) | locals over one or two reads | four tools | one of two tables unread, lists that are cut, ages that cannot be computed, a stuck entry behind an older one |
| The other tools (`system.py`, `monitoring.py`, `performance.py`, `task_lists.py`) | locals over up to five reads | 15 tools | `asyncio.gather`, silent failures, histories of parameters, limits |
| Start-up, settings, prompts (`server.py`, `config.py`, `prompts.py`) | none after start | — | — |

Interactions: a tool calls the connector, the connector POSTs to the bridge, the
bridge calls SAP. The OAuth server calls the user store for every login and for
every token it is shown; the command line writes the user store's file from
another process. The tools and the OAuth server share the process and its event
loop but no data.

What makes each of them correct:

* **Bridge**: nothing outside the allow-list is executed; a refused request has
  executed nothing; a 200 means that every entry ran; no session is left open in
  SAP; a request is run against the system and user it names, as far as the names of
  destinations tell them apart; every request is answered when SAP answers.
* **OAuth server**: a code or token is for the client that asked and the user who
  logged in; a login is in one place at a time; what was revoked or replaced does
  not come back; what a client holds survives a restart.
* **User store**: who gets in is registered, with the current password; commands
  take effect and say what they did.
* **Tools**: a verdict agrees with what SAP showed; what was not read is not
  reported as good.

## 2. Modules

| Module | Models | Instances | Proofs |
|---|---|---|---|
| `JcoBridge` | the bridge's request check, destinations, calls and batches | `MCJcoBridge` | `JcoBridgeProofs` |
| `OAuthProvider` | the authorization server, its files and restarts | `MCOAuthProvider` | `OAuthProofs` |
| `AuthorizationGrant` | abstract: what is promised of one authorization | by `OAuthProvider!KeepsGrants` | in `OAuthProofs` |
| `UserStore` | `users.json`, the commands and the server's reads | `MCUserStore` | `UserStoreProofs` |
| `HealthSummary` | `get_system_health_summary` | itself | `HealthProofs` |
| `OsSnapshot` | `get_os_resource_snapshot` | `MCOsSnapshot` | `OsProofs` |
| `DumpSummary` | the four tools on short dumps | `MCDumpSummary` | `DumpProofs` |
| `BridgeClient` | tool calls, the connector's timeout, the pool of the bridge and its queue | `MCBridgeClient` | `BridgeClientProofs` |
| `ToolCall` | abstract: what a tool call promises its caller | by `BridgeClient!KeepsCalls` | in `BridgeClientProofs` |
| `ToolSteps` | the form of a tool: from the answers so far to more reads or a report | by the next two | in `ToolProofs` |
| `BacklogTools` | the tools on tRFC, qRFC, locks and spool | by `BasisTools` | in `ToolProofs` |
| `SystemTools` | fifteen tools on jobs, clients, SNC, instances, system log, updates, work processes, memory, buffers, database, parameters and task lists | by `BasisTools` | in `ToolProofs` |
| `BasisTools` | calls of these nineteen tools against a SAP system that changes between reads | `MCBasisTools` | `ToolProofs` |

Definitions named "Faulty variant" are not part of a specification: each is a
plausible mistake in the code, substituted for the definition below it to see
that a property notices it.

### JcoBridge

`pc[t]` is where worker `t` is: `idle`, the four steps of `resolveDestination`
(`lookup`, `put`, `notify`, `resolve`), `run` (the entry `Current(t)` is next) and
`finally`. `Accept`, `Refuse` and `RefuseMalformed` are the handlers up to the end
of their checks; they touch no shared state, so they are one step. `Lookup`,
`Put`, `Notify` and `Resolve` are separate because other threads
run between them: `dests` is the `ConcurrentHashMap` of
`DynamicProvider`, `cache` is JCo's. `CallSucceeds`, `CallFails` and
`CallNotExecuted` end a single call; `EntrySucceeds` and `EntryFails` one entry of a
batch; the three `Finally` actions the `finally` block with its logoff, and
`EndOfBatch` the reply after it, which is 500 also when `JCoContext.end` throws. `ran`,
`sessions` and `abandoned` are what SAP has seen of the current request.

Abstractions: a connection's parameters are one value with a `TargetOf` (host,
number, client, user); `Hash` is any function, since `String.hashCode` is; a
request carries no parameters, because none decides anything but the XMI
interface, which is modelled.

### OAuthProvider and AuthorizationGrant

One process with an event loop. Handlers without an `await` are single actions;
the POST of the login page is two (`request.form()` suspends) and a request waits
in a `slot` between them; a token request is a load and an exchange with anything
in between. A handler that saves ends in `io`: the file is truncated, then written,
then the reply goes out, and the process may stop at each point (`Faults` says
which of these can happen). A reply may be lost, so what a client was told
(`held`, `ended`) changes only when it arrives. `cut` records that a save failed or was
cut short.

Abstractions: ids never repeat (`secrets.token_hex`). Expiry is nondeterministic:
a session or a code may expire at any time and stays expired, a token is found
good or not at each use, for its age, for its user having been deleted, or for
`users.json` being unreadable at that moment (`UserStore` shows when). An access
token and the refresh token minted with it share an id. A session is never a code or
a token (`IdAssumption`), as the tables they are kept in are different ones.

`AuthorizationGrant` is what a client relies on: new, open, coded, active, closed,
in this order, with client and user fixed. `GrantOf` reads a login's stage off the
place where its session, code or token is; `KeepsGrants` says that every step of
the server is a step of every grant, or a stutter.

### UserStore

Each command is a process: `Start`, `Load`, then
`Refuse` or `Open` (which truncates the file) and `Write`; `Stop` ends it between steps. `Login` and `ShowToken`
are the server's reads, atomic in its event loop but not with respect to the
commands. `registered` is what the commands that were carried out add up to, `cut`
that one was stopped while it wrote.
Emails are values of the normalised form; a hash stands for its password;
`Garbled` is reached only when two writers overlap.

### HealthSummary, OsSnapshot, DumpSummary

Each models the awaits of a tool as steps, with the ways a request can end as an
input of the step, and folds the answer as the code does.

`HealthSummary`: jobs are clean, cancelled within the 500 rows that are read or
beyond them; a syslog area has errors or not. The verdict CRITICAL cannot be
reached in the code (total and up are both 1), and so not in the model either.

`OsSnapshot`: a value is reduced to the side of its threshold it is on, and to its
CCMS colour. The elements are a set, the tree lists some of them in some order
(`Listings`); `listed` is that order, `wanted` the part of it that `max_metrics` leaves and
`truncated` whether it leaves all (`metrics_truncated`). `held` is what SAP has for each
listed element, `values` the beginning of it that came back and that `zip` pairs with
`wanted`; so the properties can speak of elements that were not read. A flag carries
the place of the value it comes from: a flag repeats a metric when a mount has two
alerts and the first is kept, while the idle CPU of a host is kept under one key and
the last value stands, as in the code.

`DumpSummary`: time is counted in ticks, `2 * Half` a day. There are two clocks: `now`
is the host's (`datetime.now()`), and SAP's is `ahead` of it by one of `Offsets`, which
may be negative. A dump has a time and a date, which is the midnight before it by
SAP's clock; the code sees the date only, and compares it with a `now` of the host
that has an hour, without taking one clock to the other. That the offset changes
(summer time) is left out. The clocks tick and dumps are written while a question is
under way. The thresholds (3, 5, 10, 50, 10000) are constants.

### BridgeClient and ToolCall

The two ends of every request at once. A tool call is a list of `Stages`, each the
set of requests it awaits together: a plain `await` is a stage of one, an
`asyncio.gather` a stage of several. `Call` and `Proceed` are the steps of the
coroutine; `_safe_table_read` and its like never raise, so a gather waits for all of
its reads. `Proceed` returns early when an `Essential` request was lost ("if
hdr_err: return"). `Timeout` is the client's. `Take`, `Hang` and `Finish` are the
threads of `newFixedThreadPool(8)`: a thread serves a request to the end whether
its client still waits or not, and a call to SAP may never return.

`req` is what the client knows (`unsent`, `waiting`, `answered`, `failed`,
`timed_out`); a request that could not be delivered is one that failed or timed out.
What a thread does in between is `JcoBridge`; here it is one step, since the two
share nothing but the thread.

`ToolCall` is the promise to the caller: stages in order, a request's end told
once, an early return only for an answer that is needed, and a return.

### ToolSteps, BacklogTools, SystemTools, BasisTools

A tool keeps nothing between calls, so each is one operator: from its arguments
and the answers `got` so far it gives either the tables to read next, or its report.
`After` is an await of several reads, `Given` one with an early return when it
failed. `BasisTools` is the machine around them: `Ask` a call, `EndRead` the end of one
read that is under way, in any order, `Answer` the return. `Held` is what SAP may hold
of a table; a read brings rows that all satisfy its condition (`Matches`).

An answer holds the `rows` the tool was given and, for the properties, all rows SAP
had (`full`): a read that fails gives none of them, a table read at most `call.cap`
(the argument `max_rows`) or `FixedCap`, a function module all. `report.total` is what
the report tells of each table it says was read. `TrueCount` counts what SAP had for the
sixteen tools of `Counting`; `get_client_settings` counts its own findings (`LowIsClear` and
`AlarmHasCause` are about them), and `check_snc_configuration` and `get_instance_status`
count nothing.

Abstractions: a row keeps what a verdict depends on. Ages are whole hours, negative
where SAP's clock is ahead of UTC, and `NoAge`, a number below all of them, where the
date or the time cannot be parsed. The window of a read is the set of
rows no older than it; that the tools ask by date, and so for somewhat more, adds
rows of the same kinds. PAHI comes oldest first. Statuses are the codes SAP uses;
labels, sorting and the lists that repeat SAP's rows are left out. The limits of
the code (50 failed entries, 24 hours, 10 outputs and so on) are constants.

## 3. Runs

Runs that pass:

| Run | Shows | Bounds, and why they are enough |
|---|---|---|
| `bridge_batches` | `OnlyAllowedRun`, `RejectedRanNothing`, `NoStrandedSession`, `SuccessIsComplete`, `NothingAfterFailure`, `Answered` | 2 workers; every batch of up to two entries over five names (one outside the list, one blank), and the four-entry batch of the host metrics tool: every pair of a logon, a failing or refused entry and a logoff occurs |
| `bridge_destinations` | `SameTarget`, `StaleOnlyWhileNotifying` | 3 workers, 3 connections of which two share a target: two workers replacing each other's entry and a third resolving it; the two targets have different hash codes |
| `oauth_core` | `Binding`, `OneHeadPerLogin`, `EndedStaysEnded`, `CodeFromLiveSession`, and `HeldSurvives` until a file is cut short | 2 clients, 2 users, 1 session, 2 codes, 2 tokens, 2 suspended requests: two POSTs of one form, two exchanges of one code or token, with failing saves and torn files |
| `oauth_grants` | refinement of `AuthorizationGrant` | 2 sessions, 2 codes, 2 tokens, so that one login's items can be taken for the other's; files may be torn |
| `users_commands` | `GrantsAreTrue`; `TakesEffect`, `RegisteredGetIn`, `ReportsAreTrue` until a command is stopped while it writes | 1 command at a time that may stop between any two steps, 2 users, 3 passwords (one too short, one with a blank in front, whose user `RegisteredGetIn` leaves out) |
| `health_answers` | `FailureIsUnknown`, `VerdictIsSeen`, `UnknownIsUnread`, without timeouts | 2 syslog areas; every ending of each of the four requests |
| `os_snapshot` | `LowIsCalm`, `HighIsRed` | 2 monitor sets; a filesystem with two elements and two values of idle CPU of one host, listed in any number and order, and a cap of 3 that cuts one of the four |
| `client_pool` | `OnePlace`, `KeepsCalls` (refinement of `ToolCall`, its liveness included), `EveryRequestServed` | three calls (two reads in turn, two gathered, one alone), 2 threads of which one may hang: requests queue behind each other, behind ones whose client has gone and behind the one that hangs |
| `tools_reports` | `LowIsClear`, `AlarmHasCause`; `CountIsTrue` of the tools of `Counting` | every tool with arguments below and above its limits; up to three or four rows of each table, of every kind the tool tells apart and with ages below zero, unknown and on both sides of each limit; limits of 1 and 2; caps below and above the number of rows |
| `dumps_reports` | `RecentClaims`, `LowIsQuiet`, `IncreasingIsTrue` | 2 days of 2 ticks, SAP's clock half a day ahead, equal or behind, 4 dumps of 2 errors, at most 3 rows read: a question at every hour, before and after midnight by either clock, over one and two days, and halves of up to 3 to 0 and 2 to 1 |

Runs in which the program does not do what its documentation says (each is a
finding in `PROJECT.json`, with the line it quotes):

| Run | Property | What happens |
|---|---|---|
| `users_two_operators` | `TakesEffect` | two commands at once: the later write undoes the earlier change |
| `health_timeout` | `FailureIsUnknown` | the exception of a timeout has no text, so an unread system log counts as one without errors |

More of this kind is in the models, seen while they were written, and has no run
of its own. Where a formula is named, it is defined in its module and false:

* `JCO_ALLOWED_FUNCTIONS` naming a list without them, table reads still run
  RFC_READ_TABLE and the `finally` block BAPI_XMI_LOGOFF (the condition of
  `AllowListHolds`).
* A batch that logs on to two XMI interfaces closes the last one only (the condition
  of `NoSessionStranded`). The program's own tools send one.
* A stop, or a full disk, between truncation and write of an OAuth file loses every
  token or client (`HeldSurvives` without `cut`).
* A token shown while a command writes `users.json` is deleted, since the file is
  read as empty for a moment (`ShowToken` when `file = Truncated`).
* Two requests that differ in password or language only share one destination
  (`OwnConnection` of `JcoBridge`), contrary to the bridge's README: between them the
  race of `Lookup`, `Put` and `Resolve` is lost. Two targets whose names have the same
  `String.hashCode` would share one as well (`SameTarget` with such a `Hash`).
* "The last 24 hours" of the dump tools begin at midnight (`BurstIsCritical` of
  `DumpSummary`).
* The dump tools compare SAP's dates with the host's clock. With SAP ahead a burst
  older than 24 hours is reported as one of the last 24 (`CriticalIsRecent`), and early
  dumps fall in the later half; with SAP behind the first hours of the period are not
  read and the system "appears healthy" (`PeriodIsQuiet`). What is checked and proved
  of these tools holds up to the distance `ahead` of the clocks.
* With as many calls hanging in SAP as there are threads, no request is served any
  more, `/api/health` included; only the clients' timeouts end their calls
  (`client_pool` with `MaxHung` equal to the number of threads violates
  `EveryRequestServed`).
* A password with a blank at an end is accepted by the command and never by the
  login page, which strips it (`AccountsSignIn` of `UserStore`).
* A value batch that SAP ends early is reported as ok and as read in full
  (`OkIsRead` of `OsSnapshot`).
* If a host has several elements of idle CPU, the last value that came back
  replaces an alarming one, and the risk can be LOW (`LowIsCalm` without `Replaced`). It
  can also be LOW with trouble in the values that an early end of the batch did not
  bring, and then nothing in the report shows it.
* A failed read of SNAP is reported as "System appears healthy" (`HealthyIsRead` of
  `DumpSummary`).
* The error a CRITICAL summary names is the most frequent one, not the one with the
  burst (`NamedHasBurst`; it takes four rows, so `MaxRows = 4`).
* In the afternoon the dumps of the middle day count as the earlier half, and the
  trend may be DECREASING when it is not (`DecreasingIsTrue`).
* LOW may stand beside `partial = true`, or beside an unread table of outputs: the risk
  is drawn from what was read (`LowIsClear` without `AllToldWhole`).
* Only the oldest unprocessed tRFC entry is looked at: one that is stuck in RECORDED
  behind an older one in another state leaves the risk LOW, and one older than the
  window of the read is not seen. Likewise a spool request beyond its usual life
  counts only inside the window.
* A parameter with a history of more than ten rows in PAHI is judged by an old
  value, and SNC counts as enabled if any row of its history says so.
* When the read of task rows fails, or is cut, task counts fall short and the report
  does not show it (`CountIsTrue` without `Silent`). An empty list of work processes is an error in one tool and a
  count of zero in three others.
* Ages of locks and queue entries are UTC minus SAP's local time.

Symmetry is used for identifiers that the code only compares (workers, ids,
clients, users, error types), never in a run with a liveness property.

Deadlock is checked in every run but `client_pool`, where each call is made once and
the system comes to rest when all have returned; that they do is `KeepsCalls`. The README of the program leaves SNAP out of
the row of the dump tools in "What it reads"; that is a gap of the document only.

## 4. Fairness

**Bridge**: `Answered` says that a request a worker has taken is answered. `FairSpec` of
`JcoBridge` assumes weak fairness of `Serve(t)` for each worker, which is a thread
that the system schedules and whose calls to SAP return. It is not assumed that
requests arrive.

**Tool calls**: `FairSpec` of `BridgeClient` drops the assumption that SAP answers. It
assumes weak fairness of `Proceed` (the event loop runs what is ready), of `Timeout`
(httpx fires its timer for a silent connection), of `Take` (an idle thread of the
executor takes what is queued) and of `Finish` for a thread that does not hang. There is
none on `Call` and none on `Hang`. Under it every call returns, however many threads
hang, since a timeout ends each wait; that every queued request is taken up
(`EveryRequestServed`) also needs fewer hanging calls than threads.

## 5. Proofs

All proofs hold for every value of the constants that satisfies the module's named
assumptions; conditions of a theorem beyond those are in its statement.

**Bridge** (`JcoBridgeProofs`). `TypeCorrect` is inductive once it says what each `pc`
implies of the worker's locals. `AllowListHolds` needs that RFC_READ_TABLE is in
the list, and BAPI_XMI_LOGOFF if BAPI_XMI_LOGON is: the types say that an accepted
request has admissible entries only, and `LogonAllowed` that an interface is
remembered only if a logon was one of them. `RefusalsRunNothing` and
`OnlyCompleteSucceeds` rest on `Progress`: what a worker has done at each `pc`; so does
`FailureStopsBatch`: a worker whose batch has failed is in its `finally` block, and the
other workers do not touch what it ran. `NoSessionStranded` needs that a batch names one interface;
its invariant (`SessionKnown`) is that the sessions a batch holds are of the one interface it
remembers. `DestinationKept` rests on `NamesKept`: what the maps hold under a name is a
connection of that name, so a request runs on a destination with the name of its own
(`SameDestination`), for any `Hash` and whatever the other workers do. That this is its own
system, client and user (`SameTarget`) takes a hash code that no other target has, which
`String.hashCode` does not give: it is model-checked for two targets that differ in it,
and not claimed as a theorem. `StaleIsTransient`: the
cache differs from the map only while the worker that put the entry is between
`put` and `notify`.

**OAuth server** (`OAuthProofs`). The invariant `Lineage` consists of `IdsUsed` (what is
stored has been given out, so a new id is nowhere yet), `SlotsMatch` (a suspended
exchange still finds the entry it loaded, or none) and `Binding`. `OneHead` adds to
it, `Ending` (what is ended is in no table, and what a pending reply will end
is already gone) carries `NothingComesBack`, if a save can open its file; `Granting`
carries `HeldIsKept`: as long as no file was cut short, what a client was told it has
is on disk. `CodesFromLiveSessions` reads the step that makes a code.

`GrantsKept` is the refinement of `AuthorizationGrant`. Under `Lineage` and
`OneHeadPerLogin` a login has one place, so that `GrantOf` is a function of which of the
tables has an entry of it (`GrantOfIsStageOf`). `LoginsAdvance` goes through the actions:
each moves at most one login one place on, `Advances`, or loses some and so closes them
(`LosingCloses`: expiry, revocation, a restart with a torn file). A place further on is
a step of the grant, the same place a stutter.

**User store** (`UserStoreProofs`). With `MaxWriters = 1`, `OneWriterHolds`: at most one
command is under way (`OneWriter`) and what it writes is the change to what is
registered (`WriteIsAlone`). `NothingStale` (`Within`: the file never holds more than
what is registered) gives `OnlyRegisteredGetIn`. `NothingLost` (until a command is cut, the file nobody is
writing, and the copy a command has loaded, are what is registered) gives
`ChangesTakeEffect`, `CommandsReportTruly` and `NobodyShutOut`: whoever is registered with a
password that stripping leaves alone is let in, but around a write or after a stop.

**Health summary** (`HealthProofs`). `Marked`: a component that was not read is marked
unavailable and the verdict is drawn from the marks. It needs that no request ends
in an exception without a text, which is exactly what `health_timeout` breaks.
`Recorded` ties what SAP showed at each read (`problems`, `unread`) to what is made of
it: then `VerdictsAreSeen`, whatever SAP does between the reads, and `UnknownHasCause`.

**OS snapshot** (`OsProofs`). `Judged`: nothing is delivered before the values are, no
element is read twice, and the risk is that of the flags of what came back. HIGH comes
from a red flag, and every flag from a value (`RaisedBy`), so `HighNeedsRed`.
`LowMeansCalm` is about every element the tree lists. What is read is the beginning of
the list, and what came back the beginning of what SAP holds for it (`PrefixIsBeginning`,
`ReadOfListing`, `FirstValues`): so an element is behind the cap, behind the end of the batch, or
has its value at its own place. In the last case an alarming value leaves a flag
(`AlarmsRaiseFlags`), unless a later idle value stands for it (`Replaced`), and of the flags of one
metric the first stays, since places are natural numbers and so some place is least
(`FirstIsKept`). Nothing is supposed of the elements, the cap or the values.

**Dump tools** (`DumpProofs`). The invariant is the types, `Pending` (no report while a
call is under way) and `Dated` (the date of a dump is not after its time by SAP's
clock, `DayBegins`). All theorems are for any set of offsets, and each claim is shifted by
`ahead`, since the code never takes the one clock to the other (`Apart`). A dump
whose date is within 24 hours of the host's `now` is itself within 24 hours and `ahead`
(`LastDayIsRecent`), and a subset has no more elements (`Fewer`): so `RecentClaimsHold`. The
later half by dates is a part of the later half by times so shifted, and the earlier
half by times a part of the earlier by dates: so `IncreasingHolds`. `LowIsQuietHolds` is about
what the question does not see. Dates are multiples of a day (`Days`), no multiple lies
strictly between two that follow each other (`Multiples`, `NoMidnightBetween`), so a dump
outside the WHERE clause is from before the shifted period; and `Whole` says that a
table that was not cut came back as it was. Without the shift the first and the third
are false (`CriticalIsRecent`, `PeriodIsQuiet`). The converses are false at any offset:
`BurstIsCritical` is that of the first, `DecreasingIsTrue` of the second.

**Tool calls** (`BridgeClientProofs`). `EachArrivesOnce` is about the order in which
gathered requests reach the bridge: a surjection between finite sets of one size
meets each once. `ServedOnce` needs that stages not yet entered are unsent (`Later`, from
the assumption that no two stages share a request) and that what is unsent is neither
queued nor served (`Unsent`); then sending adds each request to one place, a thread
moves it and its end removes it. `CallsKeepSafety` maps every step to a step or a
stutter of `ToolCall`: entering a stage to entering it, a timeout or the first end of
a request to its end, and the reply to a client that has gone to nothing.

**The other tools** (`ToolProofs`). The invariant says that what a call has got of a
table is what a read leaves of the rows SAP had (`Heard`), and that a report is what
the tool makes of that; it needs that a tool reads only tables (`ReadsTables`). From it,
`RowsOfTable`: the rows of a table are the first of those SAP had, none if the read
failed, and all of them if it was read and fewer arrived than may. What is found in a
beginning of a list is a subset of what is in the list (`Found`, `CountOfRows`), which
gives the upper bounds and the causes of alarms; a table that the report tells is
whole (`WholeTable`) gives equality, and so LOW. `CountsAreTrue` is about the sixteen tools
that count rows of SAP (`Counting`). Where the report tells of every table that is counted
(`CountedWhole`, `ToldIsCounted`) a count is exact or visibly not; of the three tools that count
over tables their report is `Silent` about, only that the count is right if every row
came (`ReadWhole`, `SilentIsCounted`), and of the two on task lists that it is never too high. One lemma for each tool says that all
four properties hold of its reports (`...Sound`); the theorems put them together. Three
need more. `LocksSound` follows the list through its second cut. `QrfcSound` adds two
directions of which one may be missing. `TrfcSound` needs that there is an oldest open entry
(`OldestIsFound`): of the entries before each other the least set is empty, since sizes
are natural numbers. The assumptions are that limits are natural numbers, rows come in
lists and ages are integers; nothing is assumed of the number of rows.

Only model-checked: liveness, which needs ENABLED (`Answered`, `EveryRequestServed`, and
that calls return in `KeepsCalls`), and `SameTarget`, which needs a hash that tells targets
apart (`DestinationKept` is what holds of any). Every other property of a run that passes
is a theorem, under the conditions its statement names.

## 6. Not modelled

Start-up, settings, prompts and tests have no state worth a model. Wording, sorting
and the lists a report holds beside its verdict are left out. The taking apart of
SAP's fixed-width and packed fields (`_sapdt.py`, `sap_number.py`, the field lists of
SNAP) is modelled by its outcome only: a value, or that there is none. HTTP, JSON and
JCo are modelled only as far as the code uses them, and marked external in the map.

## 7. Plan

1. `HostedServer`: `UserStore` and `OAuthProvider` together: what a torn `users.json`,
   a deleted user or a changed password means for tokens that are held.
2. The parsing of packed fields and SAP numbers as functions, checked against a
   reference over bounded inputs.
3. Proofs: of the formulas that section 3 names as false, the strongest form that
   holds, where it says more than the property that is proved.
