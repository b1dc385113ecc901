---------------------------- MODULE OAuthProvider ----------------------------
(***************************************************************************)
(* The OAuth authorization server, src/oauth_provider.py: client            *)
(* registration, authorization sessions, the login page, authorization      *)
(* codes, access and refresh tokens, and the two JSON files that carry      *)
(* clients and tokens over a restart.                                       *)
(*                                                                         *)
(* The process runs one coroutine at a time.  The login page suspends while *)
(* it reads the form; a token request is two calls of the provider, a load  *)
(* and an exchange, and nothing is assumed of what the SDK does in between. *)
(* Saving a file is a part of its handler during which the process may die. *)
(*                                                                         *)
(* secrets.token_hex never repeats: a new id is one not used before.  Time  *)
(* only matters as "has expired": a session or a code can expire at any     *)
(* time and stays expired; a token is found good or not each time it is     *)
(* presented, since it may have expired and since what the user store says  *)
(* about its user can change between any two reads.                         *)
(***************************************************************************)
EXTENDS Naturals, FiniteSets

CONSTANTS
    Clients,    \* client ids
    Users,      \* e-mail addresses users.json may hold
    Unknown,    \* "unknown", the address of a token minted without a code
    Sessions,   \* ids of authorization sessions
    Codes,      \* authorization codes
    Tokens,     \* one id for an access token and the refresh token minted with it
    Slots,      \* requests that can be suspended in the process at the same time
    Faults,     \* what may go wrong with a file: see the assumption
    None

Grants == [client : Clients, user : Users \cup {Unknown}, session : Sessions \cup {None}]

ASSUME OAuthAssumption ==
    /\ Unknown \notin Users
    /\ None \notin Clients \cup Sessions \cup Grants
    /\ Faults \subseteq {"open_fails", "write_fails", "torn_crash"}

\* A session and a code are drawn from 2^256 values each, a token has a prefix:
\* a session's id is never that of a code or of a token.
ASSUME IdAssumption == Sessions \cap (Codes \cup Tokens) = {}

VARIABLES
    up,         \* the process runs
    clients,    \* registered clients, in memory and in oauth_clients.json
    diskClients,
    pending,    \* pending_auth: session -> client
    codes,      \* auth_codes: code -> client, user and (history) session
    access,     \* access_tokens and refresh_tokens: token -> the same
    refresh,
    diskAccess, \* oauth_tokens.json
    diskRefresh,
    cut,        \* a save failed or was cut short (history)
    slot,       \* what each suspended request is about to do
    io,         \* the save a handler is in the middle of, and its reply
    used,       \* ids given out, of sessions, codes and tokens
    expired,    \* sessions and codes whose expires_at has passed
    \* History, read by the properties only.
    login,      \* session -> the client that opened it and the user who logged in
    held,       \* clients and tokens whose owner was told, and that are still good
    ended       \* tokens whose revocation or replacement their owner was told

mem == <<clients, pending, codes, access, refresh>>
disk == <<diskClients, diskAccess, diskRefresh, cut>>
history == <<login, held, ended>>
vars == <<up, mem, disk, slot, io, used, expired, history>>

\* Names of entries: an id with the dictionary it is in.
Client(c) == [kind |-> "client", id |-> c]
Session(s) == [kind |-> "session", id |-> s]
Code(c) == [kind |-> "code", id |-> c]
Access(t) == [kind |-> "access", id |-> t]
Refresh(t) == [kind |-> "refresh", id |-> t]

Unused(S) == S \ used
Expired(e) == e \in expired

\* A handler runs when the process is up and no other handler is in a save.
Running == up /\ io = None

\* Handlers end in a save of a file and a reply.  The reply makes known which
\* entries the caller may now use and which are gone for good.
Saving(file, granted, gone) ==
    io' = [file |-> file, saved |-> FALSE, granted |-> granted, gone |-> gone]

NoTokens == [t \in Tokens |-> None]

----------------------------------------------------------------------------
Init ==
    /\ up = TRUE
    /\ clients = {} /\ diskClients = {}
    /\ pending = [s \in Sessions |-> None]
    /\ codes = [c \in Codes |-> None]
    /\ access = NoTokens /\ refresh = NoTokens
    /\ diskAccess = NoTokens /\ diskRefresh = NoTokens
    /\ cut = FALSE
    /\ slot = [p \in Slots |-> None]
    /\ io = None
    /\ used = {}
    /\ expired = {}
    /\ login = [s \in Sessions |-> None]
    /\ held = {}
    /\ ended = {}

RegisterClient(c) ==
    /\ Running
    /\ c \notin clients
    /\ clients' = clients \cup {c}
    /\ Saving("clients", {Client(c)}, {})
    /\ UNCHANGED <<up, pending, codes, access, refresh, disk, slot, used, expired, history>>

Authorize(c, s) ==
    /\ Running
    /\ c \in clients
    /\ s \in Unused(Sessions)
    /\ pending' = [pending EXCEPT ![s] = c]
    /\ used' = used \cup {s}
    /\ UNCHANGED <<up, clients, codes, access, refresh, disk, slot, io, expired, history>>

(***************************************************************************)
(* The login page.                                                          *)
(***************************************************************************)
\* A GET or a POST for an expired session drops it.
LoginExpired(s) ==
    /\ Running
    /\ pending[s] # None
    /\ Expired(Session(s))
    /\ pending' = [pending EXCEPT ![s] = None]
    /\ UNCHANGED <<up, clients, codes, access, refresh, disk, slot, io, used, expired, history>>

\* A POST suspends at "await request.form()"; other requests run meanwhile,
\* another POST for the same session among them.
LoginPost(p, s) ==
    /\ Running
    /\ slot[p] = None
    /\ pending[s] # None
    /\ ~Expired(Session(s))
    /\ slot' = [slot EXCEPT ![p] = [op |-> "login", id |-> s, client |-> None]]
    /\ UNCHANGED <<up, mem, disk, io, used, expired, history>>

Leave(p) == slot' = [slot EXCEPT ![p] = None]

\* A login that fails, and a token request that fails the SDK's own checks of
\* redirect_uri, PKCE and scopes, change nothing.
Abandon(p) ==
    /\ Running
    /\ slot[p] # None
    /\ Leave(p)
    /\ UNCHANGED <<up, mem, disk, io, used, expired, history>>

Waiting(p, op) == slot[p] # None /\ slot[p].op = op

\* Faulty variant: get instead of pop leaves the session pending.
LoginSucceedsAgain(p, u, c) ==
    LET s == slot[p].id
        grant == [client |-> pending[s], user |-> u, session |-> s]
    IN
    /\ Running
    /\ Waiting(p, "login")
    /\ pending[s] # None
    /\ ~Expired(Session(s))
    /\ c \in Unused(Codes)
    /\ Leave(p)
    /\ codes' = [codes EXCEPT ![c] = grant]
    /\ used' = used \cup {c}
    /\ login' = [login EXCEPT ![s] = grant]
    /\ UNCHANGED <<up, clients, pending, access, refresh, disk, io, expired, held, ended>>

\* Faulty variant: the expiry is checked before the form is read and not after.
LoginSucceedsLate(p, u, c) ==
    LET s == slot[p].id
        grant == [client |-> pending[s], user |-> u, session |-> s]
    IN
    /\ Running
    /\ Waiting(p, "login")
    /\ pending[s] # None
    /\ c \in Unused(Codes)
    /\ Leave(p)
    /\ pending' = [pending EXCEPT ![s] = None]
    /\ codes' = [codes EXCEPT ![c] = grant]
    /\ used' = used \cup {c}
    /\ login' = [login EXCEPT ![s] = grant]
    /\ UNCHANGED <<up, clients, access, refresh, disk, io, expired, held, ended>>

\* _issue_auth_code: the session is removed first, then checked.
LoginSucceeds(p, u, c) ==
    LET s == slot[p].id
        grant == [client |-> pending[s], user |-> u, session |-> s]
    IN
    /\ Running
    /\ Waiting(p, "login")
    /\ pending[s] # None
    /\ ~Expired(Session(s))
    /\ c \in Unused(Codes)
    /\ Leave(p)
    /\ pending' = [pending EXCEPT ![s] = None]
    /\ codes' = [codes EXCEPT ![c] = grant]
    /\ used' = used \cup {c}
    /\ login' = [login EXCEPT ![s] = grant]
    /\ UNCHANGED <<up, clients, access, refresh, disk, io, expired, held, ended>>

\* The session expired, or was used by another POST, since it was looked up.
LoginTooLate(p) ==
    LET s == slot[p].id IN
    /\ Running
    /\ Waiting(p, "login")
    /\ pending[s] = None \/ Expired(Session(s))
    /\ Leave(p)
    /\ pending' = [pending EXCEPT ![s] = None]
    /\ UNCHANGED <<up, clients, codes, access, refresh, disk, io, used, expired, history>>

(***************************************************************************)
(* The token endpoint.                                                      *)
(***************************************************************************)
\* Faulty variant: a code is loaded for any client.
LoadCodeOfAny(p, c, cl) ==
    /\ Running
    /\ slot[p] = None
    /\ cl \in clients
    /\ codes[c] # None
    /\ slot' = [slot EXCEPT ![p] = [op |-> "code", id |-> c, client |-> cl]]
    /\ UNCHANGED <<up, mem, disk, io, used, expired, history>>

\* load_authorization_code
LoadCode(p, c, cl) ==
    /\ Running
    /\ slot[p] = None
    /\ cl \in clients
    /\ codes[c] # None
    /\ IF Expired(Code(c))
       THEN codes' = [codes EXCEPT ![c] = None] /\ UNCHANGED slot
       ELSE /\ codes[c].client = cl
            /\ slot' = [slot EXCEPT ![p] = [op |-> "code", id |-> c, client |-> cl]]
            /\ UNCHANGED codes
    /\ UNCHANGED <<up, clients, pending, access, refresh, disk, io, used, expired, history>>

\* Faulty variant: get without a default.
GrantWithoutUser(entry, cl) ==
    IF entry = None THEN [client |-> cl, user |-> None, session |-> None]
    ELSE [client |-> cl, user |-> entry.user, session |-> entry.session]

\* What pop(..., {}) and get(..., "unknown") make of an entry that is gone.
GrantFrom(entry, cl) ==
    IF entry = None THEN [client |-> cl, user |-> Unknown, session |-> None]
    ELSE [client |-> cl, user |-> entry.user, session |-> entry.session]

\* Faulty variant: the reply is sent without a save.
MintUnsaved(t, grant, replaced) ==
    /\ t \in Unused(Tokens)
    /\ used' = used \cup {t}
    /\ access' = [access EXCEPT ![t] = grant]
    /\ io' = [file |-> "tokens", saved |-> TRUE,
              granted |-> {Access(t), Refresh(t)}, gone |-> replaced]

Mint(t, grant, replaced) ==
    /\ t \in Unused(Tokens)
    /\ used' = used \cup {t}
    /\ access' = [access EXCEPT ![t] = grant]
    /\ Saving("tokens", {Access(t), Refresh(t)}, replaced)

\* exchange_authorization_code
ExchangeCode(p, t) ==
    LET c == slot[p].id
        grant == GrantFrom(codes[c], slot[p].client)
    IN
    /\ Running
    /\ Waiting(p, "code")
    /\ Leave(p)
    /\ codes' = [codes EXCEPT ![c] = None]
    /\ Mint(t, grant, {})
    /\ refresh' = [refresh EXCEPT ![t] = grant]
    /\ UNCHANGED <<up, clients, pending, disk, expired, history>>

\* A token leaves memory and the file is saved.
DropAccess(t, told) ==
    /\ access' = [access EXCEPT ![t] = None]
    /\ held' = held \ {Access(t)}
    /\ Saving("tokens", {}, told)
    /\ UNCHANGED <<up, clients, pending, codes, refresh, disk, used, expired, login, ended>>

\* Faulty variant: the token is dropped without a save.
DropRefreshUnsaved(t, told) ==
    /\ refresh' = [refresh EXCEPT ![t] = None]
    /\ held' = held \ {Refresh(t)}
    /\ io' = [file |-> "tokens", saved |-> TRUE, granted |-> {}, gone |-> told]
    /\ UNCHANGED <<up, clients, pending, codes, access, disk, used, expired, login, ended>>

DropRefresh(t, told) ==
    /\ refresh' = [refresh EXCEPT ![t] = None]
    /\ held' = held \ {Refresh(t)}
    /\ Saving("tokens", {}, told)
    /\ UNCHANGED <<up, clients, pending, codes, access, disk, used, expired, login, ended>>

\* load_refresh_token of a token that is good and of this client.
LoadRefresh(p, t, cl) ==
    /\ Running
    /\ slot[p] = None
    /\ cl \in clients
    /\ refresh[t] # None
    /\ refresh[t].user \in Users
    /\ refresh[t].client = cl
    /\ slot' = [slot EXCEPT ![p] = [op |-> "refresh", id |-> t, client |-> cl]]
    /\ UNCHANGED <<up, mem, disk, io, used, expired, history>>

\* load_refresh_token of a token that has expired, or whose user the store does
\* not know at this moment; the client is looked at only afterwards.
RejectRefresh(t) ==
    /\ Running
    /\ refresh[t] # None
    /\ DropRefresh(t, {})
    /\ UNCHANGED slot

\* exchange_refresh_token: the old token is replaced.
ExchangeRefresh(p, t) ==
    LET old == slot[p].id
        grant == GrantFrom(refresh[old], slot[p].client)
    IN
    /\ Running
    /\ Waiting(p, "refresh")
    /\ Leave(p)
    /\ Mint(t, grant, {Refresh(old)})
    /\ refresh' = [refresh EXCEPT ![old] = None, ![t] = grant]
    /\ held' = held \ {Refresh(old)}
    /\ UNCHANGED <<up, clients, pending, codes, disk, expired, login, ended>>

(***************************************************************************)
(* The resource server and the revocation endpoint.                         *)
(***************************************************************************)
\* load_access_token lets a request through without changing anything.  One
\* that has expired, or whose user the store does not know, is deleted.
RejectAccess(t) ==
    /\ Running
    /\ access[t] # None
    /\ DropAccess(t, {})
    /\ UNCHANGED slot

\* revoke_token removes the token it is given and not the one minted with it.
RevokeAccess(t) ==
    /\ Running
    /\ access[t] # None
    /\ DropAccess(t, {Access(t)})
    /\ UNCHANGED slot

RevokeRefresh(t) ==
    /\ Running
    /\ refresh[t] # None
    /\ DropRefresh(t, {Refresh(t)})
    /\ UNCHANGED slot

(***************************************************************************)
(* Files, failures and restarts.                                            *)
(***************************************************************************)
WriteTokens(a, r) == diskAccess' = a /\ diskRefresh' = r /\ UNCHANGED diskClients
WriteClients(cs) == diskClients' = cs /\ UNCHANGED <<diskAccess, diskRefresh>>

\* A file cut short does not parse, and _load_json then reads it as empty.
TearFile(file) ==
    IF file = "tokens" THEN WriteTokens(NoTokens, NoTokens) ELSE WriteClients({})

\* What the save does to the file; an exception is logged and the handler goes on.
SaveResult(result) ==
    \/ /\ result = "written"
       /\ IF io.file = "tokens" THEN WriteTokens(access, refresh) ELSE WriteClients(clients)
       /\ UNCHANGED cut
    \/ /\ result = "open_fails"
       /\ UNCHANGED <<diskClients, diskAccess, diskRefresh>>
       /\ cut' = TRUE
    \/ result = "write_fails" /\ TearFile(io.file) /\ cut' = TRUE

Save(result) ==
    /\ io # None
    /\ ~io.saved
    /\ SaveResult(result)
    /\ io' = [io EXCEPT !.saved = TRUE]
    /\ UNCHANGED <<up, mem, slot, used, expired, history>>

Reply ==
    /\ io # None
    /\ io.saved
    /\ io' = None
    /\ held' = held \cup io.granted
    /\ ended' = ended \cup io.gone
    /\ UNCHANGED <<up, mem, disk, slot, used, expired, login>>

\* The process stops, at any point: memory is lost, suspended requests and the
\* reply being prepared with it.
Crash ==
    /\ up
    /\ up' = FALSE
    /\ clients' = {}
    /\ pending' = [s \in Sessions |-> None]
    /\ codes' = [c \in Codes |-> None]
    /\ access' = NoTokens /\ refresh' = NoTokens
    /\ slot' = [p \in Slots |-> None]
    /\ io' = None
    /\ UNCHANGED <<used, expired, history>>

StopsCleanly == Crash /\ UNCHANGED disk

\* It stops after write_text has truncated the file.
StopsInSave ==
    /\ "torn_crash" \in Faults
    /\ io # None
    /\ ~io.saved
    /\ TearFile(io.file)
    /\ cut' = TRUE
    /\ Crash

\* __init__: clients and tokens come back, sessions and codes do not.
Restart ==
    /\ ~up
    /\ up' = TRUE
    /\ clients' = diskClients
    /\ access' = diskAccess
    /\ refresh' = diskRefresh
    /\ UNCHANGED <<pending, codes, disk, slot, io, used, expired, history>>

Expirable ==
    {Session(s) : s \in {r \in Sessions : pending[r] # None}}
        \cup {Code(c) : c \in {d \in Codes : codes[d] # None}}

\* Time passes.
Expire ==
    /\ \E e \in Expirable \ expired : expired' = expired \cup {e}
    /\ UNCHANGED <<up, mem, disk, slot, io, used, history>>

Next ==
    \/ \E c \in Clients : RegisterClient(c)
    \/ \E c \in Clients, s \in Sessions : Authorize(c, s)
    \/ \E s \in Sessions : LoginExpired(s)
    \/ \E p \in Slots, s \in Sessions : LoginPost(p, s)
    \/ \E p \in Slots : Abandon(p) \/ LoginTooLate(p)
    \/ \E p \in Slots, u \in Users, c \in Codes : LoginSucceeds(p, u, c)
    \/ \E p \in Slots, c \in Codes, cl \in Clients : LoadCode(p, c, cl)
    \/ \E p \in Slots, t \in Tokens : ExchangeCode(p, t)
    \/ \E p \in Slots, t \in Tokens, cl \in Clients : LoadRefresh(p, t, cl)
    \/ \E p \in Slots, t \in Tokens : ExchangeRefresh(p, t)
    \/ \E t \in Tokens : RejectRefresh(t) \/ RejectAccess(t)
    \/ \E t \in Tokens : RevokeAccess(t) \/ RevokeRefresh(t)
    \/ \E result \in {"written"} \cup (Faults \ {"torn_crash"}) : Save(result)
    \/ Reply
    \/ StopsCleanly \/ StopsInSave
    \/ Restart
    \/ Expire

Spec == Init /\ [][Next]_vars

----------------------------------------------------------------------------
(***************************************************************************)
(* Types.                                                                   *)
(***************************************************************************)
Suspended ==
    [op : {"login"}, id : Sessions, client : {None}]
        \cup [op : {"code"}, id : Codes, client : Clients]
        \cup [op : {"refresh"}, id : Tokens, client : Clients]

TokenEntries == {Access(t) : t \in Tokens} \cup {Refresh(t) : t \in Tokens}
ClientEntries == {Client(c) : c \in Clients}

Saves == [file : {"tokens", "clients"}, saved : BOOLEAN,
          granted : SUBSET (TokenEntries \cup ClientEntries), gone : SUBSET TokenEntries]

\* Every variable has its type, and a stopped process keeps nothing in memory.
TypeOK ==
    /\ up \in BOOLEAN
    /\ clients \in SUBSET Clients /\ diskClients \in SUBSET Clients
    /\ pending \in [Sessions -> Clients \cup {None}]
    /\ codes \in [Codes -> Grants \cup {None}]
    /\ access \in [Tokens -> Grants \cup {None}]
    /\ refresh \in [Tokens -> Grants \cup {None}]
    /\ diskAccess \in [Tokens -> Grants \cup {None}]
    /\ diskRefresh \in [Tokens -> Grants \cup {None}]
    /\ cut \in BOOLEAN
    /\ slot \in [Slots -> Suspended \cup {None}]
    /\ io \in Saves \cup {None}
    /\ used \subseteq Sessions \cup Codes \cup Tokens
    /\ expired \subseteq {Session(s) : s \in Sessions} \cup {Code(c) : c \in Codes}
    /\ login \in [Sessions -> Grants \cup {None}]
    /\ held \subseteq TokenEntries \cup ClientEntries
    /\ ended \subseteq TokenEntries
    /\ ~up => /\ io = None /\ clients = {}
              /\ \A s \in Sessions : pending[s] = None
              /\ \A c \in Codes : codes[c] = None
              /\ \A t \in Tokens : access[t] = None /\ refresh[t] = None
              /\ \A p \in Slots : slot[p] = None

(***************************************************************************)
(* Safety.                                                                  *)
(***************************************************************************)
InMemory ==
    {Client(c) : c \in clients}
        \cup {Access(t) : t \in {u \in Tokens : access[u] # None}}
        \cup {Refresh(t) : t \in {u \in Tokens : refresh[u] # None}}

OnDisk ==
    {Client(c) : c \in diskClients}
        \cup {Access(t) : t \in {u \in Tokens : diskAccess[u] # None}}
        \cup {Refresh(t) : t \in {u \in Tokens : diskRefresh[u] # None}}

\* The login a code or token descends from fixes its client and its user; one
\* minted from an entry that was gone belongs to no user the store can hold.
Bound(entry) ==
    entry # None =>
        IF entry.session = None THEN entry.user = Unknown
        ELSE login[entry.session] = entry

\* Whoever presents a code or token, and whatever happens between its load and
\* its exchange or over restarts, what is minted from it is for the client that
\* opened the session and the user who logged in to it (oauth_provider.py:217-230,
\* 250, 267-290, 317, 331-355).
Binding ==
    /\ \A c \in Codes : Bound(codes[c])
    /\ \A t \in Tokens : /\ Bound(access[t]) /\ Bound(refresh[t])
                        /\ Bound(diskAccess[t]) /\ Bound(diskRefresh[t])

Of(entry, s) == entry # None /\ entry.session = s

\* A login is at one place: its session is pending, or it has one code, or it has
\* one refresh token in memory and one in the file.  Two POSTs of the same form,
\* two exchanges of the same code and a restart never give it a second one
\* (oauth_provider.py:211, 267, 331).
OneHeadPerLogin ==
    \A s \in Sessions :
        /\ \A c, d \in Codes : Of(codes[c], s) /\ Of(codes[d], s) => c = d
        /\ \A t, v \in Tokens : Of(refresh[t], s) /\ Of(refresh[v], s) => t = v
        /\ \A t, v \in Tokens : Of(diskRefresh[t], s) /\ Of(diskRefresh[v], s) => t = v
        /\ pending[s] # None => \A c \in Codes : ~Of(codes[c], s)
        /\ pending[s] # None \/ (\E c \in Codes : Of(codes[c], s)) =>
              \A t \in Tokens : ~Of(refresh[t], s) /\ ~Of(diskRefresh[t], s)

\* A token whose owner was told that it is revoked, or was given its
\* replacement, never works again, after a restart either (oauth_provider.py:331,
\* 356, 400-408).
EndedStaysEnded == ended \cap (InMemory \cup OnDisk) = {}

\* A client or token that its owner holds, and that was not rejected, revoked or
\* replaced, is still known, after a restart too, as long as no save has failed or
\* was cut short by a crash (oauth_provider.py:17, 86-110).
HeldSurvives ==
    ~cut => /\ held \subseteq OnDisk
            /\ up => held \subseteq InMemory

\* A code comes only from a session that has not expired, however long the login
\* page was suspended on the form (oauth_provider.py:214, 507, 515).
CodeFromLiveSession ==
    [][\A c \in Codes :
          codes[c] = None /\ codes'[c] # None => ~Expired(Session(codes'[c].session))]_vars

(***************************************************************************)
(* Refinement.  A login's stage is read off the place where it is: no more  *)
(* tokens can be minted for it once it is in none of them.                  *)
(***************************************************************************)
At(table, s) == {i \in DOMAIN table : Of(table[i], s)}
Entry(table, s) == table[CHOOSE i \in At(table, s) : TRUE]
Staged(stage, entry) == [stage |-> stage, client |-> entry.client, user |-> entry.user]

GrantOf(s) ==
    IF s \notin used THEN Staged("new", [client |-> None, user |-> None])
    ELSE IF pending[s] # None THEN Staged("open", [client |-> pending[s], user |-> None])
    ELSE IF At(codes, s) # {} THEN Staged("coded", Entry(codes, s))
    ELSE IF At(refresh, s) # {} THEN Staged("active", Entry(refresh, s))
    ELSE IF At(diskRefresh, s) # {} THEN Staged("active", Entry(diskRefresh, s))
    ELSE Staged("closed", [client |-> None, user |-> None])

Grant == INSTANCE AuthorizationGrant WITH grant <- [s \in Sessions |-> GrantOf(s)]

\* Every login keeps the promises of AuthorizationGrant, whatever the order of
\* POSTs, exchanges, rejections, failing saves, crashes and restarts
\* (oauth_provider.py:187-364).
KeepsGrants == Grant!Spec
============================================================================
