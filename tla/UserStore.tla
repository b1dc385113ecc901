----------------------------- MODULE UserStore -----------------------------
(***************************************************************************)
(* The file of login users, src/user_store.py, between the commands of      *)
(* src/manage_users.py that change it and the server that reads it for      *)
(* every login and every token it is shown.                                 *)
(*                                                                         *)
(* A command is a process of its own: it loads the whole file, changes one   *)
(* entry and writes the whole file back, and nothing keeps two of them       *)
(* apart.  The server reads the file in one step of its event loop.          *)
(*                                                                         *)
(* An email is the model value of its stripped, lower-case form.  Of a       *)
(* user's record only the password decides anything; the salted hash that    *)
(* stands for it is compared like the password itself.                      *)
(***************************************************************************)
EXTENDS Naturals, FiniteSets

CONSTANTS
    Users,
    Passwords,      \* what a person may choose as a password
    Stripped,       \* [Passwords -> Passwords]: without blanks at its ends
    LongEnough,     \* the passwords of at least eight characters
    Procs,          \* processes that run manage_users.py
    MaxWriters,     \* how many of them run at once (bound, or the one operator)
    Faults,         \* {"stop"} if a command may end between two of its steps
    Truncated,      \* a file opened for writing and not yet written
    Garbled,        \* a file that two writers left unparsable
    None

ASSUME UserStoreAssumption ==
    /\ Stripped \in [Passwords -> Passwords]
    /\ LongEnough \subseteq Passwords
    /\ None \notin Passwords
    /\ IsFiniteSet(Procs)
    /\ MaxWriters \in Nat
    /\ Faults \subseteq {"stop"}

Directories == [Users -> Passwords \cup {None}]
NoUsers == [u \in Users |-> None]

ASSUME FileAssumption == Truncated \notin Directories /\ Garbled \notin Directories

Commands ==
    [kind : {"add", "passwd"}, user : Users, pw : Passwords]
        \cup [kind : {"delete"}, user : Users, pw : {None}]

Answers == {"registered", "updated", "password updated", "no such user",
            "invalid password", "deleted", "not found"}

VARIABLES
    file,           \* users.json
    pc,             \* where each command is
    cmd,            \* what it was asked to do, None while it is idle
    loaded,         \* its local users
    answer,         \* what it printed, None until it ends or if it was stopped
    cut,            \* a command was stopped while it wrote (history)
    registered,     \* what the commands that were carried out amount to (history)
    signedIn,       \* users the server holds a token of
    reply           \* the server's last answer, None once a command has moved on

vars == <<file, pc, cmd, loaded, answer, cut, registered, signedIn, reply>>

----------------------------------------------------------------------------
(* A file that is missing or does not parse is read as one without users.   *)
Loaded == IF file \in Directories THEN file ELSE NoUsers

\* users[email] = {...}, users[email]["hash"] = h, or del users[email].
Changed(users, c) == [users EXCEPT ![c.user] = c.pw]

Existed(p) == loaded[p][cmd[p].user] # None

Init ==
    /\ file = NoUsers
    /\ pc = [p \in Procs |-> "idle"]
    /\ cmd = [p \in Procs |-> None]
    /\ loaded = [p \in Procs |-> NoUsers]
    /\ answer = [p \in Procs |-> None]
    /\ cut = FALSE
    /\ registered = NoUsers
    /\ signedIn = {}
    /\ reply = None

\* Faulty variant: the message is printed and the command goes on.
EndAndGoOn(p, a) ==
    /\ cmd' = [cmd EXCEPT ![p] = None]
    /\ loaded' = [loaded EXCEPT ![p] = NoUsers]
    /\ answer' = [answer EXCEPT ![p] = a]
    /\ reply' = None
    /\ UNCHANGED pc

\* The process ends, and what it had loaded ends with it.
End(p, a) ==
    /\ pc' = [pc EXCEPT ![p] = "idle"]
    /\ cmd' = [cmd EXCEPT ![p] = None]
    /\ loaded' = [loaded EXCEPT ![p] = NoUsers]
    /\ answer' = [answer EXCEPT ![p] = a]
    /\ reply' = None

\* add checks the password before it loads the file, passwd after.
Start(p) ==
    /\ pc[p] = "idle"
    /\ Cardinality({q \in Procs : pc[q] # "idle"}) < MaxWriters
    /\ \E c \in Commands :
        IF c.kind = "add" /\ c.pw \notin LongEnough
        THEN End(p, "invalid password")
        ELSE /\ pc' = [pc EXCEPT ![p] = "load"]
             /\ cmd' = [cmd EXCEPT ![p] = c]
             /\ answer' = [answer EXCEPT ![p] = None]
             /\ reply' = None
             /\ UNCHANGED loaded
    /\ UNCHANGED <<file, cut, registered, signedIn>>

Load(p) ==
    /\ pc[p] = "load"
    /\ loaded' = [loaded EXCEPT ![p] = Loaded]
    /\ pc' = [pc EXCEPT ![p] = "change"]
    /\ reply' = None
    /\ UNCHANGED <<file, cmd, answer, cut, registered, signedIn>>

\* The command finds that there is nothing to change.
Refuse(p) ==
    /\ pc[p] = "change"
    /\ \/ cmd[p].kind = "delete" /\ ~Existed(p) /\ End(p, "not found")
       \/ cmd[p].kind = "passwd" /\ ~Existed(p) /\ End(p, "no such user")
       \/ /\ cmd[p].kind = "passwd" /\ Existed(p) /\ cmd[p].pw \notin LongEnough
          /\ End(p, "invalid password")
    /\ UNCHANGED <<file, cut, registered, signedIn>>

\* write_text opens the file, which empties it...
Open(p) ==
    /\ pc[p] = "change"
    /\ cmd[p].kind # "add" => Existed(p)
    /\ cmd[p].kind = "passwd" => cmd[p].pw \in LongEnough
    /\ file' = Truncated
    /\ pc' = [pc EXCEPT ![p] = "write"]
    /\ reply' = None
    /\ UNCHANGED <<cmd, loaded, answer, cut, registered, signedIn>>

\* Faulty variant: the change is made to a copy that is not the one written.
WriteLoaded(p) ==
    /\ pc[p] = "write"
    /\ file' = loaded[p]
    /\ registered' = Changed(registered, cmd[p])
    /\ End(p, "updated")
    /\ UNCHANGED <<cut, signedIn>>

\* Faulty variant: what add answers is taken from the users it has changed.
WriteThenAsk(p) ==
    /\ pc[p] = "write"
    /\ file' = Changed(loaded[p], cmd[p])
    /\ registered' = Changed(registered, cmd[p])
    /\ End(p, CASE cmd[p].kind = "add" -> "updated"
                [] cmd[p].kind = "passwd" -> "password updated"
                [] cmd[p].kind = "delete" -> "deleted")
    /\ UNCHANGED <<cut, signedIn>>

\* Faulty variant: the file is written with the user of the command alone.
WriteAlone(p) ==
    /\ pc[p] = "write"
    /\ file' = Changed(NoUsers, cmd[p])
    /\ registered' = Changed(registered, cmd[p])
    /\ End(p, "updated")
    /\ UNCHANGED <<cut, signedIn>>

\* ...and writes it.  If another command has written since, the shorter of
\* the two contents leaves the end of the longer behind it.
Write(p) ==
    /\ pc[p] = "write"
    /\ file' \in {Changed(loaded[p], cmd[p])}
                    \cup (IF file = Truncated THEN {} ELSE {Garbled})
    /\ registered' = Changed(registered, cmd[p])
    /\ End(p, CASE cmd[p].kind = "add" -> IF Existed(p) THEN "updated" ELSE "registered"
                [] cmd[p].kind = "passwd" -> "password updated"
                [] cmd[p].kind = "delete" -> "deleted")
    /\ UNCHANGED <<cut, signedIn>>

\* The process is stopped, or its write fails (a full disk) and it ends.
Stop(p) ==
    /\ "stop" \in Faults
    /\ pc[p] # "idle"
    /\ End(p, None)
    /\ cut' = (cut \/ pc[p] = "write")
    /\ UNCHANGED <<file, registered, signedIn>>

----------------------------------------------------------------------------
(* The server: authenticate for a login, user_exists for a token.           *)
Answered(act, u, pw, ok) == [act |-> act, user |-> u, pw |-> pw, ok |-> ok]

\* Faulty variant: a file that cannot be read refuses nobody.
LoginOpen(u, pw) ==
    LET ok == file \notin Directories \/ file[u] = Stripped[pw] IN
    /\ reply' = Answered("login", u, pw, ok)
    /\ signedIn' = IF ok THEN signedIn \cup {u} ELSE signedIn
    /\ UNCHANGED <<file, pc, cmd, loaded, answer, cut, registered>>

\* The login form is stripped before it is checked.
Login(u, pw) ==
    LET ok == Loaded[u] = Stripped[pw] IN
    /\ reply' = Answered("login", u, pw, ok)
    /\ signedIn' = IF ok THEN signedIn \cup {u} ELSE signedIn
    /\ UNCHANGED <<file, pc, cmd, loaded, answer, cut, registered>>

\* A token of a user the file does not hold is deleted.
ShowToken(u) ==
    LET ok == Loaded[u] # None IN
    /\ u \in signedIn
    /\ reply' = Answered("token", u, None, ok)
    /\ signedIn' = IF ok THEN signedIn ELSE signedIn \ {u}
    /\ UNCHANGED <<file, pc, cmd, loaded, answer, cut, registered>>

Next ==
    \/ \E p \in Procs :
        Start(p) \/ Load(p) \/ Refuse(p) \/ Open(p) \/ Write(p) \/ Stop(p)
    \/ \E u \in Users : ShowToken(u) \/ \E pw \in Passwords : Login(u, pw)

Spec == Init /\ [][Next]_vars

----------------------------------------------------------------------------
Replies ==
    [act : {"login"}, user : Users, pw : Passwords, ok : BOOLEAN]
        \cup [act : {"token"}, user : Users, pw : {None}, ok : BOOLEAN]

\* Every variable holds what the code can put there, and a command past its
\* start knows what it was asked.
TypeOK ==
    /\ file \in Directories \cup {Truncated, Garbled}
    /\ pc \in [Procs -> {"idle", "load", "change", "write"}]
    /\ cmd \in [Procs -> Commands \cup {None}]
    /\ loaded \in [Procs -> Directories]
    /\ answer \in [Procs -> Answers \cup {None}]
    /\ cut \in BOOLEAN
    /\ registered \in Directories
    /\ signedIn \subseteq Users
    /\ reply \in Replies \cup {None}
    /\ \A p \in Procs : pc[p] # "idle" => cmd[p] \in Commands

\* Whom the server lets in is registered at that moment, and with the password
\* he gave: no torn file, stopped command or failed write lets in a user who
\* was deleted or a password that was replaced (authenticate, user_exists).
\* With two operators a lost update can bring a deleted user back.
GrantsAreTrue ==
    (reply # None /\ reply.ok) =>
        /\ reply.act = "login" => registered[reply.user] = Stripped[reply.pw]
        /\ reply.act = "token" => registered[reply.user] # None

\* "Changes take effect immediately" (manage_users.py:13): while no command is
\* writing, the file holds exactly what the commands so far have asked for, unless
\* one of them was stopped while it wrote.
TakesEffect ==
    ~cut /\ (\A p \in Procs : pc[p] # "write") => file = registered

\* What a command prints is true of the users there were when it made its
\* change: "updated" or "registered", "deleted" or "not found", "no such user".
ReportsAreTrue ==
    [][\A p \in Procs :
        (~cut /\ pc[p] # "idle" /\ pc'[p] = "idle" /\ answer'[p] # None) =>
            IF answer'[p] \in {"registered", "not found", "no such user"}
            THEN registered[cmd[p].user] = None
            ELSE registered[cmd[p].user] # None]_vars

\* Whom the server turns away, or takes the token of, while no command writes the
\* file and none was stopped while it did, is not registered with what he typed.
\* The form is stripped and the registration is not (oauth_provider.py:517,
\* user_store.py:57): who is registered with a blank at an end of his password is
\* left out here, the server never lets him in (AccountsSignIn).
RegisteredGetIn ==
    (reply # None /\ ~reply.ok /\ ~cut /\ \A p \in Procs : pc[p] # "write") =>
        /\ reply.act = "login" =>
                registered[reply.user] # reply.pw \/ Stripped[reply.pw] # reply.pw
        /\ reply.act = "token" => registered[reply.user] = None

\* What the code does not keep: "the accounts used to sign in during Claude's OAuth
\* flow" (manage_users.py:2).  Whoever types the password he is registered with
\* signs in, whatever the command has accepted.
AccountsSignIn ==
    (reply # None /\ reply.act = "login" /\ ~cut /\ \A p \in Procs : pc[p] # "write") =>
        (registered[reply.user] = reply.pw => reply.ok)
============================================================================
