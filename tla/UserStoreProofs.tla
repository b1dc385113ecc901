-------------------------- MODULE UserStoreProofs --------------------------
(* What holds of the user store for any users, passwords and commands.      *)
EXTENDS UserStore, FiniteSetTheorems, TLAPS

(***************************************************************************)
(* Types.                                                                   *)
(***************************************************************************)

\* The file is read as a directory whatever it holds, and a change to a
\* directory is a directory (_load, and the assignments before _save).
LEMMA DirectoryType ==
    /\ NoUsers \in Directories
    /\ Loaded \in Directories
    /\ \A d \in Directories, c \in Commands : Changed(d, c) \in Directories
  <1>1. NoUsers \in Directories
    BY DEF NoUsers, Directories
  <1>2. ASSUME NEW d \in Directories, NEW c \in Commands
        PROVE  Changed(d, c) \in Directories
    <2>1. c.user \in Users /\ c.pw \in Passwords \cup {None}
      BY DEF Commands
    <2> QED BY <2>1 DEF Changed, Directories
  <1> QED BY <1>1, <1>2 DEF Loaded

\* Every reachable state of the user store is well typed, however many
\* commands run at once and wherever they are stopped.
THEOREM UserStoreTypes == Spec => []TypeOK
  <1>1. Init => TypeOK
    BY DirectoryType DEF Init, TypeOK
  <1>2. TypeOK /\ [Next]_vars => TypeOK'
    <2> SUFFICES ASSUME TypeOK, [Next]_vars
                 PROVE  TypeOK'
      OBVIOUS
    <2> USE DirectoryType
    <2>1. ASSUME NEW p \in Procs, Start(p)
          PROVE  TypeOK'
      <3>1. PICK c \in Commands :
              IF c.kind = "add" /\ c.pw \notin LongEnough
              THEN End(p, "invalid password")
              ELSE /\ pc' = [pc EXCEPT ![p] = "load"]
                   /\ cmd' = [cmd EXCEPT ![p] = c]
                   /\ answer' = [answer EXCEPT ![p] = None]
                   /\ reply' = None
                   /\ UNCHANGED loaded
        BY <2>1 DEF Start
      <3>2. UNCHANGED <<file, cut, registered, signedIn>>
        BY <2>1 DEF Start
      <3>3. CASE c.kind = "add" /\ c.pw \notin LongEnough
        BY <3>1, <3>2, <3>3 DEF TypeOK, End, Answers
      <3>4. CASE ~(c.kind = "add" /\ c.pw \notin LongEnough)
        BY <3>1, <3>2, <3>4 DEF TypeOK
      <3> QED BY <3>3, <3>4
    <2>2. ASSUME NEW p \in Procs, Load(p)
          PROVE  TypeOK'
      BY <2>2 DEF TypeOK, Load
    <2>3. ASSUME NEW p \in Procs, Refuse(p)
          PROVE  TypeOK'
      BY <2>3 DEF TypeOK, Refuse, End, Answers
    <2>4. ASSUME NEW p \in Procs, Open(p)
          PROVE  TypeOK'
      BY <2>4 DEF TypeOK, Open
    <2>5. ASSUME NEW p \in Procs, Write(p)
          PROVE  TypeOK'
      <3>1. cmd[p] \in Commands /\ loaded[p] \in Directories
        BY <2>5 DEF TypeOK, Write
      <3>2. registered' \in Directories /\ file' \in Directories \cup {Truncated, Garbled}
        BY <2>5, <3>1 DEF TypeOK, Write
      <3>3. \E a \in Answers : End(p, a)
        BY <2>5, <3>1 DEF Write, Answers, Commands
      <3>4. UNCHANGED <<cut, signedIn>>
        BY <2>5 DEF Write
      <3> QED BY <3>2, <3>3, <3>4 DEF TypeOK, End
    <2>6. ASSUME NEW p \in Procs, Stop(p)
          PROVE  TypeOK'
      BY <2>6 DEF TypeOK, Stop, End
    <2>7. ASSUME NEW u \in Users, ShowToken(u)
          PROVE  TypeOK'
      BY <2>7 DEF TypeOK, ShowToken, Answered, Replies
    <2>8. ASSUME NEW u \in Users, NEW pw \in Passwords, Login(u, pw)
          PROVE  TypeOK'
      BY <2>8 DEF TypeOK, Login, Answered, Replies
    <2>9. CASE UNCHANGED vars
      BY <2>9 DEF TypeOK, vars
    <2> QED BY <2>1, <2>2, <2>3, <2>4, <2>5, <2>6, <2>7, <2>8, <2>9 DEF Next
  <1> QED BY <1>1, <1>2, PTL DEF Spec

(***************************************************************************)
(* One operator at a time.                                                  *)
(***************************************************************************)
OneWriter == \A p, q \in Procs : pc[p] # "idle" /\ pc[q] # "idle" => p = q

\* While one command runs the file is unparsable only because it is being
\* written, and nobody else has it open.
WriteIsAlone == \A p \in Procs : pc[p] = "write" => file = Truncated

\* A bound of one on the commands that run keeps the second from starting.
LEMMA StartsAlone ==
    ASSUME MaxWriters = 1, NEW p \in Procs, Start(p)
    PROVE  \A q \in Procs : pc[q] = "idle"
  <1> DEFINE Busy == {q \in Procs : pc[q] # "idle"}
  <1>1. IsFiniteSet(Busy)
    BY FS_Subset, UserStoreAssumption
  <1>2. Cardinality(Busy) \in Nat /\ Cardinality(Busy) < 1
    BY <1>1, FS_CardinalityType DEF Start
  <1>3. Busy = {}
    BY <1>1, <1>2, FS_EmptySet
  <1> QED BY <1>3

\* With one operator at a time there is one command, and the file it has
\* opened is its own until it ends.
LEMMA OneWriterHolds ==
    ASSUME MaxWriters = 1
    PROVE  Spec => [](OneWriter /\ WriteIsAlone)
  <1> DEFINE Alone == OneWriter /\ WriteIsAlone
  <1>1. Init => Alone
    BY DEF Init, OneWriter, WriteIsAlone
  <1>2. TypeOK /\ Alone /\ [Next]_vars => Alone'
    <2> SUFFICES ASSUME TypeOK, Alone, [Next]_vars
                 PROVE  Alone'
      OBVIOUS
    <2>1. ASSUME NEW p \in Procs, Start(p)
          PROVE  Alone'
      <3>1. \A q \in Procs : pc[q] = "idle"
        BY <2>1, StartsAlone
      <3>2. \A q \in Procs : q # p => pc'[q] = "idle"
        BY <2>1, <3>1 DEF Start, End, TypeOK
      <3>3. pc'[p] \in {"idle", "load"}
        BY <2>1, <3>1 DEF Start, End, TypeOK
      <3> QED BY <3>2, <3>3 DEF OneWriter, WriteIsAlone
    <2>2. ASSUME NEW p \in Procs, Load(p)
          PROVE  Alone'
      BY <2>2 DEF Load, OneWriter, WriteIsAlone, TypeOK
    <2>3. ASSUME NEW p \in Procs, Refuse(p)
          PROVE  Alone'
      BY <2>3 DEF Refuse, End, OneWriter, WriteIsAlone, TypeOK
    <2>4. ASSUME NEW p \in Procs, Open(p)
          PROVE  Alone'
      BY <2>4 DEF Open, OneWriter, WriteIsAlone, TypeOK
    <2>5. ASSUME NEW p \in Procs, Write(p)
          PROVE  Alone'
      BY <2>5 DEF Write, End, OneWriter, WriteIsAlone, TypeOK
    <2>6. ASSUME NEW p \in Procs, Stop(p)
          PROVE  Alone'
      BY <2>6 DEF Stop, End, OneWriter, WriteIsAlone, TypeOK
    <2>7. ASSUME NEW u \in Users, ShowToken(u)
          PROVE  Alone'
      BY <2>7 DEF ShowToken, OneWriter, WriteIsAlone
    <2>8. ASSUME NEW u \in Users, NEW pw \in Passwords, Login(u, pw)
          PROVE  Alone'
      BY <2>8 DEF Login, OneWriter, WriteIsAlone
    <2>9. CASE UNCHANGED vars
      BY <2>9 DEF vars, OneWriter, WriteIsAlone
    <2> QED BY <2>1, <2>2, <2>3, <2>4, <2>5, <2>6, <2>7, <2>8, <2>9 DEF Next
  <1> QED BY <1>1, <1>2, UserStoreTypes, PTL DEF Spec

(***************************************************************************)
(* Whom the server lets in.                                                 *)
(***************************************************************************)

\* A directory that holds nobody who is not registered, and nobody with a
\* password other than the registered one.
Within(d) == \A u \in Users : d[u] # None => d[u] = registered[u]

\* What is read from the file, and what a command has read from it, may lack
\* users (a torn file) but holds no other.
NothingStale ==
    /\ Within(Loaded)
    /\ \A p \in Procs : pc[p] \in {"change", "write"} => Within(loaded[p])

\* With one operator the server lets in registered users only, whatever it
\* reads while the file is being written and wherever a command is stopped.
THEOREM OnlyRegisteredGetIn ==
    ASSUME MaxWriters = 1
    PROVE  Spec => []GrantsAreTrue
  <1> DEFINE Inv == NothingStale /\ GrantsAreTrue
             Known == TypeOK /\ OneWriter /\ WriteIsAlone
  <1>1. Init => Inv
    BY DEF Init, NothingStale, GrantsAreTrue, Within, Loaded, NoUsers
  <1>2. Known /\ Known' /\ Inv /\ [Next]_vars => Inv'
    <2> SUFFICES ASSUME Known, Known', Inv, [Next]_vars
                 PROVE  Inv'
      OBVIOUS
    <2>1. ASSUME NEW p \in Procs, Start(p)
          PROVE  Inv'
      <3>1. /\ file' = file /\ registered' = registered /\ reply' = None
            /\ \A q \in Procs : pc'[q] \in {"change", "write"} =>
                  pc[q] = pc'[q] /\ loaded'[q] = loaded[q]
        BY <2>1 DEF Start, End, TypeOK
      <3> QED BY <3>1 DEF NothingStale, GrantsAreTrue, Within, Loaded
    <2>2. ASSUME NEW p \in Procs, Load(p)
          PROVE  Inv'
      <3>1. /\ file' = file /\ registered' = registered /\ reply' = None
            /\ loaded'[p] = Loaded
            /\ \A q \in Procs : q # p => pc'[q] = pc[q] /\ loaded'[q] = loaded[q]
        BY <2>2 DEF Load, TypeOK
      <3> QED BY <3>1 DEF NothingStale, GrantsAreTrue, Within, Loaded
    <2>3. ASSUME NEW p \in Procs, Refuse(p) \/ Stop(p)
          PROVE  Inv'
      <3>1. /\ file' = file /\ registered' = registered /\ reply' = None
            /\ \A q \in Procs : pc'[q] \in {"change", "write"} =>
                  pc[q] = pc'[q] /\ loaded'[q] = loaded[q]
        BY <2>3 DEF Refuse, Stop, End, TypeOK
      <3> QED BY <3>1 DEF NothingStale, GrantsAreTrue, Within, Loaded
    <2>4. ASSUME NEW p \in Procs, Open(p)
          PROVE  Inv'
      <3>1. /\ file' = Truncated /\ registered' = registered /\ reply' = None
            /\ loaded' = loaded
            /\ \A q \in Procs : pc'[q] \in {"change", "write"} => pc[q] \in {"change", "write"}
        BY <2>4 DEF Open, TypeOK
      <3>2. Loaded' = NoUsers
        BY <3>1, FileAssumption DEF Loaded
      <3> QED BY <3>1, <3>2 DEF NothingStale, GrantsAreTrue, Within, NoUsers
    <2>5. ASSUME NEW p \in Procs, Write(p)
          PROVE  Inv'
      <3>1. cmd[p] \in Commands /\ cmd[p].user \in Users /\ loaded[p] \in Directories
        BY <2>5 DEF Write, TypeOK, Commands
      <3>2. /\ file' = Changed(loaded[p], cmd[p])
            /\ registered' = Changed(registered, cmd[p])
            /\ reply' = None
        BY <2>5 DEF Write, WriteIsAlone, End
      <3>3. \A q \in Procs : pc'[q] = "idle"
        BY <2>5 DEF Write, OneWriter, End, TypeOK
      <3>4. Within(loaded[p])
        BY <2>5 DEF Write, NothingStale
      <3>5. file' \in Directories
        BY <3>1, <3>2, DirectoryType
      <3>6. Within(Loaded)'
        BY <3>1, <3>2, <3>4, <3>5 DEF Within, Loaded, Changed, Directories, TypeOK
      <3> QED BY <3>2, <3>3, <3>6 DEF NothingStale, GrantsAreTrue
    <2>6. ASSUME NEW u \in Users, ShowToken(u)
          PROVE  Inv'
      <3>1. UNCHANGED <<file, pc, loaded, registered>>
            /\ reply' = [act |-> "token", user |-> u, pw |-> None, ok |-> Loaded[u] # None]
        BY <2>6 DEF ShowToken, Answered
      <3> QED BY <3>1 DEF NothingStale, GrantsAreTrue, Within, Loaded
    <2>7. ASSUME NEW u \in Users, NEW pw \in Passwords, Login(u, pw)
          PROVE  Inv'
      <3>1. UNCHANGED <<file, pc, loaded, registered>>
            /\ reply' = [act |-> "login", user |-> u, pw |-> pw, ok |-> Loaded[u] = Stripped[pw]]
        BY <2>7 DEF Login, Answered
      <3>2. Stripped[pw] # None
        BY UserStoreAssumption
      <3> QED BY <3>1, <3>2 DEF NothingStale, GrantsAreTrue, Within, Loaded
    <2>8. CASE UNCHANGED vars
      BY <2>8 DEF vars, NothingStale, GrantsAreTrue, Within, Loaded
    <2> QED BY <2>1, <2>2, <2>3, <2>4, <2>5, <2>6, <2>7, <2>8 DEF Next
  <1> QED BY <1>1, <1>2, UserStoreTypes, OneWriterHolds, PTL DEF Spec

(***************************************************************************)
(* What the commands do and say.                                            *)
(***************************************************************************)

\* The file, and what a command has read from it, are what the commands that
\* were carried out amount to.
NothingLost ==
    /\ TakesEffect
    /\ ~cut => \A p \in Procs : pc[p] \in {"change", "write"} => loaded[p] = registered
    /\ ~cut => \A p \in Procs : pc[p] = "write" => cmd[p].kind = "add" \/ Existed(p)

\* With one operator, nothing is lost until a command is stopped while it writes.
LEMMA NothingLostHolds ==
    ASSUME MaxWriters = 1
    PROVE  Spec => []NothingLost
  <1> DEFINE Known == TypeOK /\ OneWriter /\ WriteIsAlone
  <1>1. Init => NothingLost
    BY DEF Init, NothingLost, TakesEffect
  <1>2. Known /\ Known' /\ NothingLost /\ [Next]_vars => NothingLost'
    <2> SUFFICES ASSUME Known, Known', NothingLost, [Next]_vars
                 PROVE  NothingLost'
      OBVIOUS
    <2>1. ASSUME NEW p \in Procs, Start(p)
          PROVE  NothingLost'
      <3>1. \A q \in Procs : pc[q] = "idle"
        BY <2>1, StartsAlone
      <3>2. /\ file' = file /\ registered' = registered /\ cut' = cut
            /\ \A q \in Procs : pc'[q] \in {"idle", "load"}
        BY <2>1, <3>1 DEF Start, End, TypeOK
      <3> QED BY <3>1, <3>2 DEF NothingLost, TakesEffect, Existed
    <2>2. ASSUME NEW p \in Procs, Load(p)
          PROVE  NothingLost'
      <3>1. /\ file' = file /\ registered' = registered /\ cut' = cut
            /\ loaded'[p] = Loaded /\ pc'[p] = "change" /\ pc[p] = "load"
            /\ \A q \in Procs : q # p => pc'[q] = pc[q] /\ loaded'[q] = loaded[q] /\ cmd'[q] = cmd[q]
        BY <2>2 DEF Load, TypeOK
      <3>2. \A q \in Procs : pc[q] # "write"
        BY <3>1 DEF OneWriter
      <3>3. ~cut => Loaded = registered
        BY <3>2 DEF NothingLost, TakesEffect, Loaded, TypeOK
      <3> QED BY <3>1, <3>2, <3>3 DEF NothingLost, TakesEffect, Existed
    <2>3. ASSUME NEW p \in Procs, Refuse(p)
          PROVE  NothingLost'
      <3>1. /\ file' = file /\ registered' = registered /\ cut' = cut
            /\ pc[p] = "change" /\ pc'[p] = "idle"
            /\ \A q \in Procs : q # p => pc'[q] = pc[q] /\ loaded'[q] = loaded[q] /\ cmd'[q] = cmd[q]
        BY <2>3 DEF Refuse, End, TypeOK
      <3> QED BY <3>1 DEF NothingLost, TakesEffect, Existed
    <2>4. ASSUME NEW p \in Procs, Open(p)
          PROVE  NothingLost'
      <3>1. /\ registered' = registered /\ loaded' = loaded /\ cmd' = cmd /\ cut' = cut
            /\ cmd[p].kind = "add" \/ Existed(p)
            /\ pc[p] = "change" /\ pc'[p] = "write"
            /\ \A q \in Procs : q # p => pc'[q] = pc[q]
        BY <2>4 DEF Open, TypeOK, Existed
      <3> QED BY <3>1 DEF NothingLost, TakesEffect, Existed
    <2>5. ASSUME NEW p \in Procs, Write(p)
          PROVE  NothingLost'
      <3>1. /\ file' = Changed(loaded[p], cmd[p])
            /\ registered' = Changed(registered, cmd[p])
            /\ cut' = cut /\ (~cut => loaded[p] = registered)
        BY <2>5 DEF Write, WriteIsAlone, NothingLost
      <3>2. \A q \in Procs : pc'[q] = "idle"
        BY <2>5 DEF Write, OneWriter, End, TypeOK
      <3> QED BY <3>1, <3>2 DEF NothingLost, TakesEffect, Existed
    <2>6. ASSUME NEW p \in Procs, Stop(p)
          PROVE  NothingLost'
      <3>1. CASE pc[p] = "write"
        BY <2>6, <3>1 DEF Stop, NothingLost, TakesEffect
      <3>2. CASE pc[p] # "write"
        <4>1. /\ file' = file /\ registered' = registered /\ cut' = cut /\ pc'[p] = "idle"
              /\ \A q \in Procs : q # p => pc'[q] = pc[q] /\ loaded'[q] = loaded[q] /\ cmd'[q] = cmd[q]
          BY <2>6, <3>2 DEF Stop, End, TypeOK
        <4> QED BY <3>2, <4>1 DEF NothingLost, TakesEffect, Existed
      <3> QED BY <3>1, <3>2
    <2>7. ASSUME NEW u \in Users, ShowToken(u) \/ \E pw \in Passwords : Login(u, pw)
          PROVE  NothingLost'
      BY <2>7 DEF ShowToken, Login, NothingLost, TakesEffect, Existed
    <2>8. CASE UNCHANGED vars
      BY <2>8 DEF vars, NothingLost, TakesEffect, Existed
    <2> QED BY <2>1, <2>2, <2>3, <2>4, <2>5, <2>6, <2>7, <2>8 DEF Next
  <1> QED BY <1>1, <1>2, UserStoreTypes, OneWriterHolds, PTL DEF Spec

\* With one operator, the file holds what the commands have asked for whenever none
\* is writing it, until one is stopped while it writes.
THEOREM ChangesTakeEffect ==
    ASSUME MaxWriters = 1
    PROVE  Spec => []TakesEffect
  <1>1. NothingLost => TakesEffect
    BY DEF NothingLost
  <1> QED BY <1>1, NothingLostHolds, PTL

\* With one operator, what a command prints is true of the users there were when it
\* made its change, until one is stopped while it writes.
THEOREM CommandsReportTruly ==
    ASSUME MaxWriters = 1
    PROVE  Spec => ReportsAreTrue
  <1> DEFINE Reports ==
        \A p \in Procs :
            (~cut /\ pc[p] # "idle" /\ pc'[p] = "idle" /\ answer'[p] # None) =>
                IF answer'[p] \in {"registered", "not found", "no such user"}
                THEN registered[cmd[p].user] = None
                ELSE registered[cmd[p].user] # None
  <1>1. TypeOK /\ NothingLost /\ OneWriter /\ [Next]_vars => [Reports]_vars
    <2> SUFFICES ASSUME TypeOK, NothingLost, OneWriter, Next, ~cut, NEW p \in Procs,
                        pc[p] # "idle", pc'[p] = "idle", answer'[p] # None
                 PROVE  IF answer'[p] \in {"registered", "not found", "no such user"}
                        THEN registered[cmd[p].user] = None
                        ELSE registered[cmd[p].user] # None
      OBVIOUS
    <2>1. Refuse(p) \/ Write(p)
      <3>1. ASSUME NEW q \in Procs, Start(q) \/ Load(q) \/ Open(q)
            PROVE  FALSE
        <4>1. CASE Start(q)
          BY <4>1, StartsAlone
        <4>2. CASE Load(q) \/ Open(q)
          BY <4>2 DEF Load, Open, TypeOK, OneWriter
        <4> QED BY <3>1, <4>1, <4>2
      <3>2. ASSUME NEW q \in Procs, Refuse(q) \/ Write(q) \/ Stop(q)
            PROVE  q = p
        BY <3>2 DEF Refuse, Write, Stop, OneWriter
      <3>3. ~Stop(p)
        BY DEF Stop, End, TypeOK
      <3>4. ASSUME NEW u \in Users, ShowToken(u) \/ \E pw \in Passwords : Login(u, pw)
            PROVE  FALSE
        BY <3>4 DEF ShowToken, Login
      <3> QED BY <3>1, <3>2, <3>3, <3>4 DEF Next
    <2>2. cmd[p] \in Commands /\ loaded[p] = registered
      BY <2>1 DEF Refuse, Write, NothingLost, TypeOK
    <2>3. CASE Refuse(p)
      BY <2>2, <2>3 DEF Refuse, End, Existed, TypeOK
    <2>4. CASE Write(p)
      <3>1. CASE cmd[p].kind = "add"
        BY <2>2, <2>4, <3>1 DEF Write, End, Existed, TypeOK
      <3>2. CASE cmd[p].kind \in {"passwd", "delete"}
        BY <2>2, <2>4, <3>2 DEF NothingLost, Write, End, Existed, TypeOK
      <3> QED BY <2>2, <3>1, <3>2 DEF Commands
    <2> QED BY <2>1, <2>3, <2>4
  <1> QED BY <1>1, UserStoreTypes, NothingLostHolds, OneWriterHolds, PTL DEF Spec, ReportsAreTrue

\* With one operator, a user whose password is registered as it is typed is not
\* turned away, but while a command writes the file or after one was stopped there.
\* Of one registered with a padded password it says nothing.
THEOREM NobodyShutOut ==
    ASSUME MaxWriters = 1
    PROVE  Spec => []RegisteredGetIn
  <1>1. Init => RegisteredGetIn
    BY DEF Init, RegisteredGetIn
  <1>2. TypeOK /\ TakesEffect /\ RegisteredGetIn /\ [Next]_vars => RegisteredGetIn'
    <2> SUFFICES ASSUME TypeOK, TakesEffect, RegisteredGetIn, [Next]_vars
                 PROVE  RegisteredGetIn'
      OBVIOUS
    <2>1. ASSUME NEW p \in Procs,
                 Start(p) \/ Load(p) \/ Refuse(p) \/ Open(p) \/ Write(p) \/ Stop(p)
          PROVE  RegisteredGetIn'
      <3>1. reply' = None
        BY <2>1 DEF Start, Load, Refuse, Open, Write, Stop, End
      <3> QED BY <3>1 DEF RegisteredGetIn
    <2>2. ~cut /\ (\A p \in Procs : pc[p] # "write") => Loaded = registered
      BY DEF TakesEffect, Loaded, TypeOK
    <2>3. ASSUME NEW u \in Users, ShowToken(u)
          PROVE  RegisteredGetIn'
      BY <2>2, <2>3 DEF ShowToken, Answered, RegisteredGetIn
    <2>4. ASSUME NEW u \in Users, NEW pw \in Passwords, Login(u, pw)
          PROVE  RegisteredGetIn'
      BY <2>2, <2>4 DEF Login, Answered, RegisteredGetIn
    <2>5. CASE UNCHANGED vars
      BY <2>5 DEF vars, RegisteredGetIn
    <2> QED BY <2>1, <2>3, <2>4, <2>5 DEF Next
  <1> QED BY <1>1, <1>2, UserStoreTypes, ChangesTakeEffect, PTL DEF Spec

============================================================================
