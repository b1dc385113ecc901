---------------------------- MODULE OAuthProofs ----------------------------
(* Theorems about OAuthProvider for any number of clients, users, logins,   *)
(* tokens and concurrent requests.                                          *)
EXTENDS OAuthProvider, TLAPS

(***************************************************************************)
(* Types.                                                                   *)
(***************************************************************************)
LEMMA GrantFromType ==
    ASSUME NEW entry \in Grants \cup {None}, NEW cl \in Clients
    PROVE  GrantFrom(entry, cl) \in Grants
  BY OAuthAssumption DEF GrantFrom, Grants

LEMMA TypesKept == TypeOK /\ [Next]_vars => TypeOK'
<1> SUFFICES ASSUME TypeOK, [Next]_vars PROVE TypeOK'
  OBVIOUS
<1> USE DEF TypeOK, mem, disk, history, Running, Leave, Waiting
<1>1. ASSUME NEW c \in Clients, RegisterClient(c) PROVE TypeOK'
  BY <1>1 DEF RegisterClient, Saving, Saves, ClientEntries
<1>2. ASSUME NEW c \in Clients, NEW s \in Sessions, Authorize(c, s) PROVE TypeOK'
  BY <1>2 DEF Authorize
<1>3. ASSUME NEW s \in Sessions, LoginExpired(s) PROVE TypeOK'
  BY <1>3 DEF LoginExpired
<1>4. ASSUME NEW p \in Slots, NEW s \in Sessions, LoginPost(p, s) PROVE TypeOK'
  <2>1. [op |-> "login", id |-> s, client |-> None] \in Suspended
    BY DEF Suspended
  <2> QED
    BY <1>4, <2>1 DEF LoginPost
<1>5. ASSUME NEW p \in Slots, Abandon(p) \/ LoginTooLate(p) PROVE TypeOK'
  BY <1>5 DEF Abandon, LoginTooLate
<1>6. ASSUME NEW p \in Slots, NEW u \in Users, NEW c \in Codes, LoginSucceeds(p, u, c)
      PROVE  TypeOK'
  <2>1. slot[p].id \in Sessions
    BY <1>6 DEF LoginSucceeds, Suspended
  <2>2. [client |-> pending[slot[p].id], user |-> u, session |-> slot[p].id] \in Grants
    BY <1>6, <2>1 DEF LoginSucceeds, Grants
  <2> QED
    BY <1>6, <2>1, <2>2 DEF LoginSucceeds
<1>7. ASSUME NEW p \in Slots, NEW c \in Codes, NEW cl \in Clients, LoadCode(p, c, cl)
      PROVE  TypeOK'
  <2>1. [op |-> "code", id |-> c, client |-> cl] \in Suspended
    BY DEF Suspended
  <2> QED
    BY <1>7, <2>1 DEF LoadCode
<1>8. ASSUME NEW p \in Slots, NEW t \in Tokens, ExchangeCode(p, t) PROVE TypeOK'
  <2>1. slot[p].id \in Codes /\ slot[p].client \in Clients
    BY <1>8 DEF ExchangeCode, Suspended
  <2>2. GrantFrom(codes[slot[p].id], slot[p].client) \in Grants
    BY <2>1, GrantFromType
  <2> QED
    BY <1>8, <2>1, <2>2 DEF ExchangeCode, Mint, Saving, Saves, TokenEntries
<1>9. ASSUME NEW p \in Slots, NEW t \in Tokens, NEW cl \in Clients, LoadRefresh(p, t, cl)
      PROVE  TypeOK'
  <2>1. [op |-> "refresh", id |-> t, client |-> cl] \in Suspended
    BY DEF Suspended
  <2> QED
    BY <1>9, <2>1 DEF LoadRefresh
<1>10. ASSUME NEW p \in Slots, NEW t \in Tokens, ExchangeRefresh(p, t) PROVE TypeOK'
  <2>1. slot[p].id \in Tokens /\ slot[p].client \in Clients
    BY <1>10 DEF ExchangeRefresh, Suspended
  <2>2. GrantFrom(refresh[slot[p].id], slot[p].client) \in Grants
    BY <2>1, GrantFromType
  <2> QED
    BY <1>10, <2>1, <2>2 DEF ExchangeRefresh, Mint, Saving, Saves, TokenEntries
<1>11. ASSUME NEW t \in Tokens, RejectAccess(t) \/ RevokeAccess(t) PROVE TypeOK'
  <2>1. PICK told \in SUBSET TokenEntries : Running /\ DropAccess(t, told) /\ UNCHANGED slot
    BY <1>11 DEF RejectAccess, RevokeAccess, TokenEntries
  <2>2. io' \in Saves
    BY <2>1 DEF DropAccess, Saving, Saves
  <2> QED
    BY <2>1, <2>2 DEF DropAccess
<1>12. ASSUME NEW t \in Tokens, RejectRefresh(t) \/ RevokeRefresh(t) PROVE TypeOK'
  <2>1. PICK told \in SUBSET TokenEntries : Running /\ DropRefresh(t, told) /\ UNCHANGED slot
    BY <1>12 DEF RejectRefresh, RevokeRefresh, TokenEntries
  <2>2. io' \in Saves
    BY <2>1 DEF DropRefresh, Saving, Saves
  <2> QED
    BY <2>1, <2>2 DEF DropRefresh
<1>13. ASSUME NEW result, Save(result) PROVE TypeOK'
  <2>1. /\ diskClients' \in SUBSET Clients
        /\ diskAccess' \in [Tokens -> Grants \cup {None}]
        /\ diskRefresh' \in [Tokens -> Grants \cup {None}]
        /\ cut' \in BOOLEAN
    BY <1>13 DEF Save, SaveResult, TearFile, WriteTokens, WriteClients, NoTokens
  <2>2. io' \in Saves \cup {None}
    BY <1>13 DEF Save, Saves
  <2> QED
    BY <1>13, <2>1, <2>2 DEF Save
<1>14. CASE Reply
  BY <1>14 DEF Reply, Saves
<1>15. CASE StopsCleanly \/ StopsInSave
  <2>1. /\ diskClients' \in SUBSET Clients
        /\ diskAccess' \in [Tokens -> Grants \cup {None}]
        /\ diskRefresh' \in [Tokens -> Grants \cup {None}]
    BY <1>15
    DEF StopsCleanly, StopsInSave, TearFile, WriteTokens, WriteClients, NoTokens
  <2> QED
    BY <1>15, <2>1 DEF StopsCleanly, StopsInSave, Crash, NoTokens
<1>16. CASE Restart
  BY <1>16 DEF Restart
<1>17. CASE Expire
  BY <1>17 DEF Expire, Expirable
<1>18. CASE UNCHANGED vars
  BY <1>18 DEF vars
<1> QED
  BY <1>1, <1>2, <1>3, <1>4, <1>5, <1>6, <1>7, <1>8, <1>9, <1>10, <1>11, <1>12,
     <1>13, <1>14, <1>15, <1>16, <1>17, <1>18 DEF Next

\* Every reachable state is well typed, and a stopped process has lost what was
\* in memory.
THEOREM OAuthTypes == Spec => []TypeOK
<1>1. Init => TypeOK
  BY DEF Init, TypeOK, NoTokens
<1> QED
  BY <1>1, TypesKept, PTL DEF Spec

(***************************************************************************)
(* Where a code or token comes from.                                        *)
(***************************************************************************)
Stored(t) ==
    access[t] # None \/ refresh[t] # None \/ diskAccess[t] # None \/ diskRefresh[t] # None

\* Ids in any table have been given out, so a new one is in none of them; a
\* session is pending only until a user has logged in to it.
IdsUsed ==
    /\ \A c \in Codes : codes[c] # None => c \in used
    /\ \A t \in Tokens : Stored(t) => t \in used
    /\ \A s \in Sessions : pending[s] # None => s \in used /\ login[s] = None
    /\ \A s \in Sessions : login[s] # None => s \in used

\* A suspended request was let through for the client of the entry it is about
\* to exchange, and that entry can only have gone since.
SlotsMatch ==
    \A p \in Slots :
        /\ Waiting(p, "code") =>
             LET c == slot[p].id IN
             c \in used /\ (codes[c] # None => codes[c].client = slot[p].client)
        /\ Waiting(p, "refresh") =>
             LET t == slot[p].id IN
             t \in used /\ (refresh[t] # None => refresh[t].client = slot[p].client)

Lineage == IdsUsed /\ SlotsMatch /\ Binding

LEMMA GrantFromBound ==
    ASSUME NEW entry \in Grants \cup {None}, NEW cl \in Clients, Bound(entry),
           entry # None => entry.client = cl
    PROVE  Bound(GrantFrom(entry, cl))
<1>1. CASE entry = None
  BY <1>1 DEF Bound, GrantFrom
<1>2. CASE entry # None
  <2>1. GrantFrom(entry, cl) = entry
    BY <1>2 DEF GrantFrom, Grants
  <2> QED
    BY <2>1
<1> QED
  BY <1>1, <1>2

LEMMA LineageHolds == Spec => []Lineage
<1>1. Init => Lineage
  BY DEF Init, Lineage, IdsUsed, SlotsMatch, Binding, Bound, Stored, Waiting, NoTokens
<1>2. TypeOK /\ Lineage /\ [Next]_vars => Lineage'
  <2> SUFFICES ASSUME TypeOK, Lineage, [Next]_vars PROVE Lineage'
    OBVIOUS
  <2> USE DEF mem, disk, history, Running, Leave, Waiting, Stored
  <2> USE DEF Lineage, IdsUsed, SlotsMatch, Binding
  <2>0. /\ pending \in [Sessions -> Clients \cup {None}]
        /\ codes \in [Codes -> Grants \cup {None}]
        /\ access \in [Tokens -> Grants \cup {None}]
        /\ refresh \in [Tokens -> Grants \cup {None}]
        /\ diskAccess \in [Tokens -> Grants \cup {None}]
        /\ diskRefresh \in [Tokens -> Grants \cup {None}]
        /\ slot \in [Slots -> Suspended \cup {None}]
        /\ login \in [Sessions -> Grants \cup {None}]
    BY DEF TypeOK
  <2>1. ASSUME NEW c \in Clients, RegisterClient(c) PROVE Lineage'
    BY <2>1 DEF RegisterClient, Bound
  <2>2. ASSUME NEW c \in Clients, NEW s \in Sessions, Authorize(c, s) PROVE Lineage'
    BY <2>0, <2>2 DEF Authorize, Unused, Bound
  <2>3. ASSUME NEW s \in Sessions, LoginExpired(s) PROVE Lineage'
    BY <2>0, <2>3 DEF LoginExpired, Bound
  <2>4. ASSUME NEW p \in Slots, NEW s \in Sessions, LoginPost(p, s) PROVE Lineage'
    BY <2>0, <2>4 DEF LoginPost, Bound
  <2>5. ASSUME NEW p \in Slots, Abandon(p) \/ LoginTooLate(p) PROVE Lineage'
    BY <2>0, <2>5 DEF Abandon, LoginTooLate, Bound
  <2>6. ASSUME NEW p \in Slots, NEW u \in Users, NEW c \in Codes, LoginSucceeds(p, u, c)
        PROVE  Lineage'
    <3> DEFINE s == slot[p].id
               grant == [client |-> pending[s], user |-> u, session |-> s]
    <3>1. s \in Sessions /\ s # None /\ login[s] = None /\ s \in used
      BY <2>0, <2>6, OAuthAssumption DEF LoginSucceeds, Suspended
    <3>2. ASSUME NEW e \in Grants \cup {None}, Bound(e) PROVE Bound(e)'
      BY <2>0, <2>6, <3>1, <3>2 DEF LoginSucceeds, Bound, Grants
    <3>3. Binding'
      <4>1. ASSUME NEW d \in Codes PROVE Bound(codes[d])'
        <5>1. CASE d = c
          BY <2>0, <2>6, <3>1, <5>1 DEF LoginSucceeds, Bound
        <5>2. CASE d # c
          BY <2>0, <2>6, <3>2, <5>2 DEF LoginSucceeds
        <5> QED
          BY <5>1, <5>2
      <4>2. ASSUME NEW t \in Tokens
            PROVE  /\ Bound(access[t])' /\ Bound(refresh[t])'
                   /\ Bound(diskAccess[t])' /\ Bound(diskRefresh[t])'
        BY <2>0, <2>6, <3>2 DEF LoginSucceeds
      <4> QED
        BY <4>1, <4>2
    <3>4. IdsUsed'
      BY <2>0, <2>6, <3>1 DEF LoginSucceeds, Unused
    <3>5. SlotsMatch'
      BY <2>0, <2>6 DEF LoginSucceeds, Unused
    <3> QED
      BY <3>3, <3>4, <3>5
  <2>7. ASSUME NEW p \in Slots, NEW c \in Codes, NEW cl \in Clients, LoadCode(p, c, cl)
        PROVE  Lineage'
    <3>1. CASE Expired(Code(c))
      <4>1. codes' = [codes EXCEPT ![c] = None] /\ UNCHANGED slot
        BY <2>7, <3>1 DEF LoadCode
      <4>2. \A d \in Codes : codes'[d] \in {None, codes[d]}
        BY <2>0, <4>1
      <4>3. \A q \in Slots : Waiting(q, "code") => slot[q].id \in Codes
        BY <2>0 DEF Suspended
      <4> QED
        BY <2>7, <4>1, <4>2, <4>3 DEF LoadCode, Bound
    <3>2. CASE ~Expired(Code(c))
      BY <2>0, <2>7, <3>2 DEF LoadCode, Bound
    <3> QED
      BY <3>1, <3>2
  <2>8. ASSUME NEW p \in Slots, NEW t \in Tokens, ExchangeCode(p, t) PROVE Lineage'
    <3>1. slot[p].id \in Codes /\ slot[p].client \in Clients
      BY <2>0, <2>8 DEF ExchangeCode, Suspended
    <3>2. Bound(GrantFrom(codes[slot[p].id], slot[p].client))
      BY <2>0, <2>8, <3>1, GrantFromBound DEF ExchangeCode
    <3>3. t \notin used
      BY <2>8 DEF ExchangeCode, Mint, Unused
    <3> QED
      BY <2>0, <2>8, <3>1, <3>2, <3>3 DEF ExchangeCode, Mint, Bound
  <2>9. ASSUME NEW p \in Slots, NEW t \in Tokens, NEW cl \in Clients, LoadRefresh(p, t, cl)
        PROVE  Lineage'
    BY <2>0, <2>9 DEF LoadRefresh, Bound
  <2>10. ASSUME NEW p \in Slots, NEW t \in Tokens, ExchangeRefresh(p, t) PROVE Lineage'
    <3>1. slot[p].id \in Tokens /\ slot[p].client \in Clients
      BY <2>0, <2>10 DEF ExchangeRefresh, Suspended
    <3>2. Bound(GrantFrom(refresh[slot[p].id], slot[p].client))
      BY <2>0, <2>10, <3>1, GrantFromBound DEF ExchangeRefresh
    <3>3. t \notin used
      BY <2>10 DEF ExchangeRefresh, Mint, Unused
    <3> QED
      <4>1. IdsUsed'
        BY <2>0, <2>10, <3>1, <3>3 DEF ExchangeRefresh, Mint
      <4>2. SlotsMatch'
        <5>1. \A q \in Slots : Waiting(q, "refresh") => slot[q].id \in Tokens
          BY <2>0 DEF Suspended
        <5>2. \A v \in Tokens \ {t} : refresh'[v] \in {None, refresh[v]}
          BY <2>0, <2>10, <3>1 DEF ExchangeRefresh
        <5>3. \A q \in Slots : slot'[q] \in {None, slot[q]}
          BY <2>0, <2>10 DEF ExchangeRefresh
        <5>4. UNCHANGED codes /\ used' = used \cup {t}
          BY <2>10 DEF ExchangeRefresh, Mint
        <5> QED
          BY <3>3, <5>1, <5>2, <5>3, <5>4
      <4>3. Binding'
        BY <2>0, <2>10, <3>1, <3>2 DEF ExchangeRefresh, Mint, Bound
      <4> QED
        BY <4>1, <4>2, <4>3
  <2>11. ASSUME NEW t \in Tokens, RejectAccess(t) \/ RevokeAccess(t) PROVE Lineage'
    BY <2>0, <2>11 DEF RejectAccess, RevokeAccess, DropAccess, Bound
  <2>12. ASSUME NEW t \in Tokens, RejectRefresh(t) \/ RevokeRefresh(t) PROVE Lineage'
    <3>1. PICK told : DropRefresh(t, told) /\ UNCHANGED slot
      BY <2>12 DEF RejectRefresh, RevokeRefresh
    <3> QED
      BY <2>0, <3>1 DEF DropRefresh, Bound
  <2>13. ASSUME UNCHANGED <<pending, codes, access, refresh, slot, used, login>>,
                \A t \in Tokens : \/ diskAccess'[t] = None /\ diskRefresh'[t] = None
                                  \/ diskAccess'[t] = access[t] /\ diskRefresh'[t] = refresh[t]
                                  \/ diskAccess'[t] = diskAccess[t] /\ diskRefresh'[t] = diskRefresh[t]
         PROVE  Lineage'
    BY <2>0, <2>13 DEF Bound
  <2>14. ASSUME NEW result, Save(result) PROVE Lineage'
    BY <2>13, <2>14 DEF Save, SaveResult, TearFile, WriteTokens, WriteClients, NoTokens
  <2>15. CASE Reply
    BY <2>15 DEF Reply, Bound
  <2>16. CASE StopsCleanly \/ StopsInSave
    BY <2>0, <2>16
    DEF StopsCleanly, StopsInSave, Crash, TearFile, WriteTokens, WriteClients, NoTokens, Bound
  <2>17. CASE Restart
    <3>1. \A p \in Slots : slot'[p] = None
      BY <2>17 DEF Restart, TypeOK
    <3> QED
      BY <2>0, <2>17, <3>1 DEF Restart, Bound
  <2>18. CASE Expire
    BY <2>18 DEF Expire, Bound
  <2>19. CASE UNCHANGED vars
    BY <2>19 DEF vars, Bound
  <2> QED
    BY <2>1, <2>2, <2>3, <2>4, <2>5, <2>6, <2>7, <2>8, <2>9, <2>10, <2>11, <2>12,
       <2>14, <2>15, <2>16, <2>17, <2>18, <2>19 DEF Next
<1> QED
  BY <1>1, <1>2, OAuthTypes, PTL DEF Spec

\* Whatever is minted belongs to the client that opened the session and the user
\* who logged in to it, for any interleaving of loads and exchanges, any failing
\* save and any restart.
THEOREM TokensBoundToLogin == Spec => []Binding
<1>1. Lineage => Binding
  BY DEF Lineage
<1> QED
  BY <1>1, LineageHolds, PTL

(***************************************************************************)
(* A login is at one place.                                                 *)
(***************************************************************************)
Heads == <<pending, codes, refresh, diskRefresh>>

\* A login, code or refresh token is used once, at every point of every
\* interleaving and over restarts, whatever the saves do.
THEOREM OneHead == Spec => []OneHeadPerLogin
<1>1. Init => OneHeadPerLogin
  BY DEF Init, OneHeadPerLogin, Of, NoTokens
<1>2. TypeOK /\ Lineage /\ OneHeadPerLogin /\ [Next]_vars => OneHeadPerLogin'
  <2> SUFFICES ASSUME TypeOK, Lineage, OneHeadPerLogin, [Next]_vars
               PROVE  OneHeadPerLogin'
    OBVIOUS
  <2> USE DEF mem, disk, history, Running, Leave, Waiting
  <2>0. /\ pending \in [Sessions -> Clients \cup {None}]
        /\ codes \in [Codes -> Grants \cup {None}]
        /\ refresh \in [Tokens -> Grants \cup {None}]
        /\ diskRefresh \in [Tokens -> Grants \cup {None}]
        /\ slot \in [Slots -> Suspended \cup {None}]
    BY DEF TypeOK
  <2>1. ASSUME \A s \in Sessions : pending'[s] \in {None, pending[s]},
               \A c \in Codes : codes'[c] \in {None, codes[c]},
               \A t \in Tokens : refresh'[t] \in {None, refresh[t]},
               \A t \in Tokens : diskRefresh'[t] \in {None, diskRefresh[t]}
        PROVE  OneHeadPerLogin'
    BY <2>1 DEF OneHeadPerLogin, Of
  <2>2. CASE UNCHANGED Heads
    BY <2>2 DEF OneHeadPerLogin, Of, Heads
  <2>3. ASSUME NEW c \in Clients, NEW s \in Sessions, Authorize(c, s)
        PROVE  OneHeadPerLogin'
    <3>1. /\ \A d \in Codes : ~Of(codes[d], s)
          /\ \A t \in Tokens : ~Of(refresh[t], s) /\ ~Of(diskRefresh[t], s)
      BY <2>3, OAuthAssumption
      DEF Authorize, Unused, Of, Lineage, IdsUsed, Binding, Bound
    <3> QED
      BY <2>0, <2>3, <3>1 DEF Authorize, OneHeadPerLogin, Of
  <2>4. ASSUME NEW p \in Slots, NEW u \in Users, NEW c \in Codes, LoginSucceeds(p, u, c)
        PROVE  OneHeadPerLogin'
    <3> DEFINE s == slot[p].id
    <3>1. /\ s \in Sessions
          /\ \A d \in Codes : ~Of(codes[d], s)
          /\ \A t \in Tokens : ~Of(refresh[t], s) /\ ~Of(diskRefresh[t], s)
      BY <2>0, <2>4 DEF LoginSucceeds, Suspended, OneHeadPerLogin
    <3>2. /\ \A d \in Codes \ {c} : codes'[d] = codes[d]
          /\ codes'[c].session = s
          /\ pending'[s] = None
          /\ \A r \in Sessions \ {s} : pending'[r] = pending[r]
          /\ UNCHANGED <<refresh, diskRefresh>>
      BY <2>0, <2>4, <3>1 DEF LoginSucceeds
    <3>3. codes[c] = None
      BY <2>4 DEF LoginSucceeds, Unused, Lineage, IdsUsed
    <3> HIDE DEF s
    <3> QED
      BY <3>1, <3>2, <3>3 DEF OneHeadPerLogin, Of
  <2>5. ASSUME NEW p \in Slots, NEW t \in Tokens, ExchangeCode(p, t)
        PROVE  OneHeadPerLogin'
    <3> DEFINE c == slot[p].id
    <3>1. c \in Codes
      BY <2>0, <2>5 DEF ExchangeCode, Suspended
    <3>2. /\ \A d \in Codes \ {c} : codes'[d] = codes[d]
          /\ codes'[c] = None
          /\ \A v \in Tokens \ {t} : refresh'[v] = refresh[v]
          /\ refresh'[t].session = IF codes[c] = None THEN None ELSE codes[c].session
          /\ UNCHANGED <<pending, diskRefresh>>
      BY <2>0, <2>5, <3>1 DEF ExchangeCode, GrantFrom
    <3> HIDE DEF c
    <3> QED
      BY <3>1, <3>2, OAuthAssumption DEF OneHeadPerLogin, Of
  <2>6. ASSUME NEW p \in Slots, NEW t \in Tokens, ExchangeRefresh(p, t)
        PROVE  OneHeadPerLogin'
    <3> DEFINE old == slot[p].id
    <3>1. old \in Tokens
      BY <2>0, <2>6 DEF ExchangeRefresh, Suspended
    <3>2. t # old
      BY <2>6, <3>1 DEF ExchangeRefresh, Mint, Unused, Lineage, SlotsMatch
    <3>3. /\ \A v \in Tokens \ {t, old} : refresh'[v] = refresh[v]
          /\ refresh'[old] = None
          /\ refresh'[t].session = IF refresh[old] = None THEN None ELSE refresh[old].session
          /\ UNCHANGED <<pending, codes, diskRefresh>>
      BY <2>0, <2>6, <3>1, <3>2 DEF ExchangeRefresh, GrantFrom
    <3> HIDE DEF old
    <3> QED
      BY <3>1, <3>2, <3>3, OAuthAssumption DEF OneHeadPerLogin, Of
  <2>7. ASSUME UNCHANGED <<pending, codes, refresh>>,
               \/ \A t \in Tokens : diskRefresh'[t] = None
               \/ diskRefresh' = refresh
               \/ UNCHANGED diskRefresh
        PROVE  OneHeadPerLogin'
    BY <2>7 DEF OneHeadPerLogin, Of
  <2>8. ASSUME NEW result, Save(result) PROVE OneHeadPerLogin'
    BY <2>7, <2>8 DEF Save, SaveResult, TearFile, WriteTokens, WriteClients, NoTokens
  <2>9. CASE StopsCleanly \/ StopsInSave
    BY <2>0, <2>1, <2>9
    DEF StopsCleanly, StopsInSave, Crash, TearFile, WriteTokens, WriteClients, NoTokens
  <2>10. CASE Restart
    BY <2>10 DEF Restart, TypeOK, OneHeadPerLogin, Of
  <2>11. ASSUME NEW s \in Sessions, LoginExpired(s) PROVE OneHeadPerLogin'
    BY <2>0, <2>1, <2>11 DEF LoginExpired
  <2>12. ASSUME NEW p \in Slots, LoginTooLate(p) PROVE OneHeadPerLogin'
    BY <2>0, <2>1, <2>12 DEF LoginTooLate
  <2>13. ASSUME NEW p \in Slots, NEW c \in Codes, NEW cl \in Clients, LoadCode(p, c, cl)
         PROVE  OneHeadPerLogin'
    BY <2>0, <2>1, <2>13 DEF LoadCode
  <2>14. ASSUME NEW t \in Tokens, RejectRefresh(t) \/ RevokeRefresh(t)
         PROVE  OneHeadPerLogin'
    BY <2>0, <2>1, <2>14 DEF RejectRefresh, RevokeRefresh, DropRefresh
  <2> QED
    BY <2>2, <2>3, <2>4, <2>5, <2>6, <2>8, <2>9, <2>10, <2>11, <2>12, <2>13, <2>14
    DEF Next, Heads, RegisterClient, LoginPost, Abandon, LoadRefresh, RejectAccess,
        RevokeAccess, DropAccess, Reply, Expire, vars
<1> QED
  BY <1>1, <1>2, OAuthTypes, LineageHolds, PTL DEF Spec

(***************************************************************************)
(* What ended stays ended.                                                  *)
(***************************************************************************)
\* By the time a client is told that a token is gone, the token is neither in
\* memory nor in the file, and its id is never given out again.
Ending ==
    /\ \A e \in ended : e.id \in used
    /\ io # None =>
         /\ \A e \in io.gone : e.id \in used
         /\ io.gone \cap InMemory = {}
         /\ io.gone # {} => io.file = "tokens"
         /\ io.saved => io.gone \cap OnDisk = {}

\* When a save can fail half-way but the file can always be opened, a token whose
\* owner was told that it is revoked or replaced never works again, in this run
\* of the process or in any later one.
THEOREM NothingComesBack ==
    ASSUME "open_fails" \notin Faults
    PROVE  Spec => []EndedStaysEnded
<1> DEFINE Inv == Ending /\ EndedStaysEnded
<1>1. Init => Inv
  BY DEF Init, Ending, EndedStaysEnded
<1>2. TypeOK /\ Lineage /\ Inv /\ [Next]_vars => Inv'
  <2> SUFFICES ASSUME TypeOK, Lineage, Inv, [Next]_vars PROVE Inv'
    OBVIOUS
  <2> USE DEF mem, disk, history, Running, Leave, Waiting, Ending, EndedStaysEnded
  <2>0. /\ ended \subseteq TokenEntries
        /\ io # None => io.gone \subseteq TokenEntries /\ io.saved \in BOOLEAN
        /\ access \in [Tokens -> Grants \cup {None}]
        /\ refresh \in [Tokens -> Grants \cup {None}]
        /\ slot \in [Slots -> Suspended \cup {None}]
    BY DEF TypeOK, Saves
  <2> DEFINE MemT == InMemory \cap TokenEntries
             DiskT == OnDisk \cap TokenEntries
  <2>1. ASSUME MemT' \subseteq MemT, DiskT' \subseteq DiskT, UNCHANGED ended, used \subseteq used',
               io' = None \/ UNCHANGED io
        PROVE  Inv'
    BY <2>0, <2>1
  <2>2. ASSUME UNCHANGED <<access, refresh, diskAccess, diskRefresh>>
        PROVE  MemT' = MemT /\ DiskT' = DiskT
    BY <2>2 DEF InMemory, OnDisk, Client, Access, Refresh, TokenEntries
  <2>3. ASSUME NEW c \in Clients, RegisterClient(c) PROVE Inv'
    BY <2>0, <2>2, <2>3 DEF RegisterClient, Saving
  <2>4. ASSUME UNCHANGED <<access, refresh, disk, ended>>, used \subseteq used',
               io' = None \/ UNCHANGED io
        PROVE  Inv'
    BY <2>1, <2>2, <2>4
  <2>5. ASSUME NEW t \in Tokens, NEW gone \in SUBSET TokenEntries,
               t \notin used, used' = used \cup {t},
               MemT' \subseteq MemT \cup {Access(t), Refresh(t)}, DiskT' \subseteq DiskT,
               gone \cap MemT' = {}, \A e \in gone : e.id \in used,
               Saving("tokens", {Access(t), Refresh(t)}, gone), UNCHANGED ended
        PROVE  Inv'
    <3>1. Access(t).id = t /\ Refresh(t).id = t
      BY DEF Access, Refresh
    <3>2. io' # None => io'.gone = gone /\ io'.file = "tokens" /\ ~io'.saved
      BY <2>5 DEF Saving
    <3> QED
      BY <2>0, <2>5, <3>1, <3>2
  <2>6. ASSUME NEW p \in Slots, NEW t \in Tokens, ExchangeCode(p, t) PROVE Inv'
    <3>1. MemT' \subseteq MemT \cup {Access(t), Refresh(t)} /\ DiskT' \subseteq DiskT
      BY <2>0, <2>6
      DEF ExchangeCode, Mint, InMemory, OnDisk, Client, Access, Refresh, TokenEntries
    <3> QED
      BY <2>5, <2>6, <3>1 DEF ExchangeCode, Mint, Unused
  <2>7. ASSUME NEW p \in Slots, NEW t \in Tokens, ExchangeRefresh(p, t) PROVE Inv'
    <3> DEFINE old == slot[p].id
    <3>1. old \in Tokens /\ old \in used /\ t \notin used
      BY <2>0, <2>7 DEF ExchangeRefresh, Mint, Unused, Suspended, Lineage, SlotsMatch
    <3>2. /\ access' = [access EXCEPT ![t] = GrantFrom(refresh[old], slot[p].client)]
          /\ refresh' = [refresh EXCEPT ![old] = None,
                                       ![t] = GrantFrom(refresh[old], slot[p].client)]
          /\ UNCHANGED disk
      BY <2>7 DEF ExchangeRefresh, Mint
    <3>3. MemT' \subseteq MemT \cup {Access(t), Refresh(t)} /\ DiskT' \subseteq DiskT
      BY <2>0, <3>1, <3>2
      DEF InMemory, OnDisk, Client, Access, Refresh, TokenEntries
    <3>4. Refresh(old) \notin MemT'
      BY <2>0, <3>1, <3>2 DEF InMemory, Client, Access, Refresh
    <3>5. Refresh(old).id = old /\ Refresh(old) \in TokenEntries
      BY <3>1 DEF Refresh, TokenEntries
    <3>6. /\ Saving("tokens", {Access(t), Refresh(t)}, {Refresh(old)})
          /\ used' = used \cup {t}
          /\ UNCHANGED ended
      BY <2>7 DEF ExchangeRefresh, Mint
    <3> DEFINE gone == {Refresh(old)}
    <3>7. gone \in SUBSET TokenEntries /\ gone \cap MemT' = {} /\ \A e \in gone : e.id \in used
      BY <3>1, <3>4, <3>5
    <3> HIDE DEF old
    <3> QED
      BY <2>5, <3>1, <3>3, <3>6, <3>7
  <2>8. ASSUME NEW e \in TokenEntries, e.id \in used, NEW gone \in SUBSET {e},
               MemT' \subseteq MemT \ {e}, DiskT' \subseteq DiskT,
               Saving("tokens", {}, gone), UNCHANGED <<ended, used>>
        PROVE  Inv'
    <3>1. io' # None => io'.gone = gone /\ io'.file = "tokens" /\ ~io'.saved
      BY <2>8 DEF Saving
    <3> QED
      BY <2>0, <2>8, <3>1
  <2>9. ASSUME NEW t \in Tokens, RejectAccess(t) \/ RevokeAccess(t) PROVE Inv'
    <3>1. PICK gone \in SUBSET {Access(t)} : DropAccess(t, gone)
      BY <2>9 DEF RejectAccess, RevokeAccess
    <3>2. Access(t) \in TokenEntries /\ Access(t).id \in used
      BY <2>9
      DEF RejectAccess, RevokeAccess, Access, TokenEntries, Lineage, IdsUsed, Stored
    <3>3. MemT' \subseteq MemT \ {Access(t)} /\ DiskT' \subseteq DiskT
      BY <2>0, <3>1
      DEF DropAccess, InMemory, OnDisk, Client, Access, Refresh, TokenEntries
    <3> QED
      BY <2>8, <3>1, <3>2, <3>3 DEF DropAccess
  <2>10. ASSUME NEW t \in Tokens, RejectRefresh(t) \/ RevokeRefresh(t) PROVE Inv'
    <3>1. PICK gone \in SUBSET {Refresh(t)} : DropRefresh(t, gone)
      BY <2>10 DEF RejectRefresh, RevokeRefresh
    <3>2. Refresh(t) \in TokenEntries /\ Refresh(t).id \in used
      BY <2>10
      DEF RejectRefresh, RevokeRefresh, Refresh, TokenEntries, Lineage, IdsUsed, Stored
    <3>3. MemT' \subseteq MemT \ {Refresh(t)} /\ DiskT' \subseteq DiskT
      BY <2>0, <3>1
      DEF DropRefresh, InMemory, OnDisk, Client, Access, Refresh, TokenEntries
    <3> QED
      BY <2>8, <3>1, <3>2, <3>3 DEF DropRefresh
  <2>11. ASSUME NEW result \in {"written"} \cup (Faults \ {"torn_crash"}), Save(result)
         PROVE  Inv'
    <3>1. /\ UNCHANGED <<access, refresh, ended, used>>
          /\ io # None /\ io' = [io EXCEPT !.saved = TRUE]
      BY <2>11 DEF Save
    <3>2. MemT' = MemT
      BY <3>1 DEF InMemory, Client, Access, Refresh, TokenEntries
    <3>3. /\ DiskT' \subseteq DiskT \cup MemT
          /\ io.file = "tokens" => DiskT' \subseteq MemT
      BY <2>0, <2>11
      DEF Save, SaveResult, TearFile, WriteTokens, WriteClients, NoTokens, OnDisk, InMemory,
          Client, Access, Refresh, TokenEntries
    <3>4. io' # None => io'.gone = io.gone /\ io'.file = io.file
      BY <3>1, <2>0 DEF TypeOK, Saves
    <3> QED
      BY <2>0, <3>1, <3>2, <3>3, <3>4
  <2>12. CASE Reply
    <3>1. MemT' = MemT /\ DiskT' = DiskT
      BY <2>2, <2>12 DEF Reply
    <3> QED
      BY <2>0, <2>12, <3>1 DEF Reply
  <2>13. CASE StopsCleanly \/ StopsInSave
    <3>1. MemT' \subseteq MemT
      BY <2>13
      DEF StopsCleanly, StopsInSave, Crash, NoTokens, InMemory, Client, Access, Refresh,
          TokenEntries
    <3>2. DiskT' \subseteq DiskT
      BY <2>13
      DEF StopsCleanly, StopsInSave, TearFile, WriteTokens, WriteClients, NoTokens, OnDisk,
          Client, Access, Refresh, TokenEntries
    <3> QED
      BY <2>1, <2>13, <3>1, <3>2 DEF StopsCleanly, StopsInSave, Crash
  <2>14. CASE Restart
    <3>1. MemT' \subseteq DiskT /\ DiskT' \subseteq DiskT
      BY <2>14 DEF Restart, InMemory, OnDisk, Client, Access, Refresh, TokenEntries
    <3>2. io' = None
      BY <2>14 DEF Restart, TypeOK
    <3> QED
      BY <2>0, <2>14, <3>1, <3>2 DEF Restart
  <2> QED
    BY <2>3, <2>4, <2>6, <2>7, <2>9, <2>10, <2>11, <2>12, <2>13, <2>14
    DEF Next, Authorize, LoginExpired, LoginPost, Abandon, LoginTooLate, LoginSucceeds,
        LoadCode, LoadRefresh, Expire, vars
<1> QED
  BY <1>1, <1>2, OAuthTypes, LineageHolds, PTL DEF Spec

(***************************************************************************)
(* What a client holds survives.                                            *)
(***************************************************************************)
\* What a reply is about to grant is in memory, and in the file once it is saved.
Granting ==
    ~cut /\ io # None =>
        /\ io.granted \subseteq InMemory
        /\ io.granted \subseteq IF io.file = "tokens" THEN TokenEntries ELSE ClientEntries
        /\ io.saved => io.granted \subseteq OnDisk

\* As long as every save was carried out to the end, every client and token that
\* its owner holds, and that was not rejected, revoked or replaced, is known in
\* this and every later run of the process, wherever it stops between two saves.
THEOREM HeldIsKept == Spec => []HeldSurvives
<1> DEFINE Inv == Granting /\ HeldSurvives
<1>1. Init => Inv
  BY DEF Init, Granting, HeldSurvives
<1>2. TypeOK /\ Lineage /\ Inv /\ [Next]_vars => Inv'
  <2> SUFFICES ASSUME TypeOK, Lineage, Inv, [Next]_vars PROVE Inv'
    OBVIOUS
  <2> USE DEF mem, disk, history, Running, Leave, Waiting, Granting, HeldSurvives
  <2>0. /\ access \in [Tokens -> Grants \cup {None}]
        /\ refresh \in [Tokens -> Grants \cup {None}]
        /\ slot \in [Slots -> Suspended \cup {None}]
        /\ clients \subseteq Clients /\ diskClients \subseteq Clients
        /\ held \subseteq TokenEntries \cup ClientEntries
    BY DEF TypeOK
  <2>1. ASSUME UNCHANGED <<clients, access, refresh>> PROVE InMemory' = InMemory
    BY <2>1 DEF InMemory
  <2>2. ASSUME UNCHANGED disk PROVE OnDisk' = OnDisk
    BY <2>2 DEF OnDisk
  <2>3. ASSUME UNCHANGED <<clients, access, refresh, disk, up, io, held>> PROVE Inv'
    BY <2>1, <2>2, <2>3
  <2>4. ASSUME NEW c \in Clients, RegisterClient(c) PROVE Inv'
    <3>1. InMemory' = InMemory \cup {Client(c)} /\ OnDisk' = OnDisk
      BY <2>4 DEF RegisterClient, InMemory, OnDisk
    <3>2. Client(c) \in ClientEntries
      BY DEF ClientEntries
    <3> QED
      BY <2>4, <3>1, <3>2 DEF RegisterClient, Saving
  <2>5. ASSUME NEW t \in Tokens, NEW kept \in SUBSET held,
               kept \subseteq InMemory', {Access(t), Refresh(t)} \subseteq InMemory',
               NEW gone, Saving("tokens", {Access(t), Refresh(t)}, gone),
               held' = kept, UNCHANGED disk
        PROVE  Inv'
    <3>1. {Access(t), Refresh(t)} \subseteq TokenEntries
      BY DEF TokenEntries
    <3> QED
      BY <2>2, <2>5, <3>1 DEF Saving
  <2>6. ASSUME NEW p \in Slots, NEW t \in Tokens, ExchangeCode(p, t) PROVE Inv'
    <3>1. slot[p].id \in Codes /\ slot[p].client \in Clients
      BY <2>0, <2>6 DEF ExchangeCode, Suspended
    <3>2. GrantFrom(codes[slot[p].id], slot[p].client) # None
      BY <3>1, GrantFromType, OAuthAssumption DEF TypeOK
    <3>3. InMemory' = InMemory \cup {Access(t), Refresh(t)}
      BY <2>0, <2>6, <3>2 DEF ExchangeCode, Mint, InMemory
    <3> QED
      BY <2>5, <2>6, <3>3 DEF ExchangeCode, Mint
  <2>7. ASSUME NEW p \in Slots, NEW t \in Tokens, ExchangeRefresh(p, t) PROVE Inv'
    <3> DEFINE old == slot[p].id
               new == GrantFrom(refresh[old], slot[p].client)
    <3>1. old \in Tokens /\ slot[p].client \in Clients
      BY <2>0, <2>7 DEF ExchangeRefresh, Suspended
    <3>2. new # None
      BY <3>1, GrantFromType, OAuthAssumption DEF TypeOK
    <3>3. /\ access' = [access EXCEPT ![t] = new]
          /\ refresh' = [refresh EXCEPT ![old] = None, ![t] = new]
          /\ UNCHANGED <<clients, disk>>
          /\ held' = held \ {Refresh(old)}
          /\ Saving("tokens", {Access(t), Refresh(t)}, {Refresh(old)})
          /\ up
      BY <2>7 DEF ExchangeRefresh, Mint
    <3> HIDE DEF old, new
    <3>4. /\ InMemory \ {Refresh(old)} \subseteq InMemory'
          /\ {Access(t), Refresh(t)} \subseteq InMemory'
      BY <2>0, <3>1, <3>2, <3>3 DEF InMemory
    <3> QED
      BY <2>5, <3>3, <3>4
  <2>8. ASSUME NEW e, NEW gone, Saving("tokens", {}, gone), InMemory \ {e} \subseteq InMemory',
               held' = held \ {e}, up, UNCHANGED disk
        PROVE  Inv'
    BY <2>2, <2>8 DEF Saving
  <2>9. ASSUME NEW t \in Tokens, RejectAccess(t) \/ RevokeAccess(t) PROVE Inv'
    <3>1. PICK gone : DropAccess(t, gone)
      BY <2>9 DEF RejectAccess, RevokeAccess
    <3>2. InMemory \ {Access(t)} \subseteq InMemory'
      BY <2>0, <3>1 DEF DropAccess, InMemory
    <3> QED
      BY <2>8, <2>9, <3>1, <3>2 DEF DropAccess, RejectAccess, RevokeAccess
  <2>10. ASSUME NEW t \in Tokens, RejectRefresh(t) \/ RevokeRefresh(t) PROVE Inv'
    <3>1. PICK gone : DropRefresh(t, gone)
      BY <2>10 DEF RejectRefresh, RevokeRefresh
    <3>2. InMemory \ {Refresh(t)} \subseteq InMemory'
      BY <2>0, <3>1 DEF DropRefresh, InMemory
    <3> QED
      BY <2>8, <2>10, <3>1, <3>2 DEF DropRefresh, RejectRefresh, RevokeRefresh
  <2>11. ASSUME NEW result \in {"written"} \cup (Faults \ {"torn_crash"}), Save(result)
         PROVE  Inv'
    <3>1. /\ io # None /\ io.file \in {"tokens", "clients"} /\ up
          /\ UNCHANGED <<clients, access, refresh, up, held>>
          /\ io' = [io EXCEPT !.saved = TRUE]
          /\ cut' \/ (result = "written" /\ cut' = cut)
      BY <2>11 DEF Save, SaveResult, TypeOK, Saves
    <3>2. InMemory' = InMemory
      BY <2>1, <3>1
    <3>3. CASE io.file = "tokens" /\ ~cut'
      <4>1. (InMemory \cap TokenEntries) \cup (OnDisk \cap ClientEntries) \subseteq OnDisk'
        BY <2>11, <3>1, <3>3
        DEF Save, SaveResult, WriteTokens, InMemory, OnDisk, Client, Access, Refresh,
            TokenEntries, ClientEntries
      <4> QED
        BY <2>0, <3>1, <3>2, <3>3, <4>1 DEF TypeOK, Saves
    <3>4. CASE io.file = "clients" /\ ~cut'
      <4>1. (InMemory \cap ClientEntries) \cup (OnDisk \cap TokenEntries) \subseteq OnDisk'
        BY <2>11, <3>1, <3>4
        DEF Save, SaveResult, WriteClients, InMemory, OnDisk, Client, Access, Refresh,
            TokenEntries, ClientEntries
      <4> QED
        BY <2>0, <3>1, <3>2, <3>4, <4>1 DEF TypeOK, Saves
    <3> QED
      BY <3>1, <3>3, <3>4
  <2>12. CASE Reply
    BY <2>1, <2>2, <2>12 DEF Reply
  <2>13. CASE StopsCleanly \/ StopsInSave
    BY <2>2, <2>13 DEF StopsCleanly, StopsInSave, Crash
  <2>14. CASE Restart
    <3>1. InMemory' = OnDisk /\ OnDisk' = OnDisk
      BY <2>14 DEF Restart, InMemory, OnDisk
    <3> QED
      BY <2>14, <3>1 DEF Restart, TypeOK
  <2> QED
    BY <2>3, <2>4, <2>6, <2>7, <2>9, <2>10, <2>11, <2>12, <2>13, <2>14
    DEF Next, Authorize, LoginExpired, LoginPost, Abandon, LoginTooLate, LoginSucceeds,
        LoadCode, LoadRefresh, Expire, vars
<1> QED
  BY <1>1, <1>2, OAuthTypes, LineageHolds, PTL DEF Spec

(***************************************************************************)
(* Codes and refinement.                                                    *)
(***************************************************************************)
\* Only the step that answers a login makes a code, and it looks at the expiry of
\* the session it has just removed, not at what was true before the form was read.
THEOREM CodesFromLiveSessions == Spec => CodeFromLiveSession
<1>1. TypeOK /\ [Next]_vars
        => [\A c \in Codes :
              codes[c] = None /\ codes'[c] # None => ~Expired(Session(codes'[c].session))]_vars
  <2> SUFFICES ASSUME TypeOK, [Next]_vars, NEW c \in Codes, codes[c] = None, codes'[c] # None
               PROVE  ~Expired(Session(codes'[c].session))
    OBVIOUS
  <2>0. codes \in [Codes -> Grants \cup {None}] /\ slot \in [Slots -> Suspended \cup {None}]
    BY DEF TypeOK
  <2>1. ASSUME \A d \in Codes : codes'[d] \in {None, codes[d]} PROVE FALSE
    BY <2>1
  <2>2. ASSUME NEW p \in Slots, NEW u \in Users, NEW d \in Codes, LoginSucceeds(p, u, d)
        PROVE  ~Expired(Session(codes'[c].session))
    BY <2>0, <2>2 DEF LoginSucceeds
  <2>3. ASSUME NEW p \in Slots, NEW d \in Codes, NEW cl \in Clients, LoadCode(p, d, cl)
        PROVE  FALSE
    BY <2>0, <2>1, <2>3 DEF LoadCode
  <2>4. ASSUME NEW p \in Slots, NEW t \in Tokens, ExchangeCode(p, t) PROVE FALSE
    BY <2>0, <2>1, <2>4 DEF ExchangeCode
  <2>5. CASE StopsCleanly \/ StopsInSave
    BY <2>1, <2>5 DEF StopsCleanly, StopsInSave, Crash
  <2> QED
    BY <2>2, <2>3, <2>4, <2>5
    DEF Next, RegisterClient, Authorize, LoginExpired, LoginPost, Abandon, LoginTooLate,
        LoadRefresh, ExchangeRefresh, RejectRefresh, RejectAccess, RevokeAccess,
        RevokeRefresh, DropAccess, DropRefresh, Save, Reply, Restart, Expire, vars, mem
<1> QED
  BY <1>1, OAuthTypes, PTL DEF Spec, CodeFromLiveSession

\* Where a login is: some code, or some refresh token in memory or in the file.
HasCode(s) == \E c \in Codes : Of(codes[c], s)
HasToken(s) == \E t \in Tokens : Of(refresh[t], s) \/ Of(diskRefresh[t], s)

\* GrantOf reads client and user off an entry; they are the ones of the login.
StageOf(s) ==
    IF s \notin used THEN Grant!New
    ELSE IF pending[s] # None THEN Grant!Opened(pending[s])
    ELSE IF HasCode(s) THEN Grant!Approved(login[s].client, login[s].user)
    ELSE IF HasToken(s) THEN Grant!Active(login[s].client, login[s].user)
    ELSE Grant!Closed

LEMMA EntryOfLogin ==
    ASSUME NEW S, NEW table \in [S -> Grants \cup {None}], \A i \in S : Bound(table[i]),
           NEW s \in Sessions, At(table, s) # {}
    PROVE  Entry(table, s) = login[s]
<1>1. Entry(table, s) \in {table[i] : i \in At(table, s)}
  BY DEF Entry
<1> QED
  BY <1>1, OAuthAssumption DEF At, Of, Bound

LEMMA GrantOfIsStageOf ==
    TypeOK /\ Lineage => \A s \in Sessions : GrantOf(s) = StageOf(s)
<1> SUFFICES ASSUME TypeOK, Lineage, NEW s \in Sessions PROVE GrantOf(s) = StageOf(s)
  OBVIOUS
<1>1. /\ codes \in [Codes -> Grants \cup {None}]
      /\ refresh \in [Tokens -> Grants \cup {None}]
      /\ diskRefresh \in [Tokens -> Grants \cup {None}]
  BY DEF TypeOK
<1>2. At(codes, s) # {} <=> HasCode(s)
  BY <1>1 DEF At, HasCode
<1>3. At(refresh, s) # {} \/ At(diskRefresh, s) # {} <=> HasToken(s)
  BY <1>1 DEF At, HasToken
<1>4. At(codes, s) # {} => Entry(codes, s) = login[s]
  BY <1>1, EntryOfLogin DEF Lineage, Binding
<1>5. At(refresh, s) # {} => Entry(refresh, s) = login[s]
  BY <1>1, EntryOfLogin DEF Lineage, Binding
<1>6. At(diskRefresh, s) # {} => Entry(diskRefresh, s) = login[s]
  BY <1>1, EntryOfLogin DEF Lineage, Binding
<1> USE DEF GrantOf, StageOf, Staged
<1>7. CASE s \notin used
  BY <1>7 DEF Grant!New
<1>8. CASE s \in used /\ pending[s] # None
  BY <1>8 DEF Grant!Opened
<1>9. CASE s \in used /\ pending[s] = None /\ HasCode(s)
  BY <1>2, <1>4, <1>9 DEF Grant!Approved
<1>10. CASE s \in used /\ pending[s] = None /\ ~HasCode(s) /\ HasToken(s)
  <2>1. At(codes, s) = {}
    BY <1>2, <1>10
  <2>2. CASE At(refresh, s) # {}
    BY <1>5, <1>10, <2>1, <2>2 DEF Grant!Active
  <2>3. CASE At(refresh, s) = {}
    BY <1>3, <1>6, <1>10, <2>1, <2>3 DEF Grant!Active
  <2> QED
    BY <2>2, <2>3
<1>11. CASE s \in used /\ pending[s] = None /\ ~HasCode(s) /\ ~HasToken(s)
  BY <1>2, <1>3, <1>11 DEF Grant!Closed
<1> QED
  BY <1>7, <1>8, <1>9, <1>10, <1>11

\* What AuthorizationGrant allows one login in one step.
Advances(s) ==
    \/ StageOf(s)' = StageOf(s)
    \/ StageOf(s) = Grant!New /\ \E c \in Clients : StageOf(s)' = Grant!Opened(c)
    \/ /\ StageOf(s).stage = "open"
       /\ \E u \in Users : StageOf(s)' = Grant!Approved(StageOf(s).client, u)
    \/ /\ StageOf(s).stage = "coded"
       /\ StageOf(s)' = Grant!Active(StageOf(s).client, StageOf(s).user)
    \/ StageOf(s).stage \in {"open", "coded", "active"} /\ StageOf(s)' = Grant!Closed

\* A login that only loses the place where it is stays as it was, or is closed.
LEMMA LosingCloses ==
    ASSUME OneHeadPerLogin, NEW s \in Sessions,
           s \in used' <=> s \in used, login'[s] = login[s],
           pending'[s] \in {None, pending[s]},
           HasCode(s)' => HasCode(s), HasToken(s)' => HasToken(s)
    PROVE  Advances(s)
<1>1. /\ pending[s] # None => ~HasCode(s) /\ ~HasToken(s)
      /\ HasCode(s) => ~HasToken(s)
  BY DEF OneHeadPerLogin, HasCode, HasToken
<1> QED
  BY <1>1
  DEF Advances, StageOf, Grant!New, Grant!Opened, Grant!Approved, Grant!Active, Grant!Closed

LEMMA LoginsAdvance ==
    TypeOK /\ Lineage /\ OneHeadPerLogin /\ [Next]_vars => \A s \in Sessions : Advances(s)
<1> SUFFICES ASSUME TypeOK, Lineage, OneHeadPerLogin, [Next]_vars, NEW s \in Sessions
             PROVE  Advances(s)
  OBVIOUS
<1> USE DEF mem, disk, history, Running, Leave, Waiting
<1>0. /\ pending \in [Sessions -> Clients \cup {None}]
      /\ codes \in [Codes -> Grants \cup {None}]
      /\ refresh \in [Tokens -> Grants \cup {None}]
      /\ diskRefresh \in [Tokens -> Grants \cup {None}]
      /\ slot \in [Slots -> Suspended \cup {None}]
      /\ login \in [Sessions -> Grants \cup {None}]
      /\ s # None
      /\ \A i \in Codes \cup Tokens : i # s
  BY OAuthAssumption, IdAssumption DEF TypeOK
<1>1. ASSUME \A i \in used' : i \in used \/ i # s, used \subseteq used', login'[s] = login[s],
             pending'[s] \in {None, pending[s]},
             \A c \in Codes : codes'[c] = codes[c] \/ ~Of(codes'[c], s),
             \A t \in Tokens : \/ ~Of(refresh'[t], s)
                               \/ refresh'[t] \in {refresh[t], diskRefresh[t]},
             \A t \in Tokens : \/ ~Of(diskRefresh'[t], s)
                               \/ diskRefresh'[t] \in {refresh[t], diskRefresh[t]}
      PROVE  Advances(s)
  <2>1. (HasCode(s)' => HasCode(s)) /\ (HasToken(s)' => HasToken(s))
    BY <1>1 DEF HasCode, HasToken
  <2> QED
    BY <1>1, <2>1, LosingCloses
<1>2. ASSUME NEW c \in Clients, NEW r \in Sessions, Authorize(c, r) PROVE Advances(s)
  <2>1. CASE r = s
    <3>1. s \notin used /\ s \in used' /\ pending'[s] = c
      BY <1>0, <1>2, <2>1 DEF Authorize, Unused
    <3> QED
      BY <3>1, OAuthAssumption DEF Advances, StageOf
  <2>2. CASE r # s
    BY <1>0, <1>1, <1>2, <2>2 DEF Authorize
  <2> QED
    BY <2>1, <2>2
<1>3. ASSUME NEW p \in Slots, NEW u \in Users, NEW c \in Codes, LoginSucceeds(p, u, c)
      PROVE  Advances(s)
  <2> DEFINE r == slot[p].id
  <2>1. r \in Sessions
    BY <1>0, <1>3 DEF LoginSucceeds, Suspended
  <2>2. /\ codes' = [codes EXCEPT ![c] = [client |-> pending[r], user |-> u, session |-> r]]
        /\ pending' = [pending EXCEPT ![r] = None]
        /\ login' = [login EXCEPT ![r] = [client |-> pending[r], user |-> u, session |-> r]]
        /\ used' = used \cup {c}
        /\ UNCHANGED <<refresh, diskRefresh>>
        /\ pending[r] # None
    BY <1>3 DEF LoginSucceeds
  <2> HIDE DEF r
  <2>3. CASE r = s
    <3>1. s \in used
      BY <2>2, <2>3 DEF Lineage, IdsUsed
    <3>2. StageOf(s) = Grant!Opened(pending[s])
      BY <2>2, <2>3, <3>1 DEF StageOf
    <3>3. codes'[c] = [client |-> pending[s], user |-> u, session |-> s]
      BY <1>0, <2>2, <2>3
    <3>4. HasCode(s)'
      <4>1. codes'[c] # None
        BY <1>0, <2>2, <2>3, <3>3, OAuthAssumption DEF Grants
      <4> QED
        BY <3>3, <4>1 DEF HasCode, Of
    <3>5. pending'[s] = None /\ s \in used' /\ login'[s].client = pending[s] /\ login'[s].user = u
      BY <1>0, <2>2, <2>3, <3>1
    <3>6. StageOf(s)' = Grant!Approved(pending[s], u)
      BY <3>4, <3>5 DEF StageOf
    <3> QED
      BY <3>2, <3>6 DEF Advances, Grant!Opened
  <2>4. CASE r # s
    <3>1. ~Of(codes'[c], s)
      BY <1>0, <2>2, <2>4 DEF Of
    <3> QED
      BY <1>0, <1>1, <2>2, <2>4, <3>1
  <2> QED
    BY <2>3, <2>4
<1>4. ASSUME NEW p \in Slots, NEW t \in Tokens, ExchangeCode(p, t) PROVE Advances(s)
  <2> DEFINE c == slot[p].id
  <2>1. c \in Codes /\ slot[p].client \in Clients
    BY <1>0, <1>4 DEF ExchangeCode, Suspended
  <2>2. /\ codes' = [codes EXCEPT ![c] = None]
        /\ refresh' = [refresh EXCEPT ![t] = GrantFrom(codes[c], slot[p].client)]
        /\ used' = used \cup {t}
        /\ UNCHANGED <<pending, diskRefresh, login>>
    BY <1>4 DEF ExchangeCode, Mint
  <2>3. CASE Of(codes[c], s)
    <3>1. refresh'[t] = GrantFrom(codes[c], slot[p].client) /\ refresh'[t] # None
      BY <1>0, <2>1, <2>2, GrantFromType, OAuthAssumption
    <3>2. Of(refresh'[t], s)
      BY <2>3, <3>1 DEF Of, GrantFrom
    <3>3. HasToken(s)'
      BY <3>2 DEF HasToken
    <3>4. HasCode(s) /\ ~HasCode(s)'
      BY <1>0, <2>1, <2>2, <2>3 DEF HasCode, Of, OneHeadPerLogin
    <3>5. pending[s] = None
      BY <2>1, <2>3 DEF OneHeadPerLogin
    <3>6. s \in used
      BY <2>1, <2>3, <1>0, OAuthAssumption DEF Of, Lineage, IdsUsed, Binding, Bound
    <3>7. StageOf(s) = Grant!Approved(login[s].client, login[s].user)
      BY <3>4, <3>5, <3>6 DEF StageOf
    <3>8. StageOf(s)' = Grant!Active(login[s].client, login[s].user)
      BY <2>2, <3>3, <3>4, <3>5, <3>6 DEF StageOf
    <3> QED
      BY <3>7, <3>8 DEF Advances, Grant!Approved
  <2>4. CASE ~Of(codes[c], s)
    <3>1. ~Of(refresh'[t], s)
      BY <1>0, <2>1, <2>2, <2>4 DEF Of, GrantFrom
    <3> QED
      BY <1>0, <1>1, <2>1, <2>2, <3>1 DEF Of
  <2> QED
    BY <2>3, <2>4
<1>5. ASSUME NEW p \in Slots, NEW t \in Tokens, ExchangeRefresh(p, t) PROVE Advances(s)
  <2> DEFINE old == slot[p].id
  <2>1. old \in Tokens /\ slot[p].client \in Clients
    BY <1>0, <1>5 DEF ExchangeRefresh, Suspended
  <2>2. /\ refresh' = [refresh EXCEPT ![old] = None,
                                      ![t] = GrantFrom(refresh[old], slot[p].client)]
        /\ used' = used \cup {t}
        /\ UNCHANGED <<pending, codes, diskRefresh, login>>
    BY <1>5 DEF ExchangeRefresh, Mint
  <2>3. Of(refresh'[t], s) => Of(refresh[old], s)
    BY <1>0, <2>2 DEF Of, GrantFrom
  <2>4. \A v \in Tokens \ {t} : refresh'[v] \in {None, refresh[v]}
    BY <1>0, <2>1, <2>2
  <2>5. HasCode(s)' => HasCode(s)
    BY <2>2 DEF HasCode
  <2>6. HasToken(s)' => HasToken(s)
    BY <2>1, <2>2, <2>3, <2>4 DEF HasToken, Of
  <2> QED
    BY <1>0, <2>2, <2>5, <2>6, LosingCloses
<1>6. ASSUME NEW r \in Sessions, LoginExpired(r) PROVE Advances(s)
  BY <1>0, <1>1, <1>6 DEF LoginExpired
<1>7. ASSUME NEW p \in Slots, LoginTooLate(p) PROVE Advances(s)
  BY <1>0, <1>1, <1>7 DEF LoginTooLate
<1>8. ASSUME NEW p \in Slots, NEW c \in Codes, NEW cl \in Clients, LoadCode(p, c, cl)
      PROVE  Advances(s)
  BY <1>0, <1>1, <1>8 DEF LoadCode, Of
<1>9. ASSUME NEW t \in Tokens, RejectRefresh(t) \/ RevokeRefresh(t) PROVE Advances(s)
  BY <1>0, <1>1, <1>9 DEF RejectRefresh, RevokeRefresh, DropRefresh, Of
<1>10. ASSUME NEW result, Save(result) PROVE Advances(s)
  BY <1>1, <1>10
  DEF Save, SaveResult, TearFile, WriteTokens, WriteClients, NoTokens, Of
<1>11. CASE StopsCleanly \/ StopsInSave
  BY <1>1, <1>11
  DEF StopsCleanly, StopsInSave, Crash, TearFile, WriteTokens, WriteClients, NoTokens, Of
<1>12. CASE Restart
  BY <1>1, <1>12 DEF Restart
<1>13. CASE UNCHANGED <<Heads, used, login>>
  BY <1>1, <1>13 DEF Heads
<1> QED
  BY <1>2, <1>3, <1>4, <1>5, <1>6, <1>7, <1>8, <1>9, <1>10, <1>11, <1>12, <1>13
  DEF Next, Heads, RegisterClient, LoginPost, Abandon, LoadRefresh, RejectAccess,
      RevokeAccess, DropAccess, Reply, Expire, vars

\* Every login keeps the promises of AuthorizationGrant: the steps of the server
\* open, approve, redeem or close it, in that order and without changing whose it
\* is, for any interleaving, failing save, crash and restart.
THEOREM GrantsKept == Spec => KeepsGrants
<1> DEFINE grants == [s \in Sessions |-> GrantOf(s)]
<1>1. Init => Grant!Init
  BY DEF Init, Grant!Init, GrantOf, Staged, Grant!New
<1>2. /\ TypeOK /\ Lineage /\ OneHeadPerLogin /\ [Next]_vars
      /\ \A s \in Sessions : GrantOf(s) = StageOf(s)
      /\ (\A s \in Sessions : GrantOf(s) = StageOf(s))'
      => [Grant!Next]_grants
  <2> SUFFICES ASSUME TypeOK, Lineage, OneHeadPerLogin, [Next]_vars,
                      \A s \in Sessions : GrantOf(s) = StageOf(s),
                      (\A s \in Sessions : GrantOf(s) = StageOf(s))'
               PROVE  Grant!Next
    OBVIOUS
  <2>1. \A s \in Sessions : grants[s] = StageOf(s) /\ grants'[s] = StageOf(s)'
    OBVIOUS
  <2>2. \A s \in Sessions : Advances(s)
    BY LoginsAdvance
  <2>3. grants' = [s \in Sessions |-> grants'[s]]
    OBVIOUS
  <2> HIDE DEF grants
  <2>4. ASSUME NEW s \in Sessions
        PROVE  \/ grants'[s] = grants[s]
               \/ grants[s] = Grant!New /\ \E c \in Clients : grants'[s] = Grant!Opened(c)
               \/ /\ grants[s].stage = "open"
                  /\ \E u \in Users : grants'[s] = Grant!Approved(grants[s].client, u)
               \/ /\ grants[s].stage = "coded"
                  /\ grants'[s] = Grant!Active(grants[s].client, grants[s].user)
               \/ grants[s].stage \in {"open", "coded", "active"} /\ grants'[s] = Grant!Closed
    BY <2>1, <2>2 DEF Advances
  <2> USE DEF grants
  <2> QED
    BY <2>3, <2>4 DEF Grant!Next, Grant!Open, Grant!Approve, Grant!Redeem, Grant!Close
<1> QED
  BY <1>1, <1>2, OAuthTypes, LineageHolds, OneHead, GrantOfIsStageOf, PTL
  DEF Spec, KeepsGrants, Grant!Spec
============================================================================
