------------------------- MODULE AuthorizationGrant -------------------------
(***************************************************************************)
(* What the authorization server promises of one authorization: it is       *)
(* opened for a client, approved once by a user who logs in, redeemed once, *)
(* kept alive by refreshing, and over once it is closed.  Neither its       *)
(* client nor its user ever changes, and no crash or restart takes it back  *)
(* to an earlier stage.                                                     *)
(***************************************************************************)
CONSTANTS Sessions, Clients, Users, None

VARIABLE grant      \* session -> stage, client and user

New == [stage |-> "new", client |-> None, user |-> None]
Opened(c) == [stage |-> "open", client |-> c, user |-> None]
Approved(c, u) == [stage |-> "coded", client |-> c, user |-> u]
Active(c, u) == [stage |-> "active", client |-> c, user |-> u]
Closed == [stage |-> "closed", client |-> None, user |-> None]

Open(s) == grant[s] = New /\ \E c \in Clients : grant'[s] = Opened(c)

Approve(s) ==
    /\ grant[s].stage = "open"
    /\ \E u \in Users : grant'[s] = Approved(grant[s].client, u)

Redeem(s) ==
    /\ grant[s].stage = "coded"
    /\ grant'[s] = Active(grant[s].client, grant[s].user)

Close(s) ==
    /\ grant[s].stage \in {"open", "coded", "active"}
    /\ grant'[s] = Closed

Init == grant = [s \in Sessions |-> New]

\* A stop of the server, or a lost file, may close several authorizations at once.
Next ==
    /\ grant' = [s \in Sessions |-> grant'[s]]
    /\ \A s \in Sessions :
         grant'[s] = grant[s] \/ Open(s) \/ Approve(s) \/ Redeem(s) \/ Close(s)

Spec == Init /\ [][Next]_grant
=============================================================================
