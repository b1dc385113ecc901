-------------------------- MODULE MCOAuthProvider --------------------------
(* Small instances of OAuthProvider for TLC.                                *)
EXTENDS OAuthProvider, TLC

Ids == Permutations(Sessions) \cup Permutations(Codes) \cup Permutations(Tokens)
           \cup Permutations(Slots) \cup Permutations(Clients) \cup Permutations(Users)
============================================================================
