------------------------------ MODULE MCGrants -----------------------------
(* A small instance of Grants and SignIn: two accounts with passwords, one *)
(* of them without an address, and one identity.                           *)
EXTENDS Grants

CONSTANTS e1, e2

MCRegistered == <<[email |-> e1, oidc |-> None, password |-> TRUE],
                  [email |-> None, oidc |-> None, password |-> TRUE]>>
=============================================================================
