----------------------------- MODULE MCAccounts ----------------------------
(***************************************************************************)
(* Four requests on one account: enough for one to make it, one to ask for *)
(* a link and two to use it at once, or for an account to be pending,      *)
(* reset and signed in to.                                                 *)
(***************************************************************************)
EXTENDS Accounts, TLC

\* Requests and links are interchangeable, and every property is an invariant.
Interchangeable == Permutations(Request) \cup Permutations(Link)
=============================================================================
