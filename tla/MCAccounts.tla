----------------------------- MODULE MCAccounts -----------------------------
(***************************************************************************)
(* A small instance of Accounts: two mailboxes, one request of the server  *)
(* and two runs of the command line.                                       *)
(***************************************************************************)
EXTENDS Accounts, TLC

\* Accounts are told apart by their tokens only, runs by their flows only.
Symmetry == Permutations(Accounts) \cup Permutations(CliCalls)

=============================================================================
