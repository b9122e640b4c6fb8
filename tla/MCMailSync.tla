------------------------------ MODULE MCMailSync ------------------------------
(***************************************************************************)
(* Small instances of MailSync.  The requests are interchangeable.         *)
(***************************************************************************)
EXTENDS MailSync, TLC

Symmetry == Permutations(Requests)

===============================================================================
