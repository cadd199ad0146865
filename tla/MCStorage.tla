----------------------------- MODULE MCStorage ------------------------------
(* A small instance of Storage: two accounts, three ids. *)
EXTENDS Storage
MCPlayerIds == 1..3
=============================================================================
