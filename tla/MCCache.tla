------------------------------- MODULE MCCache -------------------------------
(* A small cache for model checking Cache with TLC.                        *)
EXTENDS Cache

=============================================================================
