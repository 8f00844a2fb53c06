------------------------------ MODULE MCManager ------------------------------
(* Finite instances of Manager. *)
EXTENDS Manager
=============================================================================
