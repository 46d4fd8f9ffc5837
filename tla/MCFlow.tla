------------------------------- MODULE MCFlow -------------------------------
(* Flow with two principals, of which the run acts for one.                 *)
EXTENDS Flow
=============================================================================
