------------------------------ MODULE MCGrants ------------------------------
(* Grants on small instances: the run holds one of two capabilities.        *)
EXTENDS Grants
=============================================================================
