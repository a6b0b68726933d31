------------------------------ MODULE MCApiCall ------------------------------
(***************************************************************************)
(* Instances of ApiCall for TLC.  The salts are 1, 2, ...; salt 0 is that  *)
(* of a session that has not been told one yet.                            *)
(***************************************************************************)
EXTENDS ApiCall

OneSalt == {1}
ThreeSalts == 1 .. 3
=============================================================================
