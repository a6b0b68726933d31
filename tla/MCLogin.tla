------------------------------- MODULE MCLogin -------------------------------
(***************************************************************************)
(* Instances of Login for TLC: two data centres, in production and test.   *)
(***************************************************************************)
EXTENDS Login

DCs == {-2, -1, 1, 2}

\* Every DC makes at most two keys.
Keys == [dc : DCs, gen : 1 .. 2]

Starts == {-2, 2}

NoFaults == {}
=============================================================================
