------------------------------ MODULE MCRestart ------------------------------
(* One order, one position: what happens to it in one life of the process  *)
(* and the next.                                                           *)
EXTENDS Restart
=============================================================================
