-------------------------------- MODULE MCApi --------------------------------
(* The administration routes, beside the other operations of Sessions, on a *)
(* small instance.                                                          *)
EXTENDS Api, TLC

MCOps == [r \in Reqs |-> Op]
=============================================================================
