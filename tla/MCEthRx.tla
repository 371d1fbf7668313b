------------------------------ MODULE MCEthRx ------------------------------
(* Bounds for EthRx: every second frame is a long one. *)
EXTENDS EthRx

MCNeed == [f \in Frame |-> IF f % 2 = 0 THEN 2 ELSE 1]
=============================================================================
