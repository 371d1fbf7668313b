------------------------------ MODULE MCEthTx ------------------------------
(* Model values and bounds for EthTx. *)
EXTENDS EthTx, TLC

CONSTANTS rx, tcpip, eth, f1, f2, f3

(* ethrx_thread receives; tcpip_thread answers and runs the timers;           *)
(* App_EthTask sends through the API.                                         *)
MCTask == {rx, tcpip, eth}
MCPrio == rx :> 0 @@ tcpip :> 1 @@ eth :> 2
=============================================================================
