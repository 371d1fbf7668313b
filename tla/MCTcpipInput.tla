---------------------------- MODULE MCTcpipInput ----------------------------
(* Model values for TcpipInput. *)
EXTENDS TcpipInput, TLC

CONSTANTS rx, tcpip, i1, i2, a1, b1, b2, b3

MCThread == {rx, tcpip}
MCPrio == rx :> 0 @@ tcpip :> 1
MCMsg == Inpkt \cup Api
=============================================================================
