--------------------------- MODULE MCSysArchMbox ---------------------------
(* Model values and bounds for SysArchMbox. *)
EXTENDS SysArchMbox, TLC

CONSTANTS rx, tcpip, app, app2, m1, m2, m3

(* The order of the application: ethrx_thread above tcpip_thread above the    *)
(* tasks that use the sockets.                                                *)
MCPrio == rx :> 0 @@ tcpip :> 1 @@ app :> 2 @@ app2 :> 3
MCThread == {rx, tcpip, app, app2}

(* How often places may be miscounted before the exploration stops. *)
SkewBound == -2 <= skew /\ skew <= 2

MsgSymmetry == Permutations(Msg)
============================================================================
