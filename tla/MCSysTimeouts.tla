---------------------------- MODULE MCSysTimeouts ----------------------------
(* The three timers of this build, their intervals 250, 1000 and 1000 ms     *)
(* scaled to 1, 3 and 3 ticks; a counter of 22 ticks wraps again and again,  *)
(* and, as that of the code, not on a beat of the timers.                    *)
EXTENDS SysTimeouts

CONSTANTS Reass, Arp

MCCyclic == {Reass, Arp}
MCInterval == [h \in MCCyclic \cup {Tcp} |-> IF h = Tcp THEN 1 ELSE 3]

=============================================================================
