------------------------------ MODULE TxQueue ------------------------------
(***************************************************************************)
(* What lwIP expects of netif->linkoutput: a bounded first-in first-out    *)
(* channel to the wire, which takes a frame or refuses it and says which.  *)
(***************************************************************************)
EXTENDS Naturals, Sequences

CONSTANTS Frame, Capacity

VARIABLES
  queue,   \* frames taken and not yet transmitted, oldest first
  wire,    \* frames transmitted, oldest first
  told     \* what the caller was told of each frame

absVars == <<queue, wire, told>>

Holds(s, f) == \E i \in 1 .. Len(s) : s[i] = f
Taken(f) == Holds(queue, f) \/ Holds(wire, f)

AbsInit == queue = << >> /\ wire = << >> /\ told = [f \in Frame |-> "none"]

Take(f) ==
  /\ told[f] = "none" /\ ~Taken(f) /\ Len(queue) < Capacity
  /\ queue' = Append(queue, f)
  /\ UNCHANGED <<wire, told>>

Answer(f) ==
  /\ told[f] = "none"
  /\ told' = [told EXCEPT ![f] = IF Taken(f) THEN "ok" ELSE "use"]
  /\ UNCHANGED <<queue, wire>>

Transmit ==
  /\ queue # << >>
  /\ wire' = Append(wire, Head(queue)) /\ queue' = Tail(queue)
  /\ UNCHANGED told

AbsNext == Transmit \/ \E f \in Frame : Take(f) \/ Answer(f)

AbsSafety == AbsInit /\ [][AbsNext]_absVars

(* What is taken is transmitted in the end. *)
AbsSpec == AbsSafety /\ WF_absVars(Transmit)
=============================================================================
