------------------------------- MODULE MCOsWait -------------------------------
(* Two tasks that wait and one that sleeps. *)
EXTENDS OsWait

CONSTANTS A, B, C, F, G, H

MCPrio == [t \in {A, B, C} |-> IF t = A THEN 1 ELSE IF t = B THEN 2 ELSE 3]

Sem(t, timeout) ==
  [t |-> t, obj |-> "sem", timeout |-> timeout, flags |-> {},
   set |-> TRUE, all |-> TRUE, consume |-> FALSE]
Flags(t, timeout, flags, set, all, consume) ==
  [t |-> t, obj |-> "flag", timeout |-> timeout, flags |-> flags,
   set |-> set, all |-> all, consume |-> consume]

(* Flags that one task consumes are not those that another one waits for in  *)
(* the opposite state: OSFlagPend would leave that one waiting.               *)
MCPends == {Sem(A, 2), Sem(B, 0), Flags(A, 0, {F, H}, TRUE, TRUE, TRUE),
            Flags(B, 2, {F, G}, TRUE, FALSE, TRUE),
            Flags(B, 0, {G}, FALSE, TRUE, TRUE)}
MCPosted == {{F}, {G}, {F, H}}
MCDelays == {[t |-> C, opt |-> "periodic", time |-> 2],
             [t |-> A, opt |-> "match", time |-> 1],
             [t |-> A, opt |-> "dly", time |-> 2]}
===============================================================================
