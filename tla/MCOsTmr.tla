------------------------------- MODULE MCOsTmr -------------------------------
(* Model values and bounds for OsTmr. *)
EXTENDS OsTmr, TLC

CONSTANTS A, B, C

MCDly == A :> 2 @@ B :> 0 @@ C :> 1
MCPeriod == A :> 0 @@ B :> 3 @@ C :> 0
MCSetTo == {<<A, 1, 0>>}
MCCalls == {"start"} \X {A, B, C}
           \cup {<<"stop", A>>, <<"stopCallback", C>>, <<"set", A>>,
                 <<"del", B>>, <<"create", B>>}
MCCallback == {<<"start", A>>, <<"start", C>>, <<"del", B>>}

(* The instance meets the hypotheses of the theorems. *)
ASSUME MCHypotheses == WithinHalfTurn /\ CreatedAtRest
=============================================================================
