------------------------------ MODULE MCOsMutex ------------------------------
(* Model values for OsMutex: a is the most, b the least urgent task. *)
EXTENDS OsMutex, TLC

CONSTANTS a, b, c, m1, m2

MCBasePrio == a :> 1 @@ c :> 2 @@ b :> 3
MCRank == m1 :> 1 @@ m2 :> 2
MCMoves == {<<c, 2>>, <<c, 3>>}

(* The instance meets the hypothesis of SpecExactInheritance and              *)
(* SpecNoInversion, with one task and one mutex of each kind.                 *)
ASSUME MCChainsRiseOnly == ChainsRiseOnly
=============================================================================
