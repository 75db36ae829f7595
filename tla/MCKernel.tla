------------------------------ MODULE MCKernel ------------------------------
(* Two games of one session for TLC. *)
EXTENDS KernelProperties, TLC

CONSTANTS g1, g2

MCGames == {g1, g2}
MCMaxLoads == (g1 :> 1) @@ (g2 :> 2)
===============================================================================
