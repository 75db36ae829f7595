------------------------------ MODULE MCGuiSync ------------------------------
(* A game with room for one secondary thread too many, for TLC. *)
EXTENDS GuiSyncProperties

CONSTANTS s1, s2

MCSeconds == {s1, s2}
===============================================================================
