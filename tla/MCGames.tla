--------------------------------- MODULE MCGames -------------------------------
(***************************************************************************)
(* The games for TLC: short decks, a few spots of the layouts, small       *)
(* stakes, and super mode with few multipliers; every roll of the dice and *)
(* every number of the wheel comes up.                                     *)
(***************************************************************************)
EXTENDS Games

================================================================================
