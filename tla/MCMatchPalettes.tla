--------------------------- MODULE MCMatchPalettes ---------------------------
(* Two colours, so that every pick may be a colour the match before toggled   *)
(* to; the player in the first slot; two opponents, so that what one of them  *)
(* left in the lobby is not what the next one wears.                          *)
EXTENDS MatchPalettes

MCMaxColor == 1
MCSeat == {0}
=============================================================================
