--------------------------- MODULE MCOnlineMatch ---------------------------
(* Three members for two seats, so that a stranger takes over seats, sides    *)
(* and opponents.  One of them shares palettes and lets replays be uploaded;  *)
(* the other two, and the seats, are interchangeable.                         *)
EXTENDS OnlineMatch, TLC

CONSTANTS a, b, c, s1, s2

MCSymmetry ==
  {p @@ q : p \in Permutations({b, c}), q \in Permutations({s1, s2})}
=============================================================================
