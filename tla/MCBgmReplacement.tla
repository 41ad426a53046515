------------------------- MODULE MCBgmReplacement -------------------------
(* Two tracks, the first with a duplicated filename (as 205_abyss.pac has); *)
(* each is the other's song, at two gains, and every pointer write may be   *)
(* refused.                                                                 *)
EXTENDS BgmReplacement

MCIndex == 1 .. 3
MCPrimary == <<1, 2, 1>>
MCRefusable == MCIndex
MCGain == {0, 1}
MCUserSource == {}
=============================================================================
