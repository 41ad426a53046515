----------------------------- MODULE MCBgmQueue -----------------------------
(* Two tracks with one file each, a song that may vanish, and each track as  *)
(* the other's song: two rows waiting in one queue, each queued again with   *)
(* another choice.  No pointer write is refused (MCBgmReplacement has those).*)
EXTENDS BgmReplacement

MCIndex == 1 .. 2
MCPrimary == <<1, 2>>
MCRefusable == {}
MCGain == {0}
=============================================================================
