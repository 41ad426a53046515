------------------------ MODULE MCUpdateCoordinator ------------------------
(* Two releases and a package of two files.                                 *)
EXTENDS UpdateCoordinator

MCRelease == 1 .. 2
=============================================================================
