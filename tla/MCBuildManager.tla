--------------------------- MODULE MCBuildManager ---------------------------
(* Instances of BuildManager for TLC; the bounds are in the .cfg files.    *)
EXTENDS BuildManager
=============================================================================
