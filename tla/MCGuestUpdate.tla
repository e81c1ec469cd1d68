--------------------------- MODULE MCGuestUpdate ---------------------------
(* Instances of GuestUpdate for TLC; the bounds are in the .cfg files.     *)
EXTENDS GuestUpdate
=============================================================================
