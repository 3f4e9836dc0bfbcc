--------------------------- MODULE MCLumidHistory ---------------------------
(* LumidHistory over the constants of MCLumid.                             *)
EXTENDS MCLumid, LumidHistory
=============================================================================
