--------------------------- MODULE MCRegistration ---------------------------
(* Small instances of Registration for TLC.                                 *)
EXTENDS Registration
=============================================================================
