-------------------------------- MODULE Absence --------------------------------
(***************************************************************************)
(* What None is in the code, and a key that is not there.  The modules     *)
(* share it, so that one module can extend several of them.                *)
(***************************************************************************)
CONSTANT Nothing
=============================================================================
