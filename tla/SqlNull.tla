-------------------------------- MODULE SqlNull --------------------------------
(* The absent value, which the modules that are checked together share.    *)
CONSTANT None
=============================================================================
