-------------------------------- MODULE MCHub -------------------------------
(* The instance of Hub that is checked.                                    *)
EXTENDS Hub
=============================================================================
