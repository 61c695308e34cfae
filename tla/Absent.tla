------------------------------- MODULE Absent -------------------------------
(***************************************************************************)
(* The one model value the modules share: an Option that holds nothing.    *)
(***************************************************************************)
CONSTANT None
=============================================================================
