--------------------------- MODULE MCAccessLists ---------------------------
(***************************************************************************)
(* One name that may be listed in any of the files, for TLC.               *)
(***************************************************************************)
EXTENDS AccessLists
=============================================================================
