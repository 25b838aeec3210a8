--------------------------- MODULE MCStreamSource ---------------------------
(***************************************************************************)
(* Small instances of StreamSource: its constants are numbers and flags.   *)
(***************************************************************************)
EXTENDS StreamSource
=============================================================================
