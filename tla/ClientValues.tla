---------------------------- MODULE ClientValues ----------------------------
(***************************************************************************)
(* What the modules of the browser client share.                            *)
(***************************************************************************)
CONSTANT None  \* null and undefined: no row, no id, no tab, no path, nobody
=============================================================================
