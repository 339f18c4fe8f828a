----------------------------- MODULE MCOrderPath -----------------------------
(***************************************************************************)
(* Instances of OrderPath for TLC.  The sequence numbers of a few orders   *)
(* stay far below SeqMod, as those of the code do below 2^32.              *)
(***************************************************************************)
EXTENDS OrderPathSolo
=============================================================================
