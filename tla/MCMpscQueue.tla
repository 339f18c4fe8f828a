---- MODULE MCMpscQueue ----
(***************************************************************************)
(* MpscQueue with two producers on two slots.  Four claims take the        *)
(* positions twice round the ring, so that every slot is written, emptied  *)
(* and written again, and so that a producer's loaded tail can fall behind *)
(* the head.                                                               *)
(***************************************************************************)
EXTENDS MpscQueue

\* std::size_t only has to be wider than the positions reached.
MCSizeMod == 16
=============================================================================
