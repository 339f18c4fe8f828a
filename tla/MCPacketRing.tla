---- MODULE MCPacketRing ----
(***************************************************************************)
(* PacketRing on a ring of two slots with two packets: batches longer than *)
(* the ring, a ring that fills up and drains, and positions that go round  *)
(* it more than twice.                                                     *)
(***************************************************************************)
EXTENDS PacketRing
=============================================================================
