-------------------------- MODULE MCPacketChecksum ---------------------------
(***************************************************************************)
(* Words of three bits, and parts of two words, at the edges of both: sums *)
(* that carry twice and sums that are multiples of M - 1.                  *)
(***************************************************************************)
EXTENDS PacketChecksum

Edges == {0, 6, MaxRest}

MCArriving == [
  ip_rest : Edges, src_addr : {0, 3, M - 1}, dst_addr : Word,
  hdr_checksum : {0, M - 1}, phdr_rest : Edges, udp_rest : Edges,
  src_port : {2}, dst_port : {0, 5, M - 1}, dgram_cksum : {0, M - 1}]
==============================================================================
