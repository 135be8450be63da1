--------------------------- MODULE PacketChecksum ----------------------------
(***************************************************************************)
(* The checksums of one packet on its way through the echo server: it      *)
(* arrives, as the client crafted it or not, its endpoints are exchanged,  *)
(* the checksum stage does what the selected mode says, the NIC finishes   *)
(* what was offloaded, and the client looks at the result.                 *)
(*                                                                         *)
(* A word holds 0 .. M - 1, M being 2^16 in the code.  The parts of the    *)
(* packet that no stage touches enter every sum as a whole, and are given  *)
(* by the sum of their words.                                              *)
(***************************************************************************)
EXTENDS Naturals

CONSTANTS
  M,         \* the number of values of a word
  MaxRest,   \* the largest sum of the words of a part
  Modes,     \* the checksum modes the server may be started with
  Arriving   \* the packets that may arrive

Word == 0..(M - 1)
Rest == 0..MaxRest

Packet == [
  ip_rest : Rest,       \* the IPv4 header without addresses and checksum
  src_addr : Word,
  dst_addr : Word,
  hdr_checksum : Word,
  phdr_rest : Rest,     \* protocol and length in the UDP pseudo header
  udp_rest : Rest,      \* the UDP length and the payload
  src_port : Word,
  dst_port : Word,
  dgram_cksum : Word]

\* No sum overflows the 2^32 of the accumulator; two parts and five words is
\* the longest.
ASSUME ChecksumAssumption ==
  /\ M \in Nat \ {0, 1}
  /\ MaxRest \in Nat
  /\ 2 * MaxRest + 5 * (M - 1) < M * M
  /\ Modes \subseteq {"software", "offload", "preserve", "none"}
  /\ Arriving \subseteq Packet

------------------------------------------------------------------------------
(* The sums of DPDK.                                                       *)

\* One step of __rte_raw_cksum_reduce: add the carries to the low word.
Reduce(sum) == (sum \div M) + (sum % M)

\* rte_raw_cksum on words that add up to sum.
Fold(sum) == Reduce(Reduce(sum))

Not(w) == (M - 1) - w

IpSum(p) == p.ip_rest + p.src_addr + p.dst_addr + p.hdr_checksum
UdpSum(p) == p.udp_rest + p.src_port + p.dst_port + p.dgram_cksum

\* rte_ipv4_cksum and rte_ipv4_phdr_cksum.
Ipv4Cksum(p) == Not(Fold(IpSum(p)))
PhdrCksum(p) == Fold(p.src_addr + p.dst_addr + p.phdr_rest)

\* A UDP checksum of zero would mean that there is none.
NonZero(w) == IF w = 0 THEN M - 1 ELSE w

\* rte_ipv4_udptcp_cksum.
UdpCksum(p) == NonZero(Not(Reduce(Fold(UdpSum(p)) + PhdrCksum(p))))

------------------------------------------------------------------------------
(* What is done to a packet.                                               *)

\* Mutant: the exchange without the temporaries.
SwapWithoutTmp(p) == [p EXCEPT !.src_addr = p.dst_addr, !.src_port = p.dst_port]

Swap(p) == [p EXCEPT !.src_addr = p.dst_addr, !.dst_addr = p.src_addr,
                     !.src_port = p.dst_port, !.dst_port = p.src_port]

\* Mutant: the checksum fields are not cleared before they are summed.
SoftwareUncleared(p) ==
  [p EXCEPT !.hdr_checksum = Ipv4Cksum(p), !.dgram_cksum = UdpCksum(p)]

Cleared(p) == [p EXCEPT !.hdr_checksum = 0, !.dgram_cksum = 0]

Software(p) ==
  LET c == Cleared(p)
  IN [c EXCEPT !.hdr_checksum = Ipv4Cksum(c), !.dgram_cksum = UdpCksum(c)]

\* What the server prepares for the NIC, with the offload flags set.
Prepare(p) == [p EXCEPT !.hdr_checksum = 0, !.dgram_cksum = PhdrCksum(p)]

\* What the NIC makes of a packet with the offload flags.
Finish(p) ==
  [p EXCEPT !.hdr_checksum = Not(Fold(IpSum(p))),
            !.dgram_cksum = NonZero(Not(Fold(UdpSum(p))))]

\* What a receiver accepts.
ValidIp(p) == Fold(IpSum(p)) = M - 1
ValidUdp(p) ==
  \/ p.dgram_cksum = 0
  \/ Fold(UdpSum(p) + p.src_addr + p.dst_addr + p.phdr_rest) = M - 1
Valid(p) == ValidIp(p) /\ ValidUdp(p)

------------------------------------------------------------------------------
VARIABLES
  mode,      \* the mode of the server
  arrived,   \* history: the packet as it came in
  packet,    \* the packet as it is now
  ol_flags,  \* whether the mbuf asks for offload
  stage      \* how far the packet has got

pathVars == <<mode, arrived, packet, ol_flags, stage>>

\* The client sends with the checksums filled in; another sender may not.
PathInit ==
  /\ mode \in Modes
  /\ arrived \in Arriving \union {Software(p) : p \in Arriving}
  /\ packet = arrived
  /\ ol_flags = FALSE
  /\ stage = "received"

Rewrite ==
  /\ stage = "received"
  /\ stage' = "rewritten"
  /\ packet' = Swap(packet)
  /\ UNCHANGED <<mode, arrived, ol_flags>>

\* Mutant: the offload branch does not set ol_flags.
ChecksumNoFlags ==
  /\ stage = "rewritten"
  /\ stage' = "tx"
  /\ packet' = CASE mode = "software" -> Software(packet)
                 [] mode = "offload"  -> Prepare(packet)
                 [] mode = "preserve" -> packet
                 [] mode = "none"     -> Cleared(packet)
  /\ UNCHANGED <<mode, arrived, ol_flags>>

Checksum ==
  /\ stage = "rewritten"
  /\ stage' = "tx"
  /\ packet' = CASE mode = "software" -> Software(packet)
                 [] mode = "offload"  -> Prepare(packet)
                 [] mode = "preserve" -> packet
                 [] mode = "none"     -> Cleared(packet)
  /\ ol_flags' = (mode = "offload")
  /\ UNCHANGED <<mode, arrived>>

Nic ==
  /\ stage = "tx"
  /\ stage' = "sent"
  /\ packet' = IF ol_flags THEN Finish(packet) ELSE packet
  /\ UNCHANGED <<mode, arrived, ol_flags>>

PathNext == Rewrite \/ Checksum \/ Nic

PathSpec == PathInit /\ [][PathNext]_pathVars

------------------------------------------------------------------------------
(* Properties.                                                             *)

PathTypeOK ==
  /\ mode \in Modes
  /\ arrived \in Packet
  /\ packet \in Packet
  /\ ol_flags \in BOOLEAN
  /\ stage \in {"received", "rewritten", "tx", "sent"}

\* Computing the checksums, on the CPU or in the NIC, gives the client a
\* packet it accepts, whatever the server received.
ComputedIsValid ==
  stage = "sent" /\ mode \in {"software", "offload"} => Valid(packet)

\* Without recomputing anything, "preserve" sends a packet that is accepted
\* exactly if the one received was: a valid one stays valid, and damage done
\* on the way to the server is not hidden from the client.
PreserveKeepsVerdict ==
  stage = "sent" /\ mode = "preserve" => (Valid(packet) <=> Valid(arrived))

\* The modes that send valid checksums send the same packet to the last bit:
\* the NIC arrives at the very fields the CPU would have written, and so does
\* "preserve" for a packet whose checksums the client filled in.
ModesAgree ==
  /\ stage = "sent"
  /\ mode = "offload" \/ (mode = "preserve" /\ arrived = Software(arrived))
  => packet = Software(Swap(arrived))
==============================================================================
