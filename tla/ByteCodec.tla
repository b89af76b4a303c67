------------------------------ MODULE ByteCodec ------------------------------
(***************************************************************************)
(* The byte conversions of test_fpga_core.py: int.to_bytes(8, 'little'),   *)
(* ip_str_to_ip_bytes and the Packet_cfg payload.  An address is given by  *)
(* its octets: the text parsing (split, int(part)) is left out, what is    *)
(* kept is where each octet ends up.  The references read bytes as the     *)
(* spec lays them out: little-endian record fields.                        *)
(***************************************************************************)
EXTENDS Naturals, SequencesExt

\* Mutant: to_bytes without reducing each byte modulo 256.
ToBytes8_unmasked(n) == [i \in 1 .. 8 |-> IF i <= 4 THEN n \div 256^(i - 1) ELSE 0]

\* n.to_bytes(8, byteorder='little'); n < 2^31, so bytes 5 to 8 are 0.
ToBytes8(n) == [i \in 1 .. 8 |-> IF i <= 4 THEN (n \div 256^(i - 1)) % 256 ELSE 0]

\* Mutant: the octets kept in the order of the text.
ip_str_to_ip_bytes_unreversed(octets) == octets \o <<0, 0, 0, 0>>

\* ip_str_to_ip_bytes after the split: the octets reversed, padded with
\* zeros to 8 bytes.
ip_str_to_ip_bytes(octets) == Reverse(octets) \o <<0, 0, 0, 0>>

\* Packet_cfg.payload: bytes([x % 256 for x in range(payload_size)]).
Payload(n) == [x \in 1 .. n |-> (x - 1) % 256]

-----------------------------------------------------------------------------
(* References.                                                             *)

\* The number a little-endian byte string stands for.
LeValue(bs) == FoldRight(LAMBDA b, acc : b + 256 * acc, bs, 0)

\* The number an address's octets spell, first octet most significant.
AddrValue(os) == FoldLeft(LAMBDA acc, o : 256 * acc + o, 0, os)

=============================================================================
