------------------------------ MODULE Mapping ------------------------------
(* The address mapping of src/internal/wireguard/mapping.go: the peer's     *)
(* fixed address and the address the campus gave are exchanged inside IPv4  *)
(* packets, and every checksum the address enters is corrected in one's     *)
(* complement arithmetic.  The operators are pure; module DataPath applies  *)
(* them to packets under way.                                               *)
(*                                                                          *)
(* A packet keeps what the mapping reads or writes: both addresses (two     *)
(* words each), the header checksum and the sum of the other header words   *)
(* (rest, never zero since the version is in it), the protocol, its place   *)
(* among the fragments, whether the transport checksum lies within the      *)
(* buffer (whole), that checksum, the sum of what else it covers (body,     *)
(* never zero since the protocol number or the ICMP type is in it), and the *)
(* header an ICMP error quotes (NoQuote: none, cut short, or not IPv4).     *)
EXTENDS Integers

CONSTANTS
    Base,       \* the number of words: 2^16 in the code
    PeerIP      \* Mapper.peerIP

WordMax == Base - 1
Word == 0 .. WordMax
Address == Word \X Word
Unassigned == <<0, 0>>

ASSUME MappingAssumption == Base \in Nat /\ Base >= 4 /\ PeerIP \in Address

NoQuote == [none |-> TRUE]
NoPacket == [dropped |-> TRUE]

-----------------------------------------------------------------------------
(* One's complement sums.                                                   *)

Not(w) == WordMax - w

\* One turn of the loop "sum = (sum & 0xffff) + (sum >> 16)".  A turn leaves a
\* sum below Base alone, so three turns are the whole loop for six words or
\* fewer.
Carry(s) == (s % Base) + (s \div Base)
Fold(s) == Carry(Carry(Carry(s)))

AddressSum(a) == a[1] + a[2]
HeaderSum(h) == h.rest + AddressSum(h.src) + AddressSum(h.dst)

\* checksum16 of a header whose checksum field is zero.
checksum16(h) == Not(Fold(HeaderSum(h)))

\* Mutant: the carry out of the top bit is lost.
updateChecksumNoCarry(checksum, old, new) ==
    Not((Not(checksum) + Not(old) + new) % Base)

updateChecksum(checksum, old, new) == Not(Fold(Not(checksum) + Not(old) + new))

\* Both words of an address change.
updateAddress(checksum, old, new) ==
    updateChecksum(updateChecksum(checksum, old[1], new[1]), old[2], new[2])

-----------------------------------------------------------------------------
(* The mapper.                                                              *)

\* What the wire carries for a TCP or UDP checksum that comes out as zero.
NonZero(c) == IF c = 0 THEN WordMax ELSE c

Replace(a, old, new) == IF a = old THEN new ELSE a

\* Mutant: only the source of the quoted header is looked at.
rewriteICMPInnerSource(p, old, new) ==
    IF p.inner = NoQuote \/ p.inner.src # old THEN p
    ELSE LET moved == [p.inner EXCEPT !.src = new]
             quoted == [moved EXCEPT !.csum = checksum16(moved)]
         IN [p EXCEPT !.inner = quoted,
                      !.tsum = updateChecksum(updateAddress(@, old, new),
                                              p.inner.csum, quoted.csum)]

rewriteICMPInner(p, old, new) ==
    IF p.inner = NoQuote \/ old \notin {p.inner.src, p.inner.dst} THEN p
    ELSE LET moved == [p.inner EXCEPT !.src = Replace(@, old, new),
                                      !.dst = Replace(@, old, new)]
             quoted == [moved EXCEPT !.csum = checksum16(moved)]
             src == IF p.inner.src = old THEN updateAddress(p.tsum, old, new)
                    ELSE p.tsum
             dst == IF p.inner.dst = old THEN updateAddress(src, old, new)
                    ELSE src
         IN [p EXCEPT !.inner = quoted,
                      !.tsum = updateChecksum(dst, p.inner.csum, quoted.csum)]

\* The transport part: nothing for a later fragment, for a checksum beyond the
\* buffer, or for a UDP checksum its sender did not compute.
rewriteTransport(p, old, new) ==
    CASE p.frag = "tail" -> p
      [] p.frag # "tail" /\ p.proto \in {"tcp", "udp"} ->
            IF ~p.whole \/ (p.proto = "udp" /\ p.tsum = 0) THEN p
            ELSE [p EXCEPT !.tsum = NonZero(updateAddress(@, old, new))]
      [] p.frag # "tail" /\ p.proto = "icmp" -> rewriteICMPInner(p, old, new)
      [] OTHER -> p

rewriteSource(p, old, new) ==
    rewriteTransport([p EXCEPT !.src = new, !.csum = updateAddress(@, old, new)],
                     old, new)

rewriteDestination(p, old, new) ==
    rewriteTransport([p EXCEPT !.dst = new, !.csum = updateAddress(@, old, new)],
                     old, new)

Uplink(p, public) ==
    IF p.src # PeerIP \/ public = Unassigned THEN NoPacket
    ELSE rewriteSource(p, PeerIP, public)

Downlink(p, public) ==
    IF public = Unassigned \/ p.dst # public THEN NoPacket
    ELSE rewriteDestination(p, public, PeerIP)

-----------------------------------------------------------------------------
(* What a receiver computes over a packet: the reference the mapping is     *)
(* measured against.                                                        *)

Verifies(sum) == Fold(sum) = WordMax

HeaderValid(h) == Verifies(HeaderSum(h) + h.csum)

QuoteSum(p) == IF p.inner = NoQuote THEN 0
               ELSE Fold(HeaderSum(p.inner)) + p.inner.csum

\* Whether the receiver, once it has every fragment, accepts the message.
TransportValid(p) ==
    CASE p.proto = "udp" -> p.tsum = 0 \/ Verifies(AddressSum(p.src)
                                + AddressSum(p.dst) + p.body + p.tsum)
      [] p.proto = "tcp" -> Verifies(AddressSum(p.src) + AddressSum(p.dst)
                                + p.body + p.tsum)
      [] p.proto = "icmp" -> Verifies(QuoteSum(p) + p.body + p.tsum)
      [] OTHER -> TRUE
=============================================================================
