------------------------------ MODULE DataPath ------------------------------
(* Packets on their way between the peer and the campus: the address of the *)
(* tunnel (src/internal/l3/endpoint.go), the mapping both ways              *)
(* (src/internal/wireguard/relay.go calls mapping.go), the resource table   *)
(* that lets a packet into the tunnel (src/internal/ztna/tunnel.go, Send),  *)
(* and the errors the two sides send about what they got.                   *)
(*                                                                          *)
(* Flows and their authorisation are module FlowTable's, the session that   *)
(* owns the relay module Relay's; here a packet that those let through is   *)
(* followed from one side to the other.  A packet that is dropped changes   *)
(* nothing.                                                                 *)
EXTENDS Mapping, Resources

CONSTANTS
    Docs,           \* documents the campus may send
    TrafficDocs,    \* the documents under which traffic is explored
    Hosts,          \* names a client may ask for
    Publics,        \* addresses the campus may give
    Remotes,        \* addresses of campus hosts
    Ports,          \* destination ports
    Rests, Bodies   \* sums of header words and of message words

\* The documents are documents, the names names, and a port is not zero.  Words
\* are words, and neither a header nor a message sums to zero (module
\* Mapping says why).  The campus gives no address that one of its hosts has, and
\* no host of it has the address that the peer's configuration is written with.
ASSUME DataPathAssumption ==
    /\ Publics \subseteq Address /\ Remotes \subseteq Address
    /\ Rests \subseteq Word \ {0} /\ Bodies \subseteq Word \ {0}
    /\ Publics \cap Remotes = {} /\ PeerIP \notin Remotes
    /\ Docs \subseteq Document /\ Hosts \subseteq Names
    /\ Ports \subseteq 1 .. PortMax

VARIABLES
    doc,        \* the document of this session, NoDoc before there is one
    table,      \* Session.table
    local,      \* Endpoint.local, Unassigned before the handshake
    sent,       \* a packet as its sender made it
    seen,       \* the same packet as the other side got it
    reply,      \* the error the other side made about it
    home        \* the error as the sender got it

vars == <<doc, table, local, sent, seen, reply, home>>

NoDoc == [items |-> <<>>, nodes |-> <<>>, major |-> "", wellFormed |-> FALSE]

Clear == sent' = NoPacket /\ seen' = NoPacket /\ reply' = NoPacket /\ home' = NoPacket

Init ==
    /\ doc = NoDoc /\ table = NoTable /\ local = Unassigned
    /\ sent = NoPacket /\ seen = NoPacket /\ reply = NoPacket /\ home = NoPacket

-----------------------------------------------------------------------------
(* The session.                                                             *)

\* Session.prepare: the document is parsed and published.
prepare(d) ==
    /\ doc = NoDoc
    /\ doc' = d /\ table' = parseResourceTable(d)
    /\ UNCHANGED <<local, sent, seen, reply, home>>

\* The address of the handshake, or of a later update of the server (0x96).
SetLocalAddr(a) ==
    /\ table # NoTable /\ doc \in TrafficDocs
    /\ a # local /\ local' = a
    /\ UNCHANGED <<doc, table, sent, seen, reply, home>>

Close ==
    /\ doc # NoDoc
    /\ doc' = NoDoc /\ table' = NoTable /\ local' = Unassigned
    /\ Clear

-----------------------------------------------------------------------------
(* One packet.                                                              *)

\* What Send refuses before it looks at the table: other protocols, fragments
\* of ICMP, a message without its whole header.
parsePacket(p) ==
    /\ p.proto \in {"tcp", "udp", "icmp"}
    /\ p.proto = "icmp" => p.frag = "no"
    /\ p.frag # "tail" => p.whole

\* A later fragment has no ports; the flow table knows whether its first one
\* was let through.
Send(p) ==
    /\ parsePacket(p)
    /\ p.frag # "tail" => matchIP(table, p.dst, p.proto, p.port) # NoGrant

\* Relay.Write and Relay.deliverFrom: what comes out on the other side.
Write(p) == LET out == Uplink(p, local)
            IN IF out # NoPacket /\ Send(out) THEN out ELSE NoPacket
deliverFrom(p) == Downlink(p, local)

\* Packets as a side may make them, checksums right or not: in one piece, a
\* first fragment that reaches its checksum or not, a later one.
Packets(src, dst, ports) ==
    UNION {[src : {src}, dst : {dst}, rest : Rests, csum : Word,
            proto : {"tcp", "udp", "icmp", "other"}, port : ports,
            frag : {piece[1]}, whole : {piece[2]},
            tsum : Word, body : Bodies, inner : {NoQuote}] :
        piece \in {<<"no", TRUE>>, <<"first", TRUE>>, <<"first", FALSE>>, <<"tail", FALSE>>}}

Header(p) == [src |-> p.src, dst |-> p.dst, rest |-> p.rest, csum |-> p.csum]

\* An error about p, with right checksums, that quotes its header or too little.
Errors(p) ==
    LET blank(body, frag, quote) ==
            [src |-> p.dst, dst |-> p.src, rest |-> body, csum |-> 0,
             proto |-> "icmp", port |-> 0, frag |-> frag, whole |-> TRUE,
             tsum |-> 0, body |-> body, inner |-> quote]
        summed(e) == [e EXCEPT !.csum = checksum16(e),
                               !.tsum = Not(Fold(QuoteSum(e) + e.body))]
    IN {summed(blank(b, f, q)) : b \in Bodies, f \in {"no", "first"},
                                 q \in {NoQuote, Header(p)}}

PeerSends(p) ==
    /\ sent = NoPacket /\ Write(p) # NoPacket
    /\ sent' = p /\ seen' = Write(p)
    /\ UNCHANGED <<doc, table, local, reply, home>>

CampusSends(p) ==
    /\ sent = NoPacket /\ deliverFrom(p) # NoPacket
    /\ sent' = p /\ seen' = deliverFrom(p)
    /\ UNCHANGED <<doc, table, local, reply, home>>

\* The campus answers the peer's packet with an error, to the address it saw.
CampusReports(e) ==
    /\ sent # NoPacket /\ sent.src = PeerIP /\ reply = NoPacket
    /\ deliverFrom(e) # NoPacket
    /\ reply' = e /\ home' = deliverFrom(e)
    /\ UNCHANGED <<doc, table, local, sent, seen>>

\* The peer answers a packet of the campus with an error.
PeerReports(e) ==
    /\ sent # NoPacket /\ sent.src # PeerIP /\ reply = NoPacket
    /\ Write(e) # NoPacket
    /\ reply' = e /\ home' = Write(e)
    /\ UNCHANGED <<doc, table, local, sent, seen>>

Forget ==
    /\ sent # NoPacket
    /\ Clear
    /\ UNCHANGED <<doc, table, local>>

Next ==
    \/ \E d \in Docs : prepare(d)
    \/ \E a \in Publics : SetLocalAddr(a)
    \/ Close
    \/ \E r \in Remotes : \E p \in Packets(PeerIP, r, Ports) : PeerSends(p)
    \/ \E r \in Remotes, a \in Publics : \E p \in Packets(r, a, {0}) : CampusSends(p)
    \/ seen # NoPacket /\ \E e \in Errors(seen) : CampusReports(e)
    \/ seen # NoPacket /\ \E e \in Errors(seen) : PeerReports(e)
    \/ Forget

Spec == Init /\ [][Next]_vars

-----------------------------------------------------------------------------
(* Properties.                                                              *)

Kept(a, b) ==
    /\ HeaderValid(a) <=> HeaderValid(b)
    /\ a.frag # "tail" /\ a.whole =>
            /\ TransportValid(a) <=> TransportValid(b)
            /\ a.proto = "udp" => (a.tsum = 0 <=> b.tsum = 0)

\* rewriteAddr changes addresses in the middle of sums it does not recompute:
\* a receiver accepts the rewritten packet exactly if it would have accepted
\* the original, header and message, in both directions, for first fragments
\* and for errors with a quoted header.  None of these sums is broken and no damage
\* hidden; UDP's "not computed" stays what it was.  It says nothing of sums that are
\* left alone: of a first fragment that ends before its checksum, of the message inside
\* a quoted packet, of other protocols.
ChecksumsCarryOver ==
    /\ sent # NoPacket => Kept(sent, seen)
    /\ reply # NoPacket => Kept(reply, home)

\* An error about a packet reaches the packet's sender and quotes the header the
\* sender wrote, with a right checksum, although both were rewritten on the way
\* and the tunnel's address may have changed in between; a campus host whose
\* packet went to an address we no longer have sees our new one quoted.
ErrorsComeHome ==
    home # NoPacket =>
        /\ home.dst = sent.src
        /\ reply.inner # NoQuote =>
            LET made == IF sent.src = PeerIP THEN sent ELSE [sent EXCEPT !.dst = home.src]
            IN /\ HeaderValid(home.inner)
               /\ home.inner = [Header(made) EXCEPT !.csum = home.inner.csum]

\* What a document says of one address, read without the table.
Permits(item, dst, proto, port) ==
    /\ item.model = "L3VPN" /\ item.app # "" /\ item.host.kind = "ip"
    /\ item.protocol = "all" \/ (item.protocol = proto /\ proto # "icmp")
    /\ \A i \in 1 .. item.host.bits : item.host.addr[i] = dst[i]
    /\ \/ item.ports = <<0, 0>>
       \/ /\ item.ports[1] > 0 /\ item.ports[1] <= item.ports[2] /\ item.ports[2] <= PortMax
          /\ proto = "icmp" \/ (item.ports[1] <= port /\ port <= item.ports[2])

\* Whether stars can be filled so that the pattern is the host.
Fills(pattern, host) ==
    LET parts == DOMAIN pattern
    IN \E at \in [parts -> 0 .. Len(host)] :
        /\ at[1] = 0 /\ at[Len(pattern)] + Len(pattern[Len(pattern)]) = Len(host)
        /\ \A i \in parts :
            /\ at[i] + Len(pattern[i]) <= Len(host)
            /\ SubSeq(host, at[i] + 1, at[i] + Len(pattern[i])) = pattern[i]
            /\ i + 1 \in parts => at[i] + Len(pattern[i]) <= at[i + 1]

PermitsHost(item, host, port) ==
    /\ item.model = "L3VPN" /\ item.app # "" /\ item.host.kind = "domain"
    /\ item.protocol \in {"tcp", "all"} /\ (item.pretend \/ item.ips # {})
    /\ \/ item.ports = <<0, 0>>
       \/ /\ item.ports[1] > 0 /\ item.ports[2] <= PortMax
          /\ item.ports[1] <= port /\ port <= item.ports[2]
    /\ Fills(item.host.pattern, host)

\* The first of the best items among those that fit.
Best(fit, Weight(_)) ==
    CHOOSE i \in fit : \A j \in fit : \/ Weight(i) > Weight(j)
                                      \/ Weight(i) = Weight(j) /\ i <= j

\* matchIP and matchTCP scan sorted rules and stop at the first that fits; a
\* rule whose port does not fit must not hide a later one, and the search for
\* the parts of a pattern never goes back.  The grant found is that of the item
\* of the document that fits best (longest prefix, own protocol before all;
\* name without star, longest pattern; then the first), and there is a grant
\* exactly if an item permits the destination.
MatchIsBestRule ==
    table # NoTable =>
        LET items == doc.items
            ip(i) == 2 * items[i].host.bits + (IF items[i].protocol = "all" THEN 0 ELSE 1)
            name(i) == IF Stars(items[i].host.pattern) = 0 THEN MaxNameBytes + 1
                       ELSE Letters(items[i].host.pattern)
        IN /\ \A dst \in Remotes, proto \in {"tcp", "udp", "icmp"}, port \in Ports :
                LET fit == {i \in DOMAIN items : Permits(items[i], dst, proto, port)}
                IN matchIP(table, dst, proto, port) =
                        IF fit = {} THEN NoGrant ELSE Grant(items[Best(fit, ip)])
           /\ \A host \in Hosts, port \in Ports :
                LET fit == {i \in DOMAIN items : PermitsHost(items[i], host, port)}
                    got == matchDomain(table, host, port)
                IN IF fit = {} THEN got = NoGrant
                   ELSE got.grant = Grant(items[Best(fit, name)])

\* candidateNodes lists every usable node of the document once, however it is
\* written and in however many groups, in the order of its best place: the
\* preferred group, the major group, the others, and WAN before LAN in each.
NodesInOrder ==
    table # NoTable => \A preferred \in Range(Groups) :
        LET order == <<preferred, table.majorGroup>> \o Groups
            usable == {i \in DOMAIN doc.nodes : UsableNode(doc.nodes[i])}
            places(addr) ==
                {p \in 2 .. 2 * Len(order) + 1 : \E i \in usable :
                    /\ NodeAddress(doc.nodes[i]) = addr
                    /\ order[p \div 2] = doc.nodes[i].group
                    /\ (p % 2 = 0) <=> (doc.nodes[i].type = "wan")}
            list == candidateNodes(table, preferred)
        IN /\ Range(list) = {NodeAddress(doc.nodes[i]) : i \in usable}
           /\ \A i, j \in DOMAIN list : i < j =>
                list[i] # list[j] /\ Min(places(list[i])) <= Min(places(list[j]))

-----------------------------------------------------------------------------
(* The inductive invariants behind them, for DataPathProofs.                *)

\* Packets and quoted headers as the campus and the peer can make them.
NonZeroWord == Word \ {0}
QuotedHeader == [src : Address, dst : Address, rest : NonZeroWord, csum : Word]
Packet == [src : Address, dst : Address, rest : NonZeroWord, csum : Word,
           proto : {"tcp", "udp", "icmp", "other"}, port : Ports \cup {0},
           frag : {"no", "first", "tail"}, whole : BOOLEAN,
           tsum : Word, body : NonZeroWord,
           inner : {NoQuote} \cup QuotedHeader]

\* A packet that was let through and what came out on the other side.
Underway(s, w) ==
    /\ s \in Packet /\ w \in Packet /\ Kept(s, w) /\ w.rest = s.rest
    /\ s.src = PeerIP => s.dst \in Remotes /\ w.dst = s.dst
    /\ s.src # PeerIP => s.src \in Remotes /\ w.src = s.src /\ w.dst = PeerIP

\* The inductive invariant: the packet under way is one of its two sides', what came out is
\* accepted like it, and so is the error about it, which came home.
PathInv ==
    /\ local \in Publics \cup {Unassigned}
    /\ sent # NoPacket => Underway(sent, seen)
    /\ sent = NoPacket => reply = NoPacket /\ home = NoPacket
    /\ reply # NoPacket => Kept(reply, home)
    /\ ErrorsComeHome

\* The inductive invariant of the session: its table is that of its document.
TableInv == table # NoTable => doc \in Docs /\ table = parseResourceTable(doc)
=============================================================================
