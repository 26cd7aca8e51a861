----------------------------- MODULE Resources -----------------------------
(* The resource table of src/internal/ztna: resource_parse.go turns the     *)
(* document the campus sends into sorted rules and node groups, resource.go *)
(* finds the rule for a destination and lists the nodes to try.  The        *)
(* operators are pure; module DataPath publishes tables with them.          *)
(*                                                                          *)
(* A document is a sequence of addresses, each with the fields of its       *)
(* application, and a sequence of nodes.  An IPv4 host is a prefix counted  *)
(* in words, a name is a sequence of letters, and a pattern the sequence of *)
(* its literal parts between the stars.                                     *)
EXTENDS Integers, FiniteSets, Sequences, FiniteSetsExt, Functions

CONSTANTS
    PortMax,        \* the largest port: 65535 in the code
    MaxAddresses,   \* maxResourceAddresses
    MaxNodes,       \* maxResourceNodes
    Groups,         \* the identities of node groups, in their order
    ValidHosts,     \* the hosts ValidHostPort accepts: by their letters, or an IP address
    ServerHost,     \* the host that "{{sdpcHost}}" stands for
    Letter          \* what names are made of

\* The longest name and the most stars of a pattern, of domain/name.go.
MaxNameBytes == 253
MaxPatternStars == 8

ASSUME ResourcesAssumption ==
    /\ PortMax \in Nat \ {0} /\ MaxAddresses \in Nat /\ MaxNodes \in Nat
    /\ Groups \in Seq(STRING)

Names == Seq(Letter)

\* The places of the letters of a pattern: part, place in the part.
LetterPlaces(pattern) == UNION {{i} \X DOMAIN pattern[i] : i \in DOMAIN pattern}
Stars(pattern) == Len(pattern) - 1
Letters(pattern) == Cardinality(LetterPlaces(pattern))
Patterns == {pattern \in Seq(Names) :
    /\ pattern # <<>> /\ Stars(pattern) <= MaxPatternStars
    /\ Letters(pattern) + Stars(pattern) \in 1 .. MaxNameBytes}

Hosts4 == [kind : {"ip"}, bits : 0 .. 2, addr : Nat \X Nat]
HostNames == [kind : {"domain"}, pattern : Patterns]
Item == [host : Hosts4 \cup HostNames, protocol : STRING, ports : Nat \X Nat,
         app : STRING, model : STRING, group : STRING,
         pretend : BOOLEAN, ips : SUBSET STRING]
NoPort == -1       \* a node's address has no colon
Node == [host : STRING, port : Nat \cup {NoPort}, type : STRING, group : Range(Groups)]
Document == [items : Seq(Item), nodes : Seq(Node), major : STRING, wellFormed : BOOLEAN]

NoGrant == [app |-> ""]
NoTable == [ipRules |-> <<>>, domainRules |-> <<>>]

-----------------------------------------------------------------------------
(* Parsing.                                                                 *)

\* An empty or zero port, here <<0, 0>>, is any port; a range must be one, of ports
\* of 16 bits.
parsePortRange(spec) ==
    CASE spec = <<0, 0>> -> <<1, PortMax>>
      [] spec[1] > 0 /\ spec[1] <= spec[2] /\ spec[2] <= PortMax -> spec
      [] OTHER -> <<>>

Accepted(item) == item.model = "L3VPN" /\ item.app # ""

\* An address that becomes a rule: of an accepted application, with a protocol
\* and ports the program knows.
Usable(item) ==
    /\ Accepted(item)
    /\ item.protocol \in {"tcp", "udp", "all"}
    /\ parsePortRange(item.ports) # <<>>

\* The prefix is masked: words beyond its length do not count.
Masked(host) == [bits |-> host.bits,
                 addr |-> [i \in 1..2 |-> IF i <= host.bits THEN host.addr[i] ELSE 0]]

Grant(item) == [app |-> item.app, group |-> item.group]

IPRule(item) == [prefix |-> Masked(item.host), protocol |-> item.protocol,
                 ports |-> parsePortRange(item.ports), grant |-> Grant(item)]

\* A name is reached over TCP only, and unless the address is pretended it needs
\* an address to dial.
UsableDomain(item) ==
    item.protocol # "udp" /\ (item.pretend \/ item.ips # {})

DomainRule(item) == [pattern |-> item.host.pattern,
                     ports |-> parsePortRange(item.ports), grant |-> Grant(item),
                     dialIPs |-> IF item.pretend THEN {} ELSE item.ips]

\* The members of a set in the order that "before" gives, a set of pairs.
Enumerate(S, before) ==
    LET place(x) == 1 + Cardinality({y \in S : <<y, x>> \in before})
    IN [k \in 1 .. Cardinality(S) |-> CHOOSE x \in S : place(x) = k]

\* slices.SortStableFunc over places: what compares equal stays as it was.
SortStable(places, less) ==
    Enumerate(places, {p \in places \X places :
        p \in less \/ (p[1] < p[2] /\ <<p[2], p[1]>> \notin less)})

AddressBefore(a, b) == \/ a[1] < b[1]
                       \/ a[1] = b[1] /\ a[2] < b[2]

\* Longer prefixes first, then a given protocol before all protocols.
IPBefore(a, b) ==
    \/ a.prefix.bits > b.prefix.bits
    \/ /\ a.prefix.bits = b.prefix.bits
       /\ \/ AddressBefore(a.prefix.addr, b.prefix.addr)
          \/ a.prefix.addr = b.prefix.addr /\ a.protocol # "all" /\ b.protocol = "all"

\* Names without a star first, then the longer pattern.
DomainBefore(a, b) ==
    \/ Stars(a.pattern) = 0 /\ Stars(b.pattern) > 0
    \/ /\ Stars(a.pattern) > 0 /\ Stars(b.pattern) > 0
       /\ Letters(a.pattern) > Letters(b.pattern)

ipRules(items) ==
    LET found == {i \in DOMAIN items : Usable(items[i]) /\ items[i].host.kind = "ip"}
        rule == [i \in found |-> IPRule(items[i])]
        sorted == SortStable(found, {p \in found \X found : IPBefore(rule[p[1]], rule[p[2]])})
    IN [k \in DOMAIN sorted |-> rule[sorted[k]]]

domainRules(items) ==
    LET found == {i \in DOMAIN items : /\ Usable(items[i]) /\ items[i].host.kind = "domain"
                                       /\ UsableDomain(items[i])}
        rule == [i \in found |-> DomainRule(items[i])]
        sorted == SortStable(found, {p \in found \X found : DomainBefore(rule[p[1]], rule[p[2]])})
    IN [k \in DOMAIN sorted |-> rule[sorted[k]]]

\* A node's address as the table keeps it: the placeholder is the server's host
\* and a missing port is 441.
NodeAddress(node) ==
    <<IF node.host = "{{sdpcHost}}" THEN ServerHost ELSE node.host,
      IF node.port = NoPort THEN 441 ELSE node.port>>

ValidHostPort(addr) == addr[1] \in ValidHosts /\ addr[2] \in 1 .. PortMax

\* The nodes that are not skipped.
UsableNode(node) == ValidHostPort(NodeAddress(node)) /\ node.type \in {"wan", "lan"}

WanBefore(a, b) == a.type = "wan" /\ b.type # "wan"

Ascending(places) == {p \in places \X places : p[1] < p[2]}

\* Mutant: addresses join a list however often they are written.
OnceAlways(at, before) ==
    LET list == Enumerate(DOMAIN at, before)
    IN [k \in DOMAIN list |-> at[list[k]]]

\* The loops that go through addresses in an order and append those they have
\* not seen: each address stands where it is met first.
Once(at, before) ==
    LET first == {x \in DOMAIN at : \A y \in DOMAIN at : <<y, x>> \in before => at[y] # at[x]}
        list == Enumerate(first, before)
    IN [k \in DOMAIN list |-> at[list[k]]]

\* The nodes of one group, WAN before LAN.
nodeGroup(nodes, group) ==
    LET ours == {n \in DOMAIN nodes : nodes[n].group = group /\ UsableNode(nodes[n])}
        sorted == SortStable(ours, {p \in ours \X ours : WanBefore(nodes[p[1]], nodes[p[2]])})
    IN Once([k \in DOMAIN sorted |-> NodeAddress(nodes[sorted[k]])], Ascending(DOMAIN sorted))

\* A document that is too large, has a field that is too long or a DNS server
\* that is not IPv4 gives no table at all.
parseResourceTable(doc) ==
    IF ~doc.wellFormed \/ Len(doc.items) > MaxAddresses \/ Len(doc.nodes) > MaxNodes
    THEN NoTable
    ELSE [ipRules |-> ipRules(doc.items), domainRules |-> domainRules(doc.items),
          nodeGroups |-> [g \in Range(Groups) |-> nodeGroup(doc.nodes, g)],
          majorGroup |-> doc.major]

-----------------------------------------------------------------------------
(* Matching.                                                                *)

Covers(prefix, dst) == \A i \in 1 .. prefix.bits : prefix.addr[i] = dst[i]

InRange(port, ports) == ports[1] <= port /\ port <= ports[2]

\* The condition the loop of matchIP tests for one rule; ICMP has no port.
IPMatches(rule, dst, proto, port) ==
    /\ Covers(rule.prefix, dst)
    /\ rule.protocol \in {"all", proto}
    /\ proto = "icmp" \/ InRange(port, rule.ports)

\* Mutant: the first rule for the destination decides, whatever its ports.
matchIPFirstPrefix(table, dst, proto, port) ==
    LET near == {k \in DOMAIN table.ipRules :
                    /\ Covers(table.ipRules[k].prefix, dst)
                    /\ table.ipRules[k].protocol \in {"all", proto}}
    IN IF near # {} /\ IPMatches(table.ipRules[Min(near)], dst, proto, port)
       THEN table.ipRules[Min(near)].grant ELSE NoGrant

matchIP(table, dst, proto, port) ==
    LET hits == {k \in DOMAIN table.ipRules : IPMatches(table.ipRules[k], dst, proto, port)}
    IN IF hits = {} THEN NoGrant ELSE table.ipRules[Min(hits)].grant

Lost == -1

\* Whether part stands in host after its first i letters.
Stands(part, host, i) ==
    i + Len(part) <= Len(host) /\ SubSeq(host, i + 1, i + Len(part)) = part

\* strings.Index: the first place at or after from where part stands in host.
Index(host, part, from) ==
    LET at == {i \in from .. Len(host) : Stands(part, host, i)}
    IN IF at = {} THEN Lost ELSE Min(at)

\* The parts between stars are found one after the other, never going back:
\* where each part but the last one ends.
Ends(pattern, host) ==
    LET end[i \in 1 .. Len(pattern) - 1] ==
            IF i = 1 THEN IF Stands(pattern[1], host, 0) THEN Len(pattern[1]) ELSE Lost
            ELSE IF end[i - 1] = Lost \/ Index(host, pattern[i], end[i - 1]) = Lost THEN Lost
            ELSE Index(host, pattern[i], end[i - 1]) + Len(pattern[i])
    IN end

matches(pattern, host) ==
    LET last == pattern[Len(pattern)]
        end == Ends(pattern, host)[Len(pattern) - 1]
    IN IF Len(pattern) = 1 THEN host = last
       ELSE /\ end # Lost /\ end + Len(last) <= Len(host)
            /\ Stands(last, host, Len(host) - Len(last))

matchDomain(table, host, port) ==
    LET hits == {k \in DOMAIN table.domainRules :
                    /\ InRange(port, table.domainRules[k].ports)
                    /\ matches(table.domainRules[k].pattern, host)}
    IN IF hits = {} THEN NoGrant
       ELSE [grant |-> table.domainRules[Min(hits)].grant,
             dialIPs |-> table.domainRules[Min(hits)].dialIPs]

\* The nodes of the preferred group, of the major one and of the others in
\* order, each address once.
candidateNodes(table, preferred) ==
    LET order == <<preferred, table.majorGroup>> \o Groups
        nodes(g) == IF order[g] \in Range(Groups) THEN table.nodeGroups[order[g]] ELSE <<>>
        spots == UNION {{g} \X DOMAIN nodes(g) : g \in DOMAIN order}
    IN Once([x \in spots |-> nodes(x[1])[x[2]]],
            {p \in spots \X spots : \/ p[1][1] < p[2][1]
                                    \/ p[1][1] = p[2][1] /\ p[1][2] < p[2][2]})
=============================================================================
