----------------------------- MODULE MCDataPath -----------------------------
EXTENDS DataPath

\* Words of two bits, so that sums wrap often.
MCPeerIP == <<1, 2>>
MCPublics == {<<3, 0>>, <<2, 3>>}
MCRemotes == {<<0, 3>>, <<0, 1>>}
MCGroups == <<"g1", "g2">>

\* Names of up to three letters.
MCHosts == UNION {[1 .. n -> {"a", "b"}] : n \in 1 .. 3}

Address4(bits, addr) == [kind |-> "ip", bits |-> bits, addr |-> addr]
Name(pattern) == [kind |-> "domain", pattern |-> pattern]
ItemOf(host, protocol, ports, app) ==
    [host |-> host, protocol |-> protocol, ports |-> ports, app |-> app,
     model |-> "L3VPN", group |-> "g1", pretend |-> FALSE, ips |-> {"ip"}]

IPItems == {ItemOf(Address4(bits, <<0, 3>>), protocol, ports, app) :
    bits \in {0, 1, 2}, protocol \in {"tcp", "all"},
    ports \in {<<0, 0>>, <<2, 2>>}, app \in {"app1", "app2"}}
NameItems == {ItemOf(Name(pattern), "all", <<0, 0>>, app) :
    app \in {"app1", "app2"},
    pattern \in {<<<<"a", "b">>>>, <<<<"a">>, <<"a">>>>, <<<<>>, <<"a", "b">>, <<"b">>>>,
                 <<<<>>, <<"a">>, <<>>>>, <<<<"b">>, <<>>, <<>>>>}}
\* Items that give no rule: no application, a bad range, a range beyond the last
\* port, another protocol, no address to dial.
DeadItems == {
    [ItemOf(Address4(0, <<0, 0>>), "all", <<0, 0>>, "app1") EXCEPT !.model = "L7"],
    ItemOf(Address4(0, <<0, 0>>), "all", <<0, 0>>, ""),
    ItemOf(Address4(0, <<0, 0>>), "tcp", <<2, 1>>, "app1"),
    ItemOf(Address4(0, <<0, 0>>), "all", <<1, 65536>>, "app1"),
    ItemOf(Name(<<<<"a">>>>), "tcp", <<1, 65536>>, "app1"),
    ItemOf(Address4(0, <<0, 0>>), "sctp", <<0, 0>>, "app1"),
    ItemOf(Address4(0, <<0, 0>>), "icmp", <<0, 0>>, "app1"),
    [ItemOf(Name(<<<<"a">>>>), "tcp", <<0, 0>>, "app1") EXCEPT !.ips = {}],
    ItemOf(Name(<<<<"a">>>>), "udp", <<0, 0>>, "app1")}

NodeOf(host, port, type, group) ==
    [host |-> host, port |-> port, type |-> type, group |-> group]
\* The last three are skipped.
Nodes == {NodeOf("{{sdpcHost}}", NoPort, "wan", "g1"), NodeOf("server", 441, "lan", "g2"),
          NodeOf("server", 441, "lan", "g1"), NodeOf("other", NoPort, "wan", "g2"),
          NodeOf("other", NoPort, "lan", "g1"), NodeOf("other", 442, "other", "g1"),
          NodeOf("other", 0, "wan", "g1"), NodeOf("no_host", 441, "wan", "g1")}

Doc(items, nodes, major) ==
    [items |-> items, nodes |-> nodes, major |-> major, wellFormed |-> TRUE]
Upto(S, n) == UNION {[1 .. k -> S] : k \in 0 .. n}

MCTrafficDocs == {Doc(<<it>>, <<>>, "g1") : it \in
    {ItemOf(Address4(0, <<0, 0>>), "all", <<0, 0>>, "app1"),
     ItemOf(Address4(2, <<0, 3>>), "tcp", <<2, 2>>, "app2")}}

MCDocs ==
    UNION {{Doc(s, <<>>, "g1") : s \in Upto(IPItems, 2)},
           {Doc(s, <<>>, "g1") : s \in Upto(NameItems \cup DeadItems, 2)},
           {Doc(<<>>, s, major) : s \in Upto(Nodes, 3), major \in {"g1", "g2", ""}},
           {Doc([i \in 1 .. 3 |-> it], <<>>, "g1") : it \in IPItems},
           {Doc(<<>>, [i \in 1 .. 4 |-> n], "g1") : n \in Nodes},
           {[Doc(<<>>, <<>>, "g1") EXCEPT !.wellFormed = FALSE]},
           MCTrafficDocs}
=============================================================================
