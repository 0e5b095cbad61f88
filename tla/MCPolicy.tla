------------------------------ MODULE MCPolicy ------------------------------
(***************************************************************************)
(* Families of worlds for TLC, each around one part of a policy.  Addresses*)
(* are 0 (localhost) to 5, ports 1 to 4; containers have 1, 2 and 3, or 3  *)
(* and 4 are gateways; 5, the greatest, is a host outside.  Networks are   *)
(* 1 and 2; 11 is the network 1 of Compose project 1; 9 is the host's.     *)
(***************************************************************************)
EXTENDS Policy, TLC

CONSTANTS a, b, c

MCComposeName == [x \in {0, 1, 2} \X {1, 2, 9, 11, Blank} |->
    IF x[1] # 0 /\ x[2] \in {1, 2} THEN 10 * x[1] + x[2] ELSE NoNet]

E(id, addr) == [id |-> id, addr |-> addr, ipv6 |-> FALSE, gateway |-> NoAddr, priority |-> 0]
R(network) ==
    [network |-> network, ips |-> Unset, container |-> Unset, containers |-> Unset, proto |-> Unset,
     srcPorts |-> Unset, dstPorts |-> Unset, verdict |-> "return", log |-> FALSE]
To(port) == [R(Unset) EXCEPT !.proto = "tcp", !.dstPorts = <<Single(port)>>]
Cfg(output) ==
    [output |-> output, localAllow |-> FALSE, localLog |-> FALSE, localVerdict |-> "return",
     externalAllow |-> FALSE, externalIPs |-> <<>>, externalLog |-> FALSE, externalVerdict |-> "return"]
C(name, nets, scope, rules) ==
    [name |-> name, service |-> Unset, project |-> NoProject, enabled |-> "true", nets |-> nets,
     scope |-> scope, rules |-> rules, ports |-> {}]
One(d) == a :> d
UpTo(S, n) == UNION {[1..k -> S] : k \in 1..n}

\* Scopes: two or three networks, sound or with one of the flaws an endpoint can
\* have, and every label of up to two entries.
Endpoints(n, addr) ==
    {E(n, addr), E(n, 1), E(n, NoAddr), E(NoNetID, addr), E(1, addr), [E(n, addr) EXCEPT !.ipv6 = TRUE], NoEndpoint}
Attached ==
    UNION {{1 :> e @@ 2 :> f : e \in Endpoints(1, 1), f \in Endpoints(2, 2)},
           {1 :> e @@ 11 :> f : e \in Endpoints(1, 1), f \in Endpoints(11, 3)},
           {11 :> e @@ 2 :> f : e \in Endpoints(11, 3), f \in Endpoints(2, 2)},
           {1 :> E(1, 1) @@ 2 :> e @@ 11 :> f : e \in {E(2, 2), E(2, 3)}, f \in {E(11, 3), E(2, 3)}},
           {2 :> e : e \in Endpoints(2, 2)}, {9 :> E(9, NoAddr) @@ 2 :> E(2, 2)}, {9 :> E(9, NoAddr)}, {<<>>}}
Labels == {AllNetworks} \cup UpTo({1, 2, 11, Blank}, 2) \cup {<<9>>}
ScopeWorlds ==
    {One([C(31, nets, label, Cfg(<<To(2)>>)) EXCEPT !.project = p]) : nets \in Attached, label \in Labels, p \in {0, 1}}
    \cup {One([C(31, 1 :> E(1, 1), AllNetworks, cfg) EXCEPT !.enabled = e]) :
            cfg \in {Unset, Unreadable, Cfg(<<To(2)>>)}, e \in {"true", "false", "invalid"}}

\* Selectors: lists of addresses and of ports.
Entries(low, top) == {Single(v) : v \in low..top} \cup {RangeOf(x[1], x[2]) : x \in {y \in (low..top) \X (low..top) : y[1] <= y[2]}}
AddrLists == UpTo(Entries(0, AddrTop), 2) \cup [1..3 -> {e \in Entries(1, AddrTop) : e.low \in {1, 3, 5} /\ e.high # 4}]
PortLists == UpTo(Entries(1, PortTop), 2) \cup [1..3 -> {e \in Entries(1, PortTop) : e.range /\ e.low # 3}]
Sends(r) == One(C(31, 1 :> E(1, 1), AllNetworks, Cfg(<<r>>)))
SelectorWorlds ==
    {Sends([R(1) EXCEPT !.ips = s]) : s \in AddrLists}
    \cup {Sends([To(2) EXCEPT !.dstPorts = s]) : s \in PortLists}
    \cup {Sends([To(2) EXCEPT !.srcPorts = s, !.log = l]) : s \in UpTo(Entries(1, PortTop), 1), l \in BOOLEAN}

\* Rules: which fields are there.
RuleWorlds ==
    {Sends([network |-> n, ips |-> i, container |-> d, containers |-> ds, proto |-> p, srcPorts |-> s,
            dstPorts |-> t, verdict |-> v, log |-> FALSE]) :
        n \in {Unset, 1, 2}, i \in {Unset, <<>>, <<Single(4)>>}, d \in {Unset, Blank, 21},
        ds \in {Unset, <<>>, <<21>>, <<21, 22>>, <<21, 21>>, <<Blank>>}, p \in {Unset, "udp"},
        s \in {Unset, <<Single(1)>>}, t \in {Unset, <<>>, <<Single(2)>>}, v \in {"return"}}
    \cup {Sends([To(2) EXCEPT !.verdict = v]) : v \in {"chain", "queue"}}

\* Published ports: gateways and priorities, scopes, bindings, and what
\* mapped_ports says.
Gated(e, gw, prio) == [e EXCEPT !.gateway = gw, !.priority = prio]
PortNets ==
    {1 :> Gated(E(1, 1), 3, p) @@ 2 :> Gated(E(2, 2), g, q) : p \in {0, 1}, g \in {4, NoAddr}, q \in {0, 1}}
    \cup {1 :> Gated(E(1, 1), g, 0) : g \in {3, NoAddr}}
Binding(ip) == [ip |-> ip, port |-> 4]
Port(n, proto, bindings) == [port |-> n, proto |-> proto, bindings |-> bindings]
PortSets ==
    {{Port(2, "tcp", {Binding(ip)})} : ip \in {AnyAddr, LocalAddr, 5, NoAddr}}
    \cup {{Port(2, "tcp", {Binding(AnyAddr), Binding(5)}), Port(1, "tcp", {})},
          {Port(2, "tcp", {[Binding(AnyAddr) EXCEPT !.port = NoPort]})},
          {Port(2, "tcp", {}), Port(1, "udp", {[Binding(5) EXCEPT !.port = NoPort]}), Port(1, "tcp", {[Binding(LocalAddr) EXCEPT !.port = 2]})},
          {Port(2, "sctp", {Binding(AnyAddr)})}, {}}
MappedPorts ==
    {[Cfg(<<To(1)>>) EXCEPT !.localAllow = la, !.externalAllow = ea, !.externalIPs = ips, !.externalLog = la] :
        la \in BOOLEAN, ea \in BOOLEAN, ips \in {<<>>, <<Single(5)>>, <<RangeOf(4, 5)>>}}
    \cup {Unset, [Cfg(<<>>) EXCEPT !.localVerdict = "queue"], [Cfg(<<>>) EXCEPT !.externalVerdict = "chain"]}
PortWorlds ==
    {One([C(31, nets, label, cfg) EXCEPT !.ports = ports]) :
        nets \in PortNets, label \in {AllNetworks, <<1>>, <<2>>, <<1, 2>>}, cfg \in MappedPorts, ports \in PortSets}

\* Peers: a names 21; b and c bear it, or do not.
Peer(name, service, project, addr, net) ==
    [C(name, net :> E(7, addr), AllNetworks, Unset) EXCEPT !.service = service, !.project = project]
PeerRule == [To(2) EXCEPT !.network = 1]
Sources ==
    {[C(31, 1 :> E(7, 1), AllNetworks, Cfg(<<[PeerRule EXCEPT !.container = 21]>>)) EXCEPT !.project = p] : p \in {0, 1}}
    \cup {C(31, 1 :> E(7, 1), AllNetworks, Cfg(<<[PeerRule EXCEPT !.containers = <<21, 22>>], To(1)>>))}
Bs == {[Peer(32, 21, p, 2, 1) EXCEPT !.enabled = e] : p \in {1, 2}, e \in {"true", "false", "invalid"}}
      \cup {[Peer(32, 21, 1, 2, 1) EXCEPT !.rules = Cfg(<<[PeerRule EXCEPT !.container = 31]>>)]}
Cs == {Peer(21, Unset, 0, 3, 1), Peer(22, Unset, 2, 3, 1), Peer(33, 21, 1, 3, 11),
       [Peer(33, 21, 1, 3, 1) EXCEPT !.nets = 1 :> E(8, 3) @@ 2 :> E(7, 2), !.scope = <<1>>]}
PeerWorlds == {a :> s @@ b :> x @@ c :> y : s \in Sources, x \in Bs, y \in Cs}
\* Those in which every label is sound.
ReplicaWorlds == {w \in PeerWorlds : \A d \in DOMAIN w : w[d].enabled = "true"}

MCWorlds == ScopeWorlds \cup SelectorWorlds \cup RuleWorlds \cup PortWorlds \cup PeerWorlds

MCPackets ==
    {[src |-> s, dst |-> d, proto |-> pr, sport |-> x[1], dport |-> x[2], st |-> st] :
        s \in Addrs, d \in Addrs, pr \in {"tcp", "udp"},
        x \in {<<1, 2>>, <<2, 1>>, <<1, 4>>, <<4, 1>>, <<4, 2>>}, st \in {"new", "est"}}
=============================================================================
