------------------------------- MODULE Policy -------------------------------
(***************************************************************************)
(* What a policy becomes: from the labels of a container, its networks and *)
(* published ports, and the containers its rules name, to the rules of the *)
(* chains, and from these to the fate of a packet.                         *)
(*                                                                         *)
(* Here a create or a delete is one step whose calls succeed; what happens *)
(* between its steps, and when one fails, is RuleManager's subject.        *)
(* Containers have addresses of their own and names of their own.  Log     *)
(* statements and the NFQUEUE variants of a rule are left out: the latter  *)
(* stand behind a verdict that validateVerdict refuses.                    *)
(***************************************************************************)
EXTENDS Integers, Selectors, NetworkScope

CONSTANTS
    Ids,        \* container IDs
    None,       \* no container
    Unset,      \* a field or a label that is not there
    Unreadable, \* a rules label that the strict decoder refuses
    NoProject,  \* no Compose project
    LocalAddr,  \* 127.0.0.1
    AnyAddr,    \* 0.0.0.0, as the host address of a published port
    NoPort,     \* a host port that does not parse as one
    Worlds,     \* what Docker may report of the containers
    Packets     \* the packets that are tried

VARIABLES
    world,    \* labels, networks and ports of each container (Docker; constant)
    running,  \* running containers (Docker)
    rows,     \* table containers
    waiting,  \* table waiting_container_rules
    chain,    \* rules of each container's chain; <<>> without a chain
    main,     \* localhost drops in the whalewall chain, behind the dispatchers
    vmap,     \* the verdict map
    last      \* the create that was the last step, if it was one (history)

vars == <<world, running, rows, waiting, chain, main, vmap, last>>

Addrs == 0..AddrTop
Ports == 0..PortTop

-----------------------------------------------------------------------------
(* What Docker may report of a container, and what the decoders let through *)

IsSequence(s) == s \in Seq(ToSet(s))

EndpointOK(e) ==
    e = NoEndpoint \/ e \in [id : {e.id}, addr : {NoAddr} \cup Addrs, ipv6 : BOOLEAN,
                             gateway : {NoAddr} \cup Addrs, priority : Int]

\* A rule with all its fields; a list of containers is one of names.
RuleOK(r) ==
    /\ r \in [network : {r.network}, ips : {Unset} \cup Lists(AddrTop), container : {r.container},
              containers : {r.containers}, proto : {r.proto}, srcPorts : {Unset} \cup Lists(PortTop),
              dstPorts : {Unset} \cup Lists(PortTop), verdict : {r.verdict}, log : BOOLEAN]
    /\ r.containers # Unset => IsSequence(r.containers) /\ Unset \notin ToSet(r.containers)

ConfigOK(cfg) ==
    /\ IsSequence(cfg.output) /\ \A r \in ToSet(cfg.output) : RuleOK(r)
    /\ {cfg.localAllow, cfg.localLog, cfg.externalAllow, cfg.externalLog} \subseteq BOOLEAN
    /\ cfg.externalIPs \in Lists(AddrTop)

\* A port number and protocol is reported once.
PortsOK(ports) ==
    /\ IsFiniteSet(ports)
    /\ \A p \in ports : /\ p \in [port : Ports, proto : {p.proto}, bindings : {p.bindings}]
                        /\ IsFiniteSet(p.bindings) /\ \A b \in p.bindings : b.port \in {NoPort} \cup Ports
    /\ \A p, q \in ports : p.port = q.port /\ p.proto = q.proto => p = q

\* A label that is there is not empty.  The networks of a container with ports give
\* it different addresses (README: "Do not use overlapping IPv4 addresses or subnets
\* across Docker networks on the host").  The code checks this under an explicit scope
\* only; with one address on two networks the external allow of one would stand before
\* the localhost drop of the other.
ContainerOK(d) ==
    /\ d.nets = [n \in DOMAIN d.nets |-> d.nets[n]] /\ IsFiniteSet(DOMAIN d.nets) /\ DOMAIN d.nets \subseteq Nat
    /\ \A n \in DOMAIN d.nets : EndpointOK(d.nets[n])
    /\ d.scope = AllNetworks \/ (IsSequence(d.scope) /\ d.scope # <<>>)
    /\ d.rules \in {Unset, Unreadable} \/ ConfigOK(d.rules)
    /\ PortsOK(d.ports)
    /\ d.ports # {} => \A n, m \in Usable(d.nets) : d.nets[n].addr = d.nets[m].addr => n = m

ManagedAddrs(d) == Range(policyScope(d.scope, d.project, d.nets).addrs)

ASSUME ConstantsAssumption ==
    /\ None \notin Ids /\ "whalewall" \notin Ids
    /\ NoNet \notin Nat /\ NoAddr \notin Addrs /\ LocalAddr \in Addrs
    /\ Unset \notin {"tcp", "udp"} /\ Unset \notin {<<Single(v)>> : v \in Ports}

\* There are finitely many containers, with addresses of their own where managed (the
\* same sentence of the README).
ASSUME WorldsAssumption ==
    \A w \in Worlds :
        /\ DOMAIN w \subseteq Ids /\ IsFiniteSet(DOMAIN w)
        /\ \A d \in DOMAIN w : ContainerOK(w[d])
        /\ \A d, e \in DOMAIN w : d # e => ManagedAddrs(w[d]) \cap ManagedAddrs(w[e]) = {}

ASSUME PacketsAssumption ==
    \A p \in Packets : p \in [src : Addrs, dst : Addrs, proto : {p.proto}, sport : Ports, dport : Ports,
                             st : {"new", "est"}]

-----------------------------------------------------------------------------
(* Docker's view of a container *)

Project(c) == world[c].project

\* A stopped container keeps its attachments and has no address.
Nets(c) ==
    IF c \in running THEN world[c].nets
    ELSE [n \in DOMAIN world[c].nets |->
            IF world[c].nets[n] = NoEndpoint THEN NoEndpoint
            ELSE [world[c].nets[n] EXCEPT !.addr = NoAddr]]

Scope(c) == policyScope(world[c].scope, Project(c), Nets(c))
Peers == [d \in DOMAIN world |-> resolveValidManagedNetworks(world[d].scope, Project(d), Nets(d))]

\* With an invalid opt-in label the rules label is dropped.
RulesLabel(c) == IF world[c].enabled = "invalid" THEN Unset ELSE world[c].rules

-----------------------------------------------------------------------------
(* config.go *)

validateVerdict(verdict) == verdict \in {"chain", "queue"}

\* Mutant: a list that is there and empty is taken for one that is not there.
HasIPs_NonEmpty(r) == r.ips \notin {Unset, <<>>}

\* Presence is recorded when the YAML is decoded, apart from the value.
HasIPs(r) == r.ips # Unset
HasContainer(r) == r.container # Unset
HasContainers(r) == r.containers # Unset

Repeats(s) == \E i, j \in DOMAIN s : i < j /\ s[i] = s[j]
NonEmpty(s) == s \notin {Unset, <<>>}

\* The rule is refused.
validateRule(r) ==
    \/ Quantify({"ips", "container", "containers"}, LAMBDA f : r[f] # Unset) > 1
    \/ HasContainers(r) /\ (r.containers = <<>> \/ Blank \in ToSet(r.containers) \/ Repeats(r.containers))
    \/ HasContainer(r) /\ r.container = Blank
    \/ HasIPs(r) /\ r.ips = <<>>
    \/ /\ ~NonEmpty(r.ips) /\ ~HasContainer(r) /\ ~HasContainers(r)
       /\ r.proto = Unset /\ ~NonEmpty(r.srcPorts) /\ ~NonEmpty(r.dstPorts)
    \/ r.network = Unset /\ (HasContainer(r) \/ HasContainers(r))
    \/ r.proto = Unset /\ (NonEmpty(r.srcPorts) \/ NonEmpty(r.dstPorts))
    \/ r.proto # Unset /\ ~NonEmpty(r.dstPorts)
    \/ validateVerdict(r.verdict)

validateConfig(cfg) ==
    \/ validateVerdict(cfg.localVerdict) \/ validateVerdict(cfg.externalVerdict)
    \/ \E r \in ToSet(cfg.output) : validateRule(r)

\* A list of containers becomes one rule for each, in place and in order.
Expanded(r) ==
    IF ~HasContainers(r) THEN <<r>>
    ELSE [i \in DOMAIN r.containers |-> [r EXCEPT !.container = r.containers[i], !.containers = Unset]]
normalizeConfig(cfg) == FlattenSeq([i \in DOMAIN cfg.output |-> Expanded(cfg.output[i])])

-----------------------------------------------------------------------------
(* populateOutputRules *)

\* 2 for a container's name, 1 for its Compose service as seen from a project.
containerNameMatchRank(name, project, d) ==
    IF name = Unset THEN 0
    ELSE IF name = world[d].name THEN 2
    ELSE IF name = world[d].service /\ project \in {NoProject, Project(d)} THEN 1
    ELSE 0

BestMatches(r, project) ==
    LET rank == [d \in running |-> containerNameMatchRank(r.container, project, d)]
    IN  {d \in running : rank[d] > 0 /\ \A o \in running : rank[o] <= rank[d]}

\* Containers among them that manage the network on which the source sends.
Candidates(r, project, nets, peers) ==
    LET src == findNetwork(r.network, project, nets)
        dst(d) == findNetwork(r.network, Project(d), peers[d].nets)
    IN  {d \in BestMatches(r, project) :
            dst(d) # NoNet /\ sameDockerNetwork(src, nets[src], dst(d), peers[d].nets[dst(d)])}

\* Mutant: so must a name that nobody bears.
PeerError_AbsentToo(r, project, nets, peers) ==
    /\ r.container # Unset
    /\ \/ \E d \in BestMatches(r, project) : world[d].enabled # "true" \/ peers[d].err
       \/ Cardinality(Candidates(r, project, nets, peers)) # 1

\* A name that somebody bears must lead to one sound container.
PeerError(r, project, nets, peers) ==
    /\ BestMatches(r, project) # {}
    /\ \/ \E d \in BestMatches(r, project) : world[d].enabled # "true" \/ peers[d].err
       \/ Cardinality(Candidates(r, project, nets, peers)) # 1

\* A rule with what it resolves to: no container when nobody bears the name.
Resolved(r, project, nets, peers) ==
    LET err == \/ r.network # Unset /\ findNetwork(r.network, project, nets) = NoNet
               \/ PeerError(r, project, nets, peers)
    IN  [rule |-> r, err |-> err,
         peer |-> IF err \/ BestMatches(r, project) = {} THEN None
                  ELSE CHOOSE d \in Candidates(r, project, nets, peers) : TRUE]
populateOutputRules(output, project, nets, peers) ==
    [i \in DOMAIN output |-> Resolved(output[i], project, nets, peers)]

\* What is persisted of every rule that names a container.
WaitingRows(c, populated, nets) ==
    {[src |-> c, rule |-> p.rule, resolved |-> p.peer, project |-> Project(c),
      network |-> nets[findNetwork(p.rule.network, Project(c), nets)].id] :
        p \in {q \in ToSet(populated) : q.rule.container # Unset}}

-----------------------------------------------------------------------------
(* createNFTRules *)

\* The details of a rule, on behalf of one address of a container (or none).
Details(r, inbound, addr, ips, drops) ==
    [inbound |-> inbound, addr |-> addr, ips |-> ips, proto |-> r.proto, log |-> r.log, drop |-> drops,
     srcPorts |-> IF NonEmpty(r.srcPorts) THEN r.srcPorts ELSE <<>>,
     dstPorts |-> IF NonEmpty(r.dstPorts) THEN r.dstPorts ELSE <<>>]

\* Mutant: the rule for replies looks at the ports where the request has them.
createNFTRule_SamePorts(rd, inbound, inverse, state, at, tag) ==
    [chain |-> at, tag |-> tag, inbound |-> inbound, inverse |-> FALSE, state |-> state,
     addr |-> rd.addr, ips |-> createIPExprs(rd.ips), proto |-> rd.proto,
     srcPorts |-> createPortExprs(rd.srcPorts), dstPorts |-> createPortExprs(rd.dstPorts), drop |-> rd.drop]

createNFTRule(rd, inbound, inverse, state, at, tag) ==
    [chain |-> at, tag |-> tag, inbound |-> inbound, inverse |-> inverse, state |-> state,
     addr |-> rd.addr, ips |-> createIPExprs(rd.ips), proto |-> rd.proto,
     srcPorts |-> createPortExprs(rd.srcPorts), dstPorts |-> createPortExprs(rd.dstPorts), drop |-> rd.drop]

\* New traffic and what follows it, and the replies, in the chain of estAt.
createNFTRules(rd, at, tag, estAt, estTag) ==
    IF rd.drop THEN <<createNFTRule(rd, rd.inbound, FALSE, {"new"}, at, tag)>>
    ELSE (IF rd.log THEN <<createNFTRule(rd, rd.inbound, FALSE, {"new"}, at, tag),
                           createNFTRule(rd, rd.inbound, FALSE, {"est"}, at, tag)>>
                    ELSE <<createNFTRule(rd, rd.inbound, FALSE, {"new", "est"}, at, tag)>>)
         \o <<createNFTRule(rd, ~rd.inbound, TRUE, {"est"}, estAt, estTag)>>

createDropRule(c) ==
    [chain |-> c, tag |-> c, inbound |-> TRUE, inverse |-> FALSE, state |-> {"new", "est"},
     addr |-> NoAddr, ips |-> Anything, proto |-> Unset, srcPorts |-> Anything, dstPorts |-> Anything,
     drop |-> TRUE]

SortedNames(nets) == SortFunc(SetToSeq(DOMAIN nets), <)
Concat(s, F(_)) == FlattenSeq([i \in DOMAIN s |-> F(s[i])])

-----------------------------------------------------------------------------
(* createOutputRules and createWaitingContainerRules *)

AddrOn(d, network, nets) == nets[findNetwork(network, Project(d), nets)].addr

\* The edge from s to d, in the chains of both; each carries the other's ID.
EdgeRules(r, s, sAddr, d, dAddr) ==
    createNFTRules(Details(r, FALSE, sAddr, <<Single(dAddr)>>, FALSE), s, d, d, s)

OwnRules(r, c, addr) ==
    createNFTRules(Details(r, FALSE, addr, IF HasIPs(r) THEN r.ips ELSE <<>>, FALSE), c, c, c, c)

\* A rule that names a container nobody knows yet is left to createWaiting...
OutputRules(c, p, known, s, peers) ==
    LET r == p.rule IN
    IF r.network = Unset THEN Concat(SortedNames(s.addrs), LAMBDA n : OwnRules(r, c, s.addrs[n]))
    ELSE LET addr == s.addrs[findNetwork(r.network, Project(c), s.addrs)] IN
         IF r.container = Unset THEN OwnRules(r, c, addr)
         ELSE IF p.peer \notin known THEN <<>>
         ELSE EdgeRules(r, c, addr, p.peer, AddrOn(p.peer, r.network, peers[p.peer].nets))
createOutputRules(c, populated, known, s, peers) ==
    Concat(populated, LAMBDA p : OutputRules(c, p, known, s, peers))

\* Mutant: the project of the source is not compared.
Applies_AnyProject(c, w) == w.resolved \in {None, c}

\* The row may be meant for c: it is bound to c, or to nobody and c is of the
\* source's project.
Applies(c, w) ==
    IF w.resolved = None THEN w.project \in {NoProject, Project(c)} ELSE w.resolved = c

\* What becomes of such a row: passed over, an error, or an edge.
WaitingFate(c, w, s, src) ==
    LET exact == w.resolved # None
        at == findNetwork(w.rule.network, Project(c), s.nets)
        from == findNetwork(w.rule.network, Project(w.src), src.nets)
        Mismatch == IF exact THEN "error" ELSE "skip"
    IN  IF ~Applies(c, w) THEN "skip"
        ELSE IF at = NoNet THEN IF exact \/ w.project = Project(c) THEN "error" ELSE "skip"
        ELSE IF NoNetID \notin {w.network, s.nets[at].id} /\ w.network # s.nets[at].id THEN Mismatch
        ELSE IF world[w.src].enabled # "true" \/ src.err \/ from = NoNet THEN "error"
        ELSE IF ~sameDockerNetwork(from, src.nets[from], at, s.nets[at]) THEN Mismatch
        ELSE "edge"

\* Rows under a name or alias of c, of sources that are known.
RowsFor(c, table, known) ==
    {w \in table : w.src \in known /\ w.rule.container \in {world[c].name, world[c].service}}

WaitingEdge(c, w, s, peers) ==
    EdgeRules(w.rule, w.src, AddrOn(w.src, w.rule.network, peers[w.src].nets), c, AddrOn(c, w.rule.network, s.nets))
createWaitingContainerRules(c, table, known, s, peers) ==
    LET fate == [w \in RowsFor(c, table, known) |-> WaitingFate(c, w, s, peers[w.src])]
        edges == SetToSeq({w \in DOMAIN fate : fate[w] = "edge"})
        err == \E w \in DOMAIN fate : fate[w] = "error"
    IN  [err |-> err, rules |-> IF err THEN <<>> ELSE Concat(edges, LAMBDA w : WaitingEdge(c, w, s, peers))]

-----------------------------------------------------------------------------
(* createPortMappingRules *)

\* A port number of the container, with where Docker publishes it on the host.
Published(c) == {p \in world[c].ports : p.bindings # {}}
PortRule(p, log) == [proto |-> p.proto, log |-> log, srcPorts |-> Unset, dstPorts |-> <<Single(p.port)>>]

\* localhost reaches a binding on all addresses or on its own.
FromLocalhost(b) == b.ip \in {AnyAddr, LocalAddr}

\* Mutant: localhost is let in whenever something is.
GatewayRules_AnyAllow(c, cfg, s, n, p) ==
    LET gateway == s.nets[n].gateway IN
    IF gateway = NoAddr \/ (cfg.localAllow /\ cfg.externalAllow /\ cfg.externalIPs = <<>>) THEN <<>>
    ELSE createNFTRules(Details(PortRule(p, cfg.localLog), TRUE, s.addrs[n], <<Single(gateway)>>,
                                ~cfg.localAllow /\ ~cfg.externalAllow), c, c, c, c)

\* localhost arrives through the gateway, unless all external traffic is let in
\* anyway.
GatewayRules(c, cfg, s, n, p) ==
    LET gateway == s.nets[n].gateway IN
    IF gateway = NoAddr \/ (cfg.localAllow /\ cfg.externalAllow /\ cfg.externalIPs = <<>>) THEN <<>>
    ELSE createNFTRules(Details(PortRule(p, cfg.localLog), TRUE, s.addrs[n], <<Single(gateway)>>, ~cfg.localAllow),
                        c, c, c, c)

\* And is stopped before that, at the host port, in the whalewall chain.
LocalhostDrop(c, cfg, p, b) ==
    IF cfg.localAllow THEN <<>>
    ELSE createNFTRules(Details(PortRule([p EXCEPT !.port = b.port], FALSE), TRUE, NoAddr,
                                <<Single(LocalAddr)>>, TRUE), "whalewall", c, "whalewall", c)

ExternalRules(c, cfg, s, n, p) ==
    IF ~cfg.externalAllow \/ p.bindings = {} THEN <<>>
    ELSE createNFTRules(Details(PortRule(p, cfg.externalLog), TRUE, s.addrs[n], cfg.externalIPs, FALSE), c, c, c, c)

LocalRules(c, cfg, s, n, p) ==
    Concat(SetToSeq({b \in p.bindings : FromLocalhost(b)}),
           LAMBDA b : GatewayRules(c, cfg, s, n, p) \o LocalhostDrop(c, cfg, p, b))
PortRules(c, cfg, s, n, p) == LocalRules(c, cfg, s, n, p) \o ExternalRules(c, cfg, s, n, p)

\* Ports in order of number and protocol ("tcp" before "udp").
PortBefore(p, q) == p.port < q.port \/ (p.port = q.port /\ p.proto = "tcp" /\ q.proto = "udp")
SortedPorts(c) == SortFunc(SetToSeq(world[c].ports), PortBefore)

NetworkPortRules(c, cfg, s, n) == Concat(SortedPorts(c), LAMBDA p : PortRules(c, cfg, s, n, p))

\* With an explicit scope published ports matter on Docker's gateway network
\* only, and not at all when that network is not managed.
createPortMappingRules(c, cfg, s) ==
    LET at == dockerIPv4GatewayNetworkName(Nets(c))
        names == IF ~s.explicit THEN SortedNames(s.nets) ELSE IF at \in DOMAIN s.nets THEN <<at>> ELSE <<>>
        idle == Published(c) = {} \/ names = <<>>
        err == /\ Published(c) # {}
               /\ \/ s.explicit /\ at = NoNet
                  \/ names # <<>> /\ \E p \in world[c].ports :
                        \/ p.proto \notin {"tcp", "udp"}
                        \/ \E b \in p.bindings : b.ip = NoAddr \/ (~cfg.localAllow /\ FromLocalhost(b) /\ b.port = NoPort)
    IN  [err |-> err,
         rules |-> IF err \/ idle THEN <<>>
                   ELSE Concat(names, LAMBDA n : NetworkPortRules(c, cfg, s, n))]

-----------------------------------------------------------------------------
(* createContainerRules *)

\* The whole of it: the rules to install and the rows to keep, or an error.
\* The rows of c are replaced before the rows that name c are looked up.
Refused == [err |-> TRUE, rules |-> <<>>, rows |-> {}]
Assembled(own, inbound, outbound, ports) ==
    IF inbound.err \/ ports.err THEN Refused
    ELSE [err |-> FALSE, rows |-> own, rules |-> inbound.rules \o outbound \o ports.rules]
Built(c, cfg, populated, s, peers) ==
    LET known == rows \cup {c}
        own == WaitingRows(c, populated, s.nets)
    IN  IF \E p \in ToSet(populated) : p.err THEN Refused
        ELSE Assembled(own,
                 createWaitingContainerRules(c, {w \in waiting : w.src # c} \cup own, known, s, peers),
                 createOutputRules(c, populated, known, s, peers),
                 IF cfg = Unset THEN [err |-> FALSE, rules |-> <<>>] ELSE createPortMappingRules(c, cfg, s))
Outcome(c, cfg, s, peers) ==
    IF s.err \/ cfg = Unreadable THEN Refused
    ELSE IF cfg = Unset THEN Built(c, cfg, <<>>, s, peers)
    ELSE IF validateConfig(cfg) THEN Refused
    ELSE Built(c, cfg, populateOutputRules(normalizeConfig(cfg), Project(c), s.nets, peers), s, peers)

RetargetedMap(c, addrs) ==
    [a \in Addrs |-> IF a \in Range(addrs) THEN c ELSE IF vmap[a] = c THEN None ELSE vmap[a]]

In(s, at) == Concat(s, LAMBDA r : IF r.chain = at THEN <<r>> ELSE <<>>)
NotTagged(s, c) == Concat(s, LAMBDA r : IF r.tag # c THEN <<r>> ELSE <<>>)

\* Mutant: rules for the chains of others go behind their drop.
replaceContainerPolicy_Appends(c, desired) ==
    /\ chain' = [d \in Ids |-> IF d = c THEN Append(In(desired, c), createDropRule(c))
                               ELSE NotTagged(chain[d], c) \o In(desired, d)]
    /\ main' = NotTagged(main, c) \o In(desired, "whalewall")

\* One batch: the chain anew with its drop at the end; in the chains of others
\* the rules that carry c's ID are replaced, at the head; localhost drops are
\* appended to the whalewall chain.
replaceContainerPolicy(c, desired) ==
    /\ chain' = [d \in Ids |-> IF d = c THEN Append(In(desired, c), createDropRule(c))
                               ELSE In(desired, d) \o NotTagged(chain[d], c)]
    /\ main' = NotTagged(main, c) \o In(desired, "whalewall")

HostOnly(c) == DOMAIN world[c].nets = {HostNet}
Managed(c) == c \in running /\ world[c].enabled \in {"true", "invalid"}

\* The policy that c was built, or the quarantine if there was an error.
Create(c, s, o) ==
    /\ vmap' = RetargetedMap(c, s.addrs)
    /\ rows' = rows \cup {c}
    /\ replaceContainerPolicy(c, o.rules)
    /\ waiting' = {w \in waiting : w.src # c} \cup o.rows
    /\ last' = [id |-> c, fate |-> IF o.err THEN "quarantined" ELSE "applied"]
    /\ UNCHANGED <<world, running>>

createContainerRules(c) ==
    /\ Managed(c) /\ ~HostOnly(c)
    /\ \E s \in {Scope(c)} : \E o \in {Outcome(c, RulesLabel(c), s, Peers)} : Create(c, s, o)

Idle == last' = [id |-> None, fate |-> "none"]

deleteContainerRules(c) ==
    /\ c \in rows /\ c \notin running
    /\ chain' = [d \in Ids |-> IF d = c THEN <<>> ELSE NotTagged(chain[d], c)]
    /\ main' = NotTagged(main, c)
    /\ vmap' = [a \in Addrs |-> IF vmap[a] = c THEN None ELSE vmap[a]]
    /\ rows' = rows \ {c}
    /\ waiting' = {w \in waiting : w.src # c}
    /\ Idle /\ UNCHANGED <<world, running>>

\* Docker (external).
start(c) ==
    /\ c \notin running
    /\ running' = running \cup {c}
    /\ Idle /\ UNCHANGED <<world, rows, waiting, chain, main, vmap>>
die(c) ==
    /\ c \in running
    /\ running' = running \ {c}
    /\ Idle /\ UNCHANGED <<world, rows, waiting, chain, main, vmap>>

Init ==
    /\ world \in Worlds
    /\ running = {} /\ rows = {} /\ waiting = {}
    /\ chain = [c \in Ids |-> <<>>] /\ main = <<>>
    /\ vmap = [a \in Addrs |-> None]
    /\ last = [id |-> None, fate |-> "none"]

Next == \E c \in DOMAIN world :
    createContainerRules(c) \/ deleteContainerRules(c) \/ start(c) \/ die(c)

Spec == Init /\ [][Next]_vars

-----------------------------------------------------------------------------
(* The fate of a packet (external: how nftables evaluates the chains) *)

\* A packet as a hook sees it: st is its connection tracking state.
Match(r, p) ==
    LET own == IF r.inbound THEN p.dst ELSE p.src
        remote == IF r.inbound THEN p.src ELSE p.dst
    IN  /\ p.st \in r.state
        /\ r.addr \in {NoAddr, own}
        /\ Matches(r.ips, remote)
        /\ r.proto \in {Unset, p.proto}
        /\ Matches(r.srcPorts, IF r.inverse THEN p.dport ELSE p.sport)
        /\ Matches(r.dstPorts, IF r.inverse THEN p.sport ELSE p.dport)

Drops(s, p) ==
    LET i == SelectInSeq(s, LAMBDA r : Match(r, p)) IN i # 0 /\ s[i].drop

\* The dispatchers: the chain of the source decides if there is one, else that of
\* the destination; an allow returns behind the whalewall chain.
Passes(p) ==
    IF vmap[p.src] # None THEN ~Drops(chain[vmap[p.src]], p)
    ELSE IF vmap[p.dst] # None THEN ~Drops(chain[vmap[p.dst]], p)
    ELSE ~Drops(main, p)

-----------------------------------------------------------------------------
(* What the labels ask for *)

Just(c, fate) == last = [id |-> c, fate |-> fate]
Mapped(c) == {a \in Addrs : vmap[a] = c}

\* The names a rule gives; who bears a name, as a container or as the service of
\* a project; and where the network of a rule is.
Names(r) == IF HasContainers(r) THEN ToSet(r.containers) ELSE {r.container} \ {Unset}
Bears(d, name, c) ==
    \/ world[d].name = name
    \/ world[d].service = name /\ Project(c) \in {NoProject, Project(d)}
BearsBest(d, name, c) ==
    /\ Bears(d, name, c)
    /\ world[d].name = name \/ \A o \in running : world[o].name # name
SharedNet(r, c, n, d, m, nets) ==
    /\ n = findNetwork(r.network, Project(c), nets[c]) /\ m = findNetwork(r.network, Project(d), nets[d])
    /\ NoNet \notin {n, m}
    /\ networkEndpointIdentity(n, nets[c][n]) = networkEndpointIdentity(m, nets[d][m])

Listed(s, v) == s \in {Unset, <<>>} \/ Selects(s, v)
Carries(r, p) ==
    /\ r.proto \in {Unset, p.proto} /\ Listed(r.srcPorts, p.sport) /\ Listed(r.dstPorts, p.dport)

\* The networks that each container manages.
PeerNets == [d \in DOMAIN world |-> Peers[d].nets]

\* A new connection of c is one that an output rule names: on the network of the
\* rule, to a listed address or to the one container of the name.
SentTo(c, r, p, nets) ==
    \E n \in DOMAIN nets[c] :
        /\ nets[c][n].addr = p.src
        /\ IF Names(r) = {}
           THEN /\ r.network = Unset \/ n = findNetwork(r.network, Project(c), nets[c])
                /\ r.ips = Unset \/ \E e \in ToSet(r.ips) : e.low <= p.dst /\ p.dst <= e.high
           ELSE \E d \in running \cap rows : \E m \in DOMAIN nets[d], name \in Names(r) :
                  BearsBest(d, name, c) /\ SharedNet(r, c, n, d, m, nets) /\ nets[d][m].addr = p.dst
OutputOf(c) == IF RulesLabel(c) = Unset THEN {} ELSE ToSet(RulesLabel(c).output)
OutGranted(c, p, nets) == \E r \in OutputOf(c) : Carries(r, p) /\ SentTo(c, r, p, nets)

\* The networks through which Docker may publish c's ports, as far as managed.
GatewayNets(c) ==
    LET nets == Nets(c)
        Beats(n, m) == nets[n].priority > nets[m].priority \/ (nets[n].priority = nets[m].priority /\ n <= m)
    IN  IF world[c].scope = AllNetworks THEN DOMAIN nets
        ELSE {n \in DOMAIN Scope(c).nets : nets[n].gateway # NoAddr /\
                 \A m \in DOMAIN nets : nets[m].gateway # NoAddr => Beats(n, m)}
OpenToHost(port) == \E b \in port.bindings : b.ip \in {AnyAddr, LocalAddr}

\* A new connection to a published port of c, from outside or from localhost
\* through the gateway; and those of localhost that are not wanted.
Arrives(c, p, n, port) ==
    Nets(c)[n].addr = p.dst /\ port.port = p.dport /\ port.proto = p.proto
FromGateway(c, p, n, port) == p.src = Nets(c)[n].gateway /\ OpenToHost(port)
InGranted(c, p) ==
    LET cfg == RulesLabel(c) IN
    cfg # Unset /\ \E n \in GatewayNets(c), port \in Published(c) :
        /\ Arrives(c, p, n, port)
        /\ (cfg.externalAllow /\ Selects(cfg.externalIPs, p.src)) \/ (cfg.localAllow /\ FromGateway(c, p, n, port))
InDenied(c, p) ==
    ~RulesLabel(c).localAllow /\ \E n \in GatewayNets(c), port \in Published(c) :
        Arrives(c, p, n, port) /\ FromGateway(c, p, n, port)

Follow(p) == [p EXCEPT !.st = "est"]
Reply(p) == [src |-> p.dst, dst |-> p.src, proto |-> p.proto, sport |-> p.dport, dport |-> p.sport, st |-> "est"]
-----------------------------------------------------------------------------
(* Properties *)

\* A container has a chain, which its drop closes, exactly while it has a row;
\* addresses lead to containers that have one (createContainerRules,
\* deleteContainerRules).
TypeOK ==
    /\ running \subseteq DOMAIN world /\ rows \subseteq DOMAIN world
    /\ vmap \in [Addrs -> rows \cup {None}]
    /\ {w.src : w \in waiting} \subseteq rows
    /\ last \in [id : Ids \cup {None}, fate : {"none", "applied", "quarantined"}]
    /\ \A c \in Ids :
         /\ (chain[c] = <<>>) <=> (c \notin rows)
         /\ c \in rows => Last(chain[c]) = createDropRule(c) /\ {r.chain : r \in ToSet(chain[c])} = {c}

\* The expression of a list of addresses or ports, with sorted, merged and
\* half-open intervals, matches exactly the values that the list holds, up to
\* the greatest one, and never has two elements under one key (createIPExprs,
\* createPortExprs).
SelectorLists(c) ==
    LET cfg == world[c].rules
        rules == IF cfg \in {Unset, Unreadable} THEN {} ELSE ToSet(cfg.output)
    IN  [ips |-> {r.ips : r \in rules} \cup (IF cfg \in {Unset, Unreadable} THEN {} ELSE {cfg.externalIPs}),
         ports |-> UNION {{r.srcPorts, r.dstPorts} : r \in rules}]
SelectorsExact ==
    \A c \in DOMAIN world :
        /\ \A s \in SelectorLists(c).ips \ {Unset} : Exact(s, createIPExprs(s), AddrTop)
        /\ \A s \in SelectorLists(c).ports \ {Unset} : Exact(s, createPortExprs(s), PortTop)

\* The label names attached Docker networks, each once, which the firewall can
\* tell apart by their IPv4 addresses; without a label all must be usable.
Honourable(c) ==
    LET nets == world[c].nets
        label == world[c].scope
        named == IF label = AllNetworks THEN DOMAIN nets
                 ELSE {findNetwork(label[i], Project(c), nets) : i \in DOMAIN label}
        Identity(n) == networkEndpointIdentity(n, nets[n])
    IN  /\ named # {} /\ named \subseteq Usable(nets) /\ \A n \in named : ~nets[n].ipv6
        /\ label # AllNetworks =>
             /\ HostNet \notin named /\ Blank \notin ToSet(label)
             /\ Cardinality({Identity(n) : n \in named}) = Len(label)
             /\ \A n \in named, m \in Usable(nets) : nets[n].addr = nets[m].addr => Identity(n) = Identity(m)

\* managed_networks confines enforcement to the named endpoints when it can be
\* honoured in full; otherwise every attached address is under a policy that
\* lets nothing through ("an error cannot turn enforcement into an empty
\* address map", createContainerRules).
ScopeHolds ==
    \A c \in DOMAIN world : last.id = c =>
        LET nets == world[c].nets
            label == world[c].scope
            named == IF label = AllNetworks \/ ~Honourable(c) THEN Usable(nets)
                     ELSE {findNetwork(label[i], Project(c), nets) : i \in DOMAIN label}
        IN  /\ Mapped(c) = {nets[n].addr : n \in named}
            /\ ~Honourable(c) => last.fate = "quarantined"
            /\ last.fate = "quarantined" => \A p \in Packets :
                  vmap[p.src] = c \/ (vmap[p.src] = None /\ vmap[p.dst] = c) => ~Passes(p)

\* After a create a new connection of the container leaves if and only if an
\* output rule of its label names it: its network, its address or the one
\* container that bears its name, its protocol and ports.  A selector that
\* selects nothing, or nobody yet, opens nothing (populateOutputRules,
\* createOutputRules, validateRule).
OutboundIsPolicy ==
    \A c \in DOMAIN world : Just(c, "applied") => \A nets \in {PeerNets} : \A p \in Packets :
        p.st = "new" /\ vmap[p.src] = c /\ vmap[p.dst] # c => (Passes(p) <=> OutGranted(c, p, nets))

\* After a create a new connection from a host outside reaches the container if
\* and only if mapped_ports lets it: external traffic to published ports, and
\* localhost through Docker's gateway, whose denial wins; and localhost is
\* stopped at the host port exactly when it is denied (createPortMappingRules).
InboundIsPolicy ==
    \A c \in DOMAIN world : Just(c, "applied") => \A p \in Packets :
        p.st = "new" /\ vmap[p.src] = None =>
            /\ vmap[p.dst] = c => (Passes(p) <=> InGranted(c, p) /\ ~InDenied(c, p))
            /\ p.src = LocalAddr /\ p.dst = LocalAddr /\ rows = {c} =>
                 (Passes(p) <=> ~(/\ RulesLabel(c) # Unset /\ ~RulesLabel(c).localAllow /\ GatewayNets(c) # {}
                                  /\ \E port \in Published(c) : \E b \in port.bindings :
                                        port.proto = p.proto /\ b.port = p.dport /\ FromLocalhost(b)))

\* Packets of an established connection pass in both directions exactly where
\* the connection may be opened in one; with a named peer the replies pass in
\* the peer's chain too, whatever that chain holds (createNFTRules,
\* replaceContainerPolicy).
RepliesFollow ==
    \A c \in DOMAIN world : Just(c, "applied") => \A nets \in {PeerNets} : \A p \in Packets :
        /\ p.st = "est" /\ {vmap[p.src], vmap[p.dst]} = {c, None} =>
             LET Granted(q) == IF vmap[q.src] = c THEN OutGranted(c, q, nets) ELSE InGranted(c, q)
             IN  Passes(p) <=> Granted(p) \/ Granted(Reply(p))
        /\ (/\ p.st = "new" /\ vmap[p.src] = c /\ vmap[p.dst] \notin {c, None}
            /\ \E r \in OutputOf(c) : Names(r) # {} /\ Carries(r, p) /\ SentTo(c, r, p, nets)) =>
             Passes(Follow(p)) /\ Passes(Reply(p))

\* Whom the persisted row behind an edge from s to d is bound to: d, by the create
\* of s that wrote it; or nobody, when nobody bore the name then.  What leaves the
\* create itself is always bound.
Bound(s, d) == IF last.id = s THEN {d} ELSE {None, d}

\* However containers come and go, a rule that lets s reach another container d
\* comes from one rule of the label of s and from the one row under which that was
\* persisted: it names d by its name or by its service within the project of s, is
\* bound to d or still to nobody, has the protocol and ports, and runs between the
\* addresses of both on one Docker network that both manage; the reply rule stands
\* in the chain of d.  So only a row bound to nobody may open more than one edge
\* (createWaitingContainerRules, populateOutputRules).
EdgesAuthorized ==
    /\ \A w, v \in waiting : w.src = v.src /\ w.rule = v.rule => w.resolved = v.resolved
    /\ \A s \in rows : \A e \in {f \in ToSet(chain[s]) : f.tag # s} :
        LET d == e.tag
            nets == [x \in {s, d} |-> resolveValidManagedNetworks(world[x].scope, Project(x), world[x].nets).nets]
        IN  IF e.inverse
            THEN \E f \in ToSet(chain[d]) : f.tag = s /\ ~f.inverse /\ f.proto = e.proto /\ f.dstPorts = e.dstPorts
            ELSE /\ \E f \in ToSet(chain[d]) : f.tag = s /\ f.inverse /\ f.proto = e.proto /\ f.dstPorts = e.dstPorts
                 /\ world[d].enabled # "false" /\ world[s].enabled = "true"
                 /\ \E w \in waiting, r \in ToSet(RulesLabel(s).output), n \in DOMAIN nets[s], m \in DOMAIN nets[d] :
                      /\ w.src = s /\ w.resolved \in Bound(s, d)
                      /\ w.rule = [r EXCEPT !.container = w.rule.container, !.containers = Unset]
                      /\ w.rule.container \in Names(r) /\ Bears(d, w.rule.container, s)
                      /\ SharedNet(r, s, n, d, m, nets)
                      /\ e.addr = nets[s][n].addr /\ e.ips = createIPExprs(<<Single(nets[d][m].addr)>>)
                      /\ e.proto = r.proto /\ (NonEmpty(r.dstPorts) => e.dstPorts = createPortExprs(r.dstPorts))

\* "ambiguous names ... still reject the complete source policy" (README): where
\* two containers bear a name of a rule equally well, on the network of the rule,
\* the source has no allow rule for both.
OneDestination ==
    \A nets \in {PeerNets} : \A s \in rows : \A r \in OutputOf(s) : \A name \in Names(r) :
        Cardinality({d \in (running \cap rows) \ {s} :
            /\ BearsBest(d, name, s)
            /\ \E n \in DOMAIN nets[s], m \in DOMAIN nets[d] : SharedNet(r, s, n, d, m, nets)
            /\ \E e \in ToSet(chain[s]) : e.tag = d /\ ~e.inverse}) <= 1

\* Containers that are named and not there do not cost a container its policy:
\* the rest of it is applied ("An absent or stopped destination contributes no
\* allow rule. Keep the rest of the policy", populateOutputRules).
AbsentPeersHarmless ==
    \A c \in DOMAIN world : Just(c, "quarantined") /\ RulesLabel(c) \notin {Unset, Unreadable} =>
        LET cfg == RulesLabel(c) IN
        ~(/\ Honourable(c) /\ ~validateConfig(cfg) /\ Published(c) = {}
          /\ \A r \in ToSet(cfg.output) :
               /\ r.network # Unset => findNetwork(r.network, Project(c), Scope(c).nets) # NoNet
               /\ \A d \in running, name \in Names(r) : ~Bears(d, name, c)
          /\ \A w \in waiting : w.rule.container \notin {world[c].name, world[c].service})
=============================================================================
