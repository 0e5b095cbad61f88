---------------------------- MODULE NetworkScope ----------------------------
(***************************************************************************)
(* The managed_networks label: which endpoints of a container are under    *)
(* its policy.  Endpoints are a function from names of attached Docker     *)
(* networks to what Docker reports of each, or NoEndpoint (nil).           *)
(*                                                                         *)
(* Names are numbers, so that they have an order.  An address is absent    *)
(* (NoAddr) when Docker reports none or one that is not IPv4; a gateway is *)
(* absent or IPv4, for Docker has a field of its own for others, and the   *)
(* error for an endpoint that has them in the wrong one is left out.       *)
(***************************************************************************)
EXTENDS Naturals, Sequences, FiniteSets, SequencesExt

CONSTANTS
    NoEndpoint,   \* an attachment without endpoint settings
    NoAddr,       \* no valid IPv4 address
    NoNetID,      \* Docker reports no network ID
    NoNet,        \* no such network
    Blank,        \* a name of blanks only
    HostNet,      \* the host network
    AllNetworks,  \* the label is absent
    ComposeName   \* the name Compose gives to a network of a project

\* The name itself, or the name behind the prefix of the Compose project.
findNetwork(name, project, nets) ==
    IF name \in DOMAIN nets THEN name
    ELSE IF ComposeName[project, name] \in DOMAIN nets THEN ComposeName[project, name]
    ELSE NoNet

networkEndpointIdentity(name, endpoint) ==
    IF endpoint # NoEndpoint /\ endpoint.id # NoNetID THEN <<"id", endpoint.id>> ELSE <<"name", name>>

sameDockerNetwork(srcName, src, dstName, dst) ==
    /\ NoEndpoint \notin {src, dst}
    /\ IF {src.id, dst.id} = {NoNetID} THEN srcName = dstName ELSE src.id = dst.id

\* Entry i of the label cannot be honoured.
BadEntry(label, actual, nets, i) ==
    \/ label[i] = Blank
    \/ actual[i] \in {NoNet, HostNet}
    \/ nets[actual[i]] = NoEndpoint
    \/ \E j \in 1..(i - 1) :
          \/ label[j] = label[i] \/ actual[j] = actual[i]
          \/ nets[actual[i]].id # NoNetID /\ nets[actual[j]].id = nets[actual[i]].id

resolveManagedNetworks(label, project, attached) ==
    IF label = AllNetworks THEN [nets |-> attached, explicit |-> FALSE, err |-> FALSE]
    ELSE LET actual == [i \in DOMAIN label |-> findNetwork(label[i], project, attached)]
             err == \E i \in DOMAIN label : BadEntry(label, actual, attached, i)
         IN  [nets |-> IF err THEN <<>> ELSE Restrict(attached, ToSet(actual)),
              explicit |-> TRUE, err |-> err]

\* Endpoints that give a key of the address map, and whether any is at fault.
Usable(nets) == {n \in DOMAIN nets : nets[n] # NoEndpoint /\ nets[n].addr # NoAddr}
collectManagedIPv4Addresses(nets) ==
    [addrs |-> [n \in Usable(nets) |-> nets[n].addr],
     err |-> \E n \in DOMAIN nets : n \notin Usable(nets) \/ nets[n].ipv6]

\* A selected address is also that of another network of the container.
validateScopedAddressUniqueness(selected, attached) ==
    \E m \in Usable(selected), n \in Usable(attached) :
        /\ attached[n].addr = selected[m].addr
        /\ networkEndpointIdentity(n, attached[n]) # networkEndpointIdentity(m, selected[m])

\* The selection is not one that the policy can be confined to.
scopeError(r, attached) ==
    r.err \/ (r.explicit /\ \/ validateScopedAddressUniqueness(r.nets, attached)
                            \/ collectManagedIPv4Addresses(r.nets).err)

resolveValidManagedNetworks(label, project, attached) ==
    LET r == resolveManagedNetworks(label, project, attached)
    IN  [r EXCEPT !.err = scopeError(r, attached) \/ r.nets = <<>> \/ collectManagedIPv4Addresses(r.nets).err]

\* A selection with its addresses.
Managing(nets, explicit, err) ==
    [nets |-> nets, addrs |-> collectManagedIPv4Addresses(nets).addrs, explicit |-> explicit,
     err |-> err \/ nets = <<>> \/ collectManagedIPv4Addresses(nets).err]

\* Mutant: a scope that cannot be honoured manages what it could resolve.
policyScope_NoFallback(label, project, attached) ==
    LET r == resolveManagedNetworks(label, project, attached)
    IN  Managing(r.nets, r.explicit, scopeError(r, attached))

\* The scope of a container's own policy.  When the label cannot be honoured
\* every attached endpoint is managed, so that an error opens none.
policyScope(label, project, attached) ==
    LET r == resolveManagedNetworks(label, project, attached)
    IN  Managing(IF scopeError(r, attached) THEN attached ELSE r.nets, r.explicit, scopeError(r, attached))

\* Docker routes published ports through the attached endpoint with the highest
\* gateway priority; the name decides among equals.
GatewayCapable(nets) == {n \in DOMAIN nets : nets[n].gateway # NoAddr}

dockerIPv4GatewayNetworkName(nets) ==
    IF Usable(nets) # DOMAIN nets \/ GatewayCapable(nets) = {} THEN NoNet
    ELSE LET top == Max({nets[n].priority : n \in GatewayCapable(nets)})
         IN  Min({n \in GatewayCapable(nets) : nets[n].priority = top})
=============================================================================
