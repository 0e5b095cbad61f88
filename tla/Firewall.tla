------------------------------ MODULE Firewall ------------------------------
(***************************************************************************)
(* What the rule manager promises of the packet filter, told without its   *)
(* steps, failures, tables and events: a container is closed before an     *)
(* address is led to it; an address changes hands only together with the   *)
(* end of all that was permitted to or towards its former holder; and what *)
(* is permitted grows only by whole edges of one container among closed    *)
(* ones, which replace all its former ones.                                *)
(***************************************************************************)
EXTENDS Naturals

CONSTANTS
    Containers,
    Addrs,
    None,     \* nobody
    Permits   \* permissions: in the chain of one container, tagged with another

VARIABLES
    closed,  \* containers whose chain drops what is not permitted
    holder,  \* the container an address is led to, or None
    permits  \* permissions in force

vars == <<closed, holder, permits>>

Touching(ids) == {p \in Permits : p.chain \in ids \/ p.tag \in ids}

\* The permission for the other direction of an edge.
Opposite(p) == [chain |-> p.tag, tag |-> p.chain, from |-> p.to, to |-> p.from,
                ct |-> IF p.ct = "new" THEN "est" ELSE "new"]

\* c is closed; what its own chain permitted may end with it.
Close(c) ==
    /\ closed' = closed \cup {c}
    /\ permits' \in {permits, {p \in permits : p.chain # c}}
    /\ UNCHANGED holder

\* c holds these addresses and no others; who loses one is permitted nothing.
Take(c, addrs) ==
    /\ c \in closed
    /\ holder' = [a \in Addrs |-> IF a \in addrs THEN c ELSE IF holder[a] = c THEN None ELSE holder[a]]
    /\ permits' = permits \ Touching({holder[a] : a \in addrs} \ {None, c})
    /\ UNCHANGED closed

\* The edges of c are replaced by others: whole ones, among closed containers.
Rebuild(c) ==
    /\ c \in closed
    /\ permits' \subseteq Permits
    /\ permits' \ Touching({c}) = permits \ Touching({c})
    /\ \A p \in permits' \cap Touching({c}) :
          {p.chain, p.tag} \subseteq closed /\ Opposite(p) \in permits'
    /\ UNCHANGED <<closed, holder>>

\* c is forgotten altogether.
Remove(c) ==
    /\ closed' = closed \ {c}
    /\ holder' = [a \in Addrs |-> IF holder[a] = c THEN None ELSE holder[a]]
    /\ permits' = permits \ Touching({c})

Init == closed = {} /\ holder = [a \in Addrs |-> None] /\ permits = {}

Next == \E c \in Containers :
    Close(c) \/ Rebuild(c) \/ Remove(c) \/ \E addrs \in SUBSET Addrs : Take(c, addrs)

Spec == Init /\ [][Next]_vars
=============================================================================
