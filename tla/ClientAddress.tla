---------------------------- MODULE ClientAddress ----------------------------
(***************************************************************************)
(* The address a request came from (app/api/client_address.py), and the    *)
(* ways a request can take to the application.                             *)
(***************************************************************************)
EXTENDS Integers, Sequences, SequencesExt

CONSTANTS
    Origin,         \* addresses clients connect from
    Proxy,          \* addresses of the deployment's reverse proxies
    TrustedProxies, \* trusted_proxy_ips: entries that parse, and others
    Garbage,        \* a hop or a configured entry that is no address
    NoAddress,      \* a connection without a peer address
    Unknown,        \* the bucket of such connections
    MaxHops         \* bound on the proxies of a way and on a made-up header

ASSUME AddressAssumption ==
    /\ Origin \cap (Proxy \cup {Garbage, NoAddress, Unknown}) = {}
    /\ Proxy \cap {Garbage, NoAddress, Unknown} = {}
    /\ Proxy \subseteq TrustedProxies
    /\ TrustedProxies \subseteq Proxy \cup {Garbage}
    /\ MaxHops \in Nat \ {0}

\* _parse_networks: an entry that does not parse is dropped.
ParseNetworks(raw) == raw \ {Garbage}

\* _is_trusted: a hop that is no address is never trusted.
IsTrusted(hop, networks) == hop # Garbage /\ hop \in networks

\* Mutant of ResolveClientIp: the chain is read from the left.
ResolveFromTheLeft(peer, forwarded) ==
    LET networks == ParseNetworks(TrustedProxies)
        others == {i \in DOMAIN forwarded : ~IsTrusted(forwarded[i], networks)}
    IN  IF peer = NoAddress \/ ~IsTrusted(peer, networks) \/ others = {}
        THEN peer
        ELSE forwarded[Min(others)]

(***************************************************************************)
(* resolve_client_ip: the peer, or behind a trusted proxy the rightmost    *)
(* hop of X-Forwarded-For that is no trusted proxy.                        *)
(***************************************************************************)
ResolveClientIp(peer, forwarded) ==
    LET networks == ParseNetworks(TrustedProxies)
        others == {i \in DOMAIN forwarded : ~IsTrusted(forwarded[i], networks)}
    IN  IF peer = NoAddress \/ ~IsTrusted(peer, networks) \/ others = {}
        THEN peer
        ELSE forwarded[Max(others)]

(***************************************************************************)
(* A client opens a connection, directly or through proxies, and sends a   *)
(* header of its own making; each proxy appends the address it was called  *)
(* from.                                                                   *)
(***************************************************************************)
MadeUpHeader == BoundedSeq(Origin \cup Proxy \cup {Garbage}, MaxHops - 1)
ProxyPath == BoundedSeq(Proxy, MaxHops)

Route(origin, header, path) ==
    [peer |-> Last(<<origin>> \o path),
     forwarded |-> IF path = <<>> THEN header ELSE header \o <<origin>> \o Front(path)]

RoutesFrom(origin) ==
    IF origin = Unknown
    THEN {[peer |-> NoAddress, forwarded |-> <<>>]}
    ELSE {Route(origin, header, path) : header \in MadeUpHeader, path \in ProxyPath}
=============================================================================
