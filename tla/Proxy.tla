-------------------------------- MODULE Proxy --------------------------------
(* The network proxy of a VM (crates/bux-gvproxy): an instance made by the   *)
(* shim, the DNS zones and the TCP filter built from allow_net, and the      *)
(* connections of the guest, which are forwarded as they are, forwarded      *)
(* after a look at the host they name, opened for the substitution of        *)
(* secrets, or refused.                                                      *)
(* A host is the sequence of its labels.  A pattern [wild, name] is an exact *)
(* host or *.name.  A secret is the set of its host patterns.                *)
EXTENDS Naturals, Sequences, FiniteSets, Functions

CONSTANTS
    Conns,          \* connections of the guest
    HostNames,      \* hosts the guest names
    AllowLists,     \* values of allow_net: [ips, hosts], or NoList when empty
    SecretSets,     \* values of secrets: sets of sets of patterns
    NoList,
    MaxInFlight     \* connection attempts the forwarder keeps open, 10

\* A list has finitely many rules, and the host of a secret has a label.
ASSUME ProxyAssumption ==
    /\ \A a \in AllowLists \ {NoList} :
          IsFiniteSet(a.hosts) /\ a.hosts \subseteq [wild : BOOLEAN, name : Seq(STRING)]
    /\ \A s \in SecretSets : \A p \in UNION s :
          p \in [wild : BOOLEAN, name : Seq(STRING) \ {<<>>}]
    /\ HostNames \subseteq Seq(STRING)

VARIABLES
    pcfg,           \* the configuration, with the order the zones came in
    inst,           \* where the goroutine of the instance is
    canceled,       \* gvproxy_destroy has been called
    tap, tapsock,   \* the listener, and its socket file
    link,           \* the VM's connection to it
    handler,        \* the TCP handler of the stack: upstream's, as it should be
                    \* ("default") or for want of ours ("kept"), or ours ("filter")
    cx,             \* connections
    answer          \* the last DNS answer: a host and what it got

proxyVars == <<pcfg, inst, canceled, tap, tapsock, link, handler, cx, answer>>

Unused == [st |-> "none", ip |-> "other", port |-> 0, host |-> <<>>,
           subst |-> {}, guest |-> FALSE, up |-> FALSE, serve |-> "none"]
Off == [allow |-> NoList, secrets |-> {}, zones |-> <<>>]

Init ==
    /\ pcfg = Off
    /\ inst = "none" /\ canceled = FALSE
    /\ tap = "none" /\ tapsock = FALSE /\ link = "none"
    /\ handler = "default"
    /\ cx = [c \in Conns |-> Unused]
    /\ answer = <<>>

-----------------------------------------------------------------------------
(* Names.                                                                    *)

\* host ends in "." followed by name.
Under(host, name) ==
    Len(host) > Len(name) /\ SubSeq(host, Len(host) - Len(name) + 1, Len(host)) = name

\* TCPFilter.MatchesHostname: a wildcard takes any depth.
MatchesHostname(host) ==
    \E p \in pcfg.allow.hosts :
        IF p.wild THEN Under(host, p.name) ELSE host = p.name

\* matchesWildcard: of a secret's wildcard only one level more.
MatchesSecret(host, p) ==
    IF p.wild THEN Under(host, p.name) /\ Len(host) = Len(p.name) + 1
    ELSE host = p.name

\* SecretsForHost; Matches is that it is not empty.
SecretsForHost(host) == {s \in pcfg.secrets : \E p \in s : MatchesSecret(host, p)}

\* TCPFilter.MatchesIP: gateway and guest are always in, then the rules.
MatchesIP(ip) == ip \in {"gateway", "guest"} \cup pcfg.allow.ips

\* The NAT table sends the guest's own address to the host's loopback.
Translated(ip) == IF ip = "guest" THEN "loopback" ELSE ip

-----------------------------------------------------------------------------
(* DNS zones from allow_net.                                                 *)

\* The zone a rule adds to: of an exact host the one above it.
ZoneName(p) == IF p.wild \/ Len(p.name) = 1 THEN p.name ELSE Tail(p.name)

\* A zone answers all names under a wildcard, and the labels of the exact
\* hosts above which it is, if the host resolved when the zones were built.
Zone(name, hosts, resolved) ==
    [name |-> name,
     all |-> [wild |-> TRUE, name |-> name] \in hosts,
     labels |-> {Head(p.name) : p \in {q \in hosts \cap resolved :
                     ~q.wild /\ Len(q.name) > 1 /\ ZoneName(q) = name}}]

\* buildAllowNetDNSZones: an exact host that does not resolve makes no zone.  It
\* walks a map, so any order of the zones can come out.
Zones(hosts, resolved) ==
    LET made == {p \in hosts : p.wild \/ p \in resolved}
        zones == {Zone(ZoneName(p), hosts, resolved) : p \in made}
    IN  Bijection(1 .. Cardinality(zones), zones)

\* Zone i is the first that the host is under.
FirstZone(host, i) ==
    /\ Under(host, pcfg.zones[i].name)
    /\ \A j \in 1 .. i - 1 : ~Under(host, pcfg.zones[j].name)

\* The zone has a record of the host.
HasRecord(zone, host) == zone.all \/ \E l \in zone.labels : host = <<l>> \o zone.name

\* The first zone the host is under answers, with a record or the sinkhole;
\* the root zone comes last and sinks the rest.
Resolve(host) ==
    IF pcfg.allow = NoList THEN "forwarded"
    ELSE IF \E i \in DOMAIN pcfg.zones :
               FirstZone(host, i) /\ HasRecord(pcfg.zones[i], host) THEN "record"
    ELSE "sink"

-----------------------------------------------------------------------------
(* The instance.                                                             *)

\* gvproxy_create: zones, the listening socket, the CA when there are secrets.
Create ==
    /\ inst = "none"
    /\ \E allow \in AllowLists, secrets \in SecretSets :
          LET hosts == IF allow = NoList THEN {} ELSE allow.hosts
          IN  \E resolved \in SUBSET hosts : \E zones \in Zones(hosts, resolved) :
                 pcfg' = [allow |-> allow, secrets |-> secrets, zones |-> zones]
    /\ inst' = "starting"
    /\ tap' = "open" /\ tapsock' = TRUE
    /\ UNCHANGED <<canceled, link, handler, cx, answer>>

\* The socket cannot be bound, or the CA does not parse: the caller gets an
\* error, and in the second case the listener is left behind.
CreateFails ==
    /\ inst = "none"
    /\ inst' = "failed"
    /\ tap' \in {"none", "open"} /\ tapsock' = (tap' = "open")
    /\ UNCHANGED <<pcfg, canceled, link, handler, cx, answer>>

\* virtualnetwork.New, with the upstream handler; its failure ends the goroutine.
NewNetwork ==
    /\ inst = "starting"
    /\ inst' \in {"made", "dead"}
    /\ UNCHANGED <<pcfg, canceled, tap, tapsock, link, handler, cx, answer>>

\* OverrideTCPHandler, when there are rules or secrets.  Its error is logged, and
\* the instance serves the guest with the upstream handler.
Override ==
    /\ inst = "made"
    /\ inst' = "running"
    /\ handler' \in IF pcfg.allow # NoList \/ pcfg.secrets # {} THEN {"filter", "kept"}
                    ELSE {"default"}
    /\ UNCHANGED <<pcfg, canceled, tap, tapsock, link, cx, answer>>

\* libkrun connects to the socket; the connection waits in the backlog.
VmConnects ==
    /\ tap = "open" /\ tapsock /\ link = "none"
    /\ link' = "backlog"
    /\ UNCHANGED <<pcfg, inst, canceled, tap, tapsock, handler, cx, answer>>

\* Accept; one VM per instance, so the listener is closed.
Accept ==
    /\ inst = "running" /\ tap = "open" /\ link = "backlog"
    /\ link' = "up"
    /\ tap' = "closed" /\ tapsock' = FALSE
    /\ UNCHANGED <<pcfg, inst, canceled, handler, cx, answer>>

\* gvproxy_destroy: the instance leaves the table and its context ends.
Destroy ==
    /\ inst \in {"starting", "made", "running", "dead"} /\ ~canceled
    /\ canceled' = TRUE
    /\ UNCHANGED <<pcfg, inst, tap, tapsock, link, handler, cx, answer>>

\* The goroutine sees the end of its context: listener, socket file, VM link.
Cleanup ==
    /\ inst = "running" /\ canceled
    /\ inst' = "ended"
    /\ tap' = "closed" /\ tapsock' = FALSE /\ link' = "down"
    /\ UNCHANGED <<pcfg, canceled, handler, cx, answer>>

\* The guest asks the gateway for a host.
Lookup(host) ==
    /\ link = "up"
    /\ answer' = <<host, Resolve(host)>>
    /\ UNCHANGED <<pcfg, inst, canceled, tap, tapsock, link, handler, cx>>

-----------------------------------------------------------------------------
(* Connections.                                                              *)

Set(c, r) ==
    /\ cx' = [cx EXCEPT ![c] = r]
    /\ UNCHANGED <<pcfg, inst, canceled, tap, tapsock, link, handler, answer>>

Shut(c) == Set(c, [cx[c] EXCEPT !.st = "closed", !.guest = FALSE, !.up = FALSE])

\* Mutation: an address rule is looked at before the secrets.
DecideAddressFirst(ip, port) ==
    IF handler # "filter" THEN "forward"
    ELSE IF pcfg.allow # NoList /\ MatchesIP(ip) THEN "forward"
    ELSE IF pcfg.secrets # {} /\ port = 443 THEN "inspect"
    ELSE IF pcfg.allow = NoList THEN "forward"
    ELSE IF pcfg.allow.hosts # {} /\ port \in {80, 443} THEN "inspect"
    ELSE "block"

\* decideTCPRoute; the upstream handler forwards everything.
DecideTCPRoute(ip, port) ==
    IF handler # "filter" THEN "forward"
    ELSE IF pcfg.secrets # {} /\ port = 443 THEN "inspect"
    ELSE IF pcfg.allow = NoList \/ MatchesIP(ip) THEN "forward"
    ELSE IF pcfg.allow.hosts # {} /\ port \in {80, 443} THEN "inspect"
    ELSE "block"

\* Requests whose outcome the forwarder has not been told.
InFlight == {c \in Conns : cx[c].st \in {"dial", "accept"}}

\* A SYN of the guest: link-local addresses and unmatched ones are reset.
Syn(c, ip, port) ==
    LET route == DecideTCPRoute(Translated(ip), port)
        new == [Unused EXCEPT !.ip = Translated(ip), !.port = port]
    IN  /\ link = "up" /\ cx[c].st = "none"
        /\ Cardinality(InFlight) < MaxInFlight
        /\ CASE ip = "linklocal" \/ route = "block" -> Set(c, [new EXCEPT !.st = "closed"])
             [] ip # "linklocal" /\ route = "forward" -> Set(c, [new EXCEPT !.st = "dial"])
             [] OTHER -> Set(c, [new EXCEPT !.st = "accept"])

\* standardForward: dial first, then accept the guest.
StandardForward(c) ==
    /\ cx[c].st = "dial"
    /\ \/ Shut(c)      \* net.Dial fails, or CreateEndpoint does and outbound is closed
       \/ Set(c, [cx[c] EXCEPT !.st = "relay", !.guest = TRUE, !.up = TRUE])

\* inspectAndForward accepts the guest before it knows where to.
AcceptGuest(c) ==
    /\ cx[c].st = "accept"
    /\ \/ Shut(c)
       \/ Set(c, [cx[c] EXCEPT !.st = "peek", !.guest = TRUE])

\* The guest's first bytes name a host, or none that can be read (<<>>), or it
\* closes before they are complete (<<>> too): a secret's host comes before the
\* allowlist, and without a list all pass.
Peek(c, host) ==
    LET secrets == IF cx[c].port = 443 /\ host # <<>> THEN SecretsForHost(host) ELSE {}
        named == [cx[c] EXCEPT !.host = host]
    IN  /\ cx[c].st = "peek"
        /\ CASE secrets # {} -> Set(c, [named EXCEPT !.st = "cert", !.subst = secrets])
             [] secrets = {} /\ pcfg.allow # NoList
                  /\ (host = <<>> \/ ~MatchesHostname(host)) ->
                       Set(c, [named EXCEPT !.st = "closed", !.guest = FALSE])
             [] OTHER -> Set(c, [named EXCEPT !.st = "hostdial"])

\* The upstream connection, after the host was let through.
HostDial(c) ==
    /\ cx[c].st = "hostdial"
    /\ \/ Shut(c)
       \/ Set(c, [cx[c] EXCEPT !.st = "relay", !.up = TRUE])

\* DialProxy: one side ends and both are closed.
RelayEnds(c) == cx[c].st = "relay" /\ Shut(c)

\* mitmAndForward: a certificate for the host, then the guest's handshake;
\* either failing closes the guest.
Handshake(c) ==
    /\ cx[c].st = "cert"
    /\ \/ Shut(c)
       \/ \E serve \in {"h2", "http1"} :
             Set(c, [cx[c] EXCEPT !.st = "served", !.serve = serve])

\* A request goes upstream with its secrets in place; the transport dials or
\* the guest is told 502.
Request(c) ==
    /\ cx[c].st = "served"
    /\ \E up \in BOOLEAN : Set(c, [cx[c] EXCEPT !.up = up])

\* The guest's connection ends.  The transport is left to the collector.
ServedEnds(c) ==
    /\ cx[c].st = "served"
    /\ Shut(c)

\* The goroutine that serves it: http2's ServeConn returns when the connection
\* ends; http.Server.Serve calls Accept again, which waits for a second
\* connection or for the listener's Close.
ServeStep(c) ==
    \/ /\ cx[c].serve = "h2" /\ cx[c].st = "closed"
       /\ Set(c, [cx[c] EXCEPT !.serve = "returned"])
    \/ /\ cx[c].serve = "http1"
       /\ Set(c, [cx[c] EXCEPT !.serve = "accepting"])

ConnNext(c) ==
    \/ \E ip \in {"gateway", "guest", "linklocal", "listed", "other"},
          port \in {22, 80, 443} : Syn(c, ip, port)
    \/ StandardForward(c) \/ AcceptGuest(c)
    \/ \E host \in HostNames \cup {<<>>} : Peek(c, host)
    \/ HostDial(c) \/ RelayEnds(c)
    \/ Handshake(c) \/ Request(c) \/ ServedEnds(c) \/ ServeStep(c)

Next ==
    \/ Create \/ CreateFails \/ NewNetwork \/ Override \/ VmConnects \/ Accept
    \/ Destroy \/ Cleanup
    \/ \E host \in HostNames : Lookup(host)
    \/ \E c \in Conns : ConnNext(c)

-----------------------------------------------------------------------------
\* Where the filter could be put in place, the guest's TCP connections reach
\* what its configuration names and nothing else: with an allow list a
\* connection leaves only for an address or a host of it, or for a secret's
\* host with the substitution; an HTTPS connection to a secret's host is never
\* relayed without it, even to an address the list holds.  In any case what is
\* substituted is the secrets of that host and of no other, and a name outside
\* the list resolves to nothing (forked_tcp.go, tcp_filter.go, mitm.go,
\* dns_filter.go).  UDP goes to the upstream forwarder, which filters nothing.
NetAsConfigured ==
    /\ \A c \in Conns :
          LET n == cx[c]
              named == {s \in pcfg.secrets : \E p \in s :
                          \/ ~p.wild /\ p.name = n.host
                          \/ p.wild /\ n.host # <<>> /\ Tail(n.host) = p.name}
          IN  /\ handler # "kept" /\ n.st \in {"dial", "hostdial", "relay"} =>
                    /\ n.port = 443 => named = {}
                    /\ pcfg.secrets # {} /\ n.port = 443 => n.st # "dial"
                    /\ pcfg.allow # NoList =>
                          MatchesIP(n.ip) \/ (n.port # 22 /\ MatchesHostname(n.host))
              /\ n.st \in {"cert", "served"} => n.port = 443 /\ n.subst = named
    /\ pcfg.allow # NoList /\ answer # <<>> /\ answer[2] = "record" =>
          MatchesHostname(answer[1])

Spec == Init /\ [][Next]_proxyVars

=============================================================================
