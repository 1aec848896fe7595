------------------------------ MODULE Networkd ------------------------------
(***************************************************************************)
(* networkd below TCP, with dhclient: interfaces and their addresses       *)
(* (userland/networkd/interface.cpp, networkd.cpp), the routing table, the *)
(* ARP table and the frames that wait for it, IP, UDP sockets and the      *)
(* commands of clients (client.cpp), and userland/dhclient/dhclient.cpp.   *)
(*                                                                         *)
(* There are two interfaces, the loopback interface and an Ethernet card,  *)
(* each with a thread that reads its raw socket; every UDP socket has a    *)
(* thread of its own that serves its application.  A step is what happens  *)
(* under one of the locks, or between two of them.  The hosts on the       *)
(* Ethernet, the DHCP server among them, are external.                     *)
(*                                                                         *)
(* An address is a number of AddrBits bits.  A datagram is its number.     *)
(***************************************************************************)
EXTENDS Link, Functions

CONSTANTS AddrBits,     \* 32
          Sockets,      \* the UDP sockets that clients ask for
          Asked,        \* what they ask for: [port, peer_ip, peer_port]
          Loopback,     \* 127.0.0.1/8: [ip, cidr_prefix]
          MacOf,        \* external: the hardware addresses of the other hosts, by IP address
          Leases,       \* external: what the DHCP server gives out: [ip, mask, router]
          Gateways,     \* what a client may set as the default gateway
          MAX_UDP_PACKETS,
          MaxDatagrams, \* how many datagrams are sent; then no more sockets are made
          MaxCommands,  \* how many commands clients other than dhclient give
          MaxTrouble    \* how often a frame is lost or duplicated, or something is early or late

Addresses == 0 .. 2^AddrBits - 1
NoIp == -1      \* the empty string
NoMask == -1    \* the answer has no subnet mask
OurMac == "our MAC"
NoMac == "no MAC"
Broadcast == "ff:ff:ff:ff:ff:ff"

ASSUME NetworkdAssumption ==
  /\ DOMAIN MacOf \subseteq Addresses /\ \A a \in DOMAIN MacOf : MacOf[a] \notin {OurMac, NoMac, Broadcast}
  /\ \A l \in Leases : l.ip \in Addresses \ DOMAIN MacOf /\ l.mask \in Addresses \cup {NoMask}
  /\ MAX_UDP_PACKETS > 0

VARIABLES
  ipv4addrs,    \* the addresses of an interface, in the order they were added
  table,        \* the routing table
  arp_table,    \* the valid entries: IP address -> MAC
  pending,      \* frames_pending_arp of the Ethernet interface
  ethernet,     \* where the Ethernet interface's thread is
  adding,       \* an address that add_addr_v4 has not made a route for yet, or None
  properties,   \* the properties that are set
  udp,          \* the sockets
  wire,         \* the frames on the Ethernet, a bag
  looped,       \* the packets in the raw socket of the loopback interface
  dhclient,     \* the DHCP client
  leased,       \* external: what the server acknowledged, by transaction
  sent,         \* how many datagrams were sent
  commands,     \* how many commands were given
  trouble       \* how often something went wrong

nvars == <<ipv4addrs, table, arp_table, pending, ethernet, adding, properties, udp, wire, looped,
           dhclient, leased, sent, commands, trouble>>

----------------------------------------------------------------------------
\* The routing table.

\* The first cidr_prefix bits are the same.
cidr_ip_matches(cidr_prefix, left, right) ==
  left \div 2^(AddrBits - cidr_prefix) = right \div 2^(AddrBits - cidr_prefix)

Entry(ip, cidr_prefix, gateway_ip, iface) ==
  [ip |-> ip, cidr_prefix |-> cidr_prefix, gateway_ip |-> gateway_ip, iface |-> iface]

\* The entry at position i replaces the rule found so far.
Better(i, best, ip) ==
  IF table[i].ip = NoIp THEN best = 0
  ELSE /\ table[i].cidr_prefix > (IF best = 0 \/ table[best].ip = NoIp THEN -1 ELSE table[best].cidr_prefix)
       /\ cidr_ip_matches(table[i].cidr_prefix, table[i].ip, ip)
\* The position of the rule for ip, 0 if there is none.
RuleAt(ip) ==
  LET Best[i \in 0 .. Len(table)] ==
        IF i = 0 THEN 0 ELSE IF Better(i, Best[i - 1], ip) THEN i ELSE Best[i - 1]
  IN  Best[Len(table)]
routing_rule_for_ip(ip) == Bind(RuleAt(ip), LAMBDA i : IF i = 0 THEN None ELSE table[i])

\* A default entry is stored with a prefix of -1 in a uint8_t and looked up with a prefix of
\* -1 in an int, so that an existing one is never found.
AddEntry(iface, ip, cidr_prefix, gateway_ip) ==
  LET e == Entry(ip, cidr_prefix, gateway_ip, iface)
      same == {i \in DOMAIN table : ip # NoIp /\ table[i].ip = ip /\ table[i].cidr_prefix = cidr_prefix}
  IN  table' = IF same = {} THEN Append(table, e)
               ELSE [table EXCEPT ![CHOOSE i \in same : \A j \in same : i <= j] = e]

IsDefault(e) == e.ip = NoIp
unset_default_gateway(iface) ==
  table' = SelectSeq(table, LAMBDA e : ~(IsDefault(e) /\ e.iface = iface))

----------------------------------------------------------------------------
\* Frames.

Arp(to, oper, sender_ip, sender_mac, target_ip) ==
  [kind |-> "arp", to |-> to, oper |-> oper, sender_ip |-> sender_ip, sender_mac |-> sender_mac,
   target_ip |-> target_ip]
\* hop is the address that the packet was routed to.
Packet(sock, hop, n) ==
  [src |-> sock.local_ip, dst |-> sock.peer_ip, sport |-> sock.port, dport |-> sock.peer_port,
   hop |-> hop, n |-> n]
IpFrame(to, p) == [kind |-> "ip", to |-> to, packet |-> p]
Dhcp(type, xid, lease) == [kind |-> "dhcp", type |-> type, xid |-> xid, lease |-> lease]

Put(frames) == wire' = wire (+) Several(frames)
Take(f, frames) == wire' = Less(wire, f) (+) Several(frames)

Trouble(b) == (b => trouble < MaxTrouble) /\ trouble' = IF b THEN trouble + 1 ELSE trouble

Ips(iface) == {ipv4addrs[iface][i].ip : i \in DOMAIN ipv4addrs[iface]}
get_primary_ipv4addr(iface) == IF ipv4addrs[iface] = <<>> THEN NoIp ELSE Head(ipv4addrs[iface]).ip
get_addr_v4(iface) == [i \in DOMAIN ipv4addrs[iface] |-> ipv4addrs[iface][i].ip]

\* The ARP table, and the request for an address.
mac_for_ip(ip) == IF ip \in DOMAIN arp_table THEN arp_table[ip] ELSE NoMac
arp_add_entry(ip, mac) == arp_table' = (ip :> mac) @@ arp_table
send_arp_request(ip) == Arp(Broadcast, "request", get_primary_ipv4addr("eth"), OurMac, ip)

----------------------------------------------------------------------------
\* Receiving: ip::handle_packet, udp::handle_packet, udp_socket::handle_packet.

\* The socket in the table for this port.
Registered(port) == {s \in Sockets : udp[s].registered /\ udp[s].port = port}
Received(sock, p) ==
  IF sock.peer_port # p.sport \/ Len(sock.queue) >= MAX_UDP_PACKETS THEN sock
  ELSE [sock EXCEPT !.queue = Append(@, p.n), !.notified = @ \/ sock.thread.at = "waiting"]
\* Without an ICMP answer when it is not for us or nobody listens.
HandleIp(iface, p) ==
  udp' = [s \in Sockets |-> IF p.dst \in Ips(iface) /\ s \in Registered(p.dport)
                            THEN Received(udp[s], p) ELSE udp[s]]

\* The loopback interface's thread.
LoopbackReceives ==
  /\ looped # <<>> /\ looped' = Tail(looped) /\ HandleIp("lo", Head(looped))
  /\ UNCHANGED <<ipv4addrs, table, arp_table, pending, ethernet, adding, properties, wire, dhclient,
                 leased, sent, commands, trouble>>

EthernetReceives(f) ==
  /\ ethernet = "receiving" /\ f.kind = "ip" /\ f.to = OurMac
  /\ Take(f, <<>>) /\ HandleIp("eth", f.packet)
  /\ UNCHANGED <<ipv4addrs, table, arp_table, pending, ethernet, adding, properties, looped, dhclient,
                 leased, sent, commands, trouble>>

\* A mutant of handle_arp_frame: the list is not looked at.
OnlyEntersArp(f) ==
  /\ ethernet = "receiving" /\ f.kind = "arp" /\ f.to \in {OurMac, Broadcast} /\ f.sender_mac # OurMac
  /\ arp_add_entry(f.sender_ip, f.sender_mac)
  /\ Take(f, <<>>)
  /\ UNCHANGED <<ipv4addrs, table, pending, ethernet, adding, properties, udp, looped, dhclient, leased,
                 sent, commands, trouble>>
\* handle_arp_frame: whoever sent it is entered, a request for one of our addresses is answered.
handle_arp_frame(f) ==
  /\ ethernet = "receiving" /\ f.kind = "arp" /\ f.to \in {OurMac, Broadcast} /\ f.sender_mac # OurMac
  /\ arp_add_entry(f.sender_ip, f.sender_mac)
  /\ Take(f, IF f.oper = "request" /\ f.target_ip \in Ips("eth")
             THEN <<Arp(f.sender_mac, "response", f.target_ip, OurMac, f.sender_ip)>> ELSE <<>>)
  /\ ethernet' = "checking"
  /\ UNCHANGED <<ipv4addrs, table, pending, adding, properties, udp, looped, dhclient, leased, sent,
                 commands, trouble>>

\* check_pending_arp_list: what waited too long is dropped, what has a MAC is sent.
check_pending_arp_list ==
  LET Ready(w) == ~w.late /\ mac_for_ip(w.packet.hop) # NoMac
      Stays(w) == ~w.late /\ mac_for_ip(w.packet.hop) = NoMac
  IN  /\ ethernet = "checking" /\ ethernet' = "receiving"
      /\ \E ready \in {SelectSeq(pending, Ready)} :
           Put([i \in DOMAIN ready |-> IpFrame(mac_for_ip(ready[i].packet.hop), ready[i].packet)])
      /\ pending' = SelectSeq(pending, Stays)
      /\ UNCHANGED <<ipv4addrs, table, arp_table, adding, properties, udp, looped, dhclient, leased,
                     sent, commands, trouble>>

----------------------------------------------------------------------------
\* Sending: udp_socket::sock_send, ip::send_packet, interface::send_ip_packet.

At(s, where) == udp[s].thread.at = where
Goes(s, thread) == udp' = [udp EXCEPT ![s].thread = thread]
Thread(at) == [at |-> at]

\* The next hop of a packet: the gateway of the rule, if it has one.
Hop(rule, ip) == IF rule.gateway_ip = NoIp THEN ip ELSE rule.gateway_ip

\* Without a route the application gets ENETUNREACH. The loopback interface needs no MAC.
UdpSend(s) ==
  /\ At(s, "idle") /\ sent < MaxDatagrams /\ sent' = sent + 1
  /\ \E rule \in {routing_rule_for_ip(udp[s].peer_ip)} :
       \/ rule = None /\ UNCHANGED <<udp, looped>>
       \/ /\ rule # None /\ rule.iface = "lo"
          /\ looped' = Append(looped, Packet(udp[s], udp[s].peer_ip, sent + 1)) /\ UNCHANGED udp
       \/ /\ rule # None /\ rule.iface = "eth"
          /\ Goes(s, [at |-> "routed", n |-> sent + 1, hop |-> Hop(rule, udp[s].peer_ip)])
          /\ UNCHANGED looped
  /\ UNCHANGED <<ipv4addrs, table, arp_table, pending, ethernet, adding, properties, wire, dhclient,
                 leased, commands, trouble>>

\* mac_for_ip, and send_arp_request if there is none.
Resolve(s) ==
  LET hop == udp[s].thread.hop
  IN  /\ At(s, "routed")
      /\ \/ /\ mac_for_ip(hop) # NoMac /\ Goes(s, Thread("idle"))
            /\ Put(<<IpFrame(mac_for_ip(hop), Packet(udp[s], hop, udp[s].thread.n))>>)
         \/ /\ mac_for_ip(hop) = NoMac /\ Goes(s, [udp[s].thread EXCEPT !.at = "asked"])
            /\ Put(<<send_arp_request(hop)>>)
      /\ UNCHANGED <<ipv4addrs, table, arp_table, pending, ethernet, adding, properties, looped,
                     dhclient, leased, sent, commands, trouble>>

\* The frame is only now put on the list. overtaken is history: the answer has been there, and
\* the interface's thread has looked at the list already.
Waiting(p) ==
  [packet |-> p, late |-> FALSE, overtaken |-> mac_for_ip(p.hop) # NoMac /\ ethernet = "receiving"]
WaitForArp(s) ==
  LET thread == udp[s].thread
  IN  /\ At(s, "asked") /\ Goes(s, Thread("idle"))
      /\ pending' = Append(pending, Waiting(Packet(udp[s], thread.hop, thread.n)))
      /\ UNCHANGED <<ipv4addrs, table, arp_table, ethernet, adding, properties, wire, looped, dhclient,
                     leased, sent, commands, trouble>>

\* udp_socket::sock_recv: a wait on wm_cv in the socket's own thread.
UdpRecv(s) ==
  /\ \/ At(s, "idle")
     \/ At(s, "waiting") /\ udp[s].notified
  /\ udp' = [udp EXCEPT ![s] =
       IF @.queue = <<>> THEN [@ EXCEPT !.thread = Thread("waiting"), !.notified = FALSE]
       ELSE [@ EXCEPT !.queue = Tail(@), !.thread = Thread("idle"), !.notified = FALSE]]
  /\ UNCHANGED <<ipv4addrs, table, arp_table, pending, ethernet, adding, properties, wire, looped,
                 dhclient, leased, sent, commands, trouble>>

\* udp_socket::close.
NoSocket == [registered |-> FALSE, thread |-> Thread("none")]
UdpClose(s) ==
  /\ At(s, "idle") /\ udp' = [udp EXCEPT ![s] = NoSocket]
  /\ UNCHANGED <<ipv4addrs, table, arp_table, pending, ethernet, adding, properties, wire, looped,
                 dhclient, leased, sent, commands, trouble>>

----------------------------------------------------------------------------
\* Commands of clients.

\* "udpsock": without a bind address the socket takes the primary address of the interface that
\* its peer is routed to; without one it fails. The port must not be in use. The socket's
\* thread starts with the descriptor pair that the kernel makes (PSEUDOPAIR).
UdpBind(s) ==
  /\ At(s, "none") /\ sent < MaxDatagrams
  /\ \E rule \in {routing_rule_for_ip(Asked[s].peer_ip)} :
       /\ rule # None /\ get_primary_ipv4addr(rule.iface) # NoIp
       /\ udp' = [udp EXCEPT ![s] = [registered |-> FALSE, thread |-> Thread("bound"),
                                     local_ip |-> get_primary_ipv4addr(rule.iface)]]
  /\ UNCHANGED <<ipv4addrs, table, arp_table, pending, ethernet, adding, properties, wire, looped,
                 dhclient, leased, sent, commands, trouble>>
UdpRegister(s) ==
  /\ At(s, "bound")
  /\ udp' = [udp EXCEPT ![s] =
       IF Registered(Asked[s].port) # {} THEN NoSocket
       ELSE Asked[s] @@ [registered |-> TRUE, thread |-> Thread("idle"), local_ip |-> @.local_ip,
                         queue |-> <<>>, notified |-> FALSE]]
  /\ UNCHANGED <<ipv4addrs, table, arp_table, pending, ethernet, adding, properties, wire, looped,
                 dhclient, leased, sent, commands, trouble>>

\* "set-property" and "unset-property" of the default gateway: the table first.
SetGateway(iface, g) ==
  /\ AddEntry(iface, NoIp, -1, g)
  /\ properties' = ("defaultgateway" :> g) @@ properties
ClientSetsGateway(g) ==
  /\ commands < MaxCommands /\ commands' = commands + 1 /\ SetGateway("eth", g)
  /\ UNCHANGED <<ipv4addrs, arp_table, pending, ethernet, adding, udp, wire, looped, dhclient, leased,
                 sent, trouble>>
ClientUnsetsGateway ==
  /\ commands < MaxCommands /\ commands' = commands + 1 /\ unset_default_gateway("eth")
  /\ properties' = Restrict(properties, DOMAIN properties \ {"defaultgateway"})
  /\ UNCHANGED <<ipv4addrs, arp_table, pending, ethernet, adding, udp, wire, looped, dhclient, leased,
                 sent, trouble>>

\* add_addr_v4: the address, then the route.
AddAddress(iface, a) ==
  /\ adding[iface] = None /\ adding' = [adding EXCEPT ![iface] = a]
  /\ ipv4addrs' = [ipv4addrs EXCEPT ![iface] = Append(@, a)]
AddLinkRoute(iface) ==
  /\ adding[iface] # None /\ adding' = [adding EXCEPT ![iface] = None]
  /\ AddEntry(iface, adding[iface].ip, adding[iface].cidr_prefix, NoIp)
  /\ UNCHANGED <<ipv4addrs, arp_table, pending, ethernet, properties, udp, wire, looped, dhclient,
                 leased, sent, commands, trouble>>

\* interface::run of the loopback interface starts by giving it its address.
StartLoopback ==
  /\ ipv4addrs["lo"] = <<>> /\ AddAddress("lo", Loopback)
  /\ UNCHANGED <<table, arp_table, pending, ethernet, properties, udp, wire, looped, dhclient, leased,
                 sent, commands, trouble>>

----------------------------------------------------------------------------
\* dhclient. Its commands to networkd are calls; it is at "adding" and "configuring" between them.

\* The number of ones that a mask starts with.
mask_to_cidr(mask) ==
  Cardinality({b \in 1 .. AddrBits : \A c \in 1 .. b : (mask \div 2^(AddrBits - c)) % 2 = 1})

get_v4addr == get_addr_v4("eth")
Idling == ~dhclient.discovering /\ ~dhclient.requesting

\* A mutant of perform_discover: a discovery that is not answered is not repeated.
DiscoverOnce ==
  /\ dhclient.at = "loop" /\ get_v4addr = <<>>
  /\ Idling
  /\ dhclient' = [dhclient EXCEPT !.discovering = TRUE, !.due = FALSE, !.active_xid = @ + 1]
  /\ Put(<<Dhcp("DISCOVER", dhclient.active_xid + 1, None)>>)
  /\ UNCHANGED <<ipv4addrs, table, arp_table, pending, ethernet, adding, properties, udp, looped,
                 leased, sent, commands, trouble>>
\* The loop: as long as there is no address, a new transaction starts when none is going on or
\* when ten seconds have passed since the last one started.
perform_discover ==
  /\ dhclient.at = "loop" /\ get_v4addr = <<>>
  /\ Idling \/ dhclient.due
  /\ dhclient' = [dhclient EXCEPT !.discovering = TRUE, !.requesting = FALSE, !.due = FALSE,
                                  !.active_xid = @ + 1]
  /\ Put(<<Dhcp("DISCOVER", dhclient.active_xid + 1, None)>>)
  /\ UNCHANGED <<ipv4addrs, table, arp_table, pending, ethernet, adding, properties, udp, looped,
                 leased, sent, commands, trouble>>

\* next_discover passes. By then an answer has normally arrived.
NextDiscover ==
  /\ ~Idling /\ ~dhclient.due /\ dhclient' = [dhclient EXCEPT !.due = TRUE]
  /\ Trouble(\E f \in BagToSet(wire) : f.kind = "dhcp")
  /\ UNCHANGED <<ipv4addrs, table, arp_table, pending, ethernet, adding, properties, udp, wire, looped,
                 leased, sent, commands>>

\* handle_rawsock_frame: an offer is requested, an acknowledgement is taken, whatever it is for.
\* A mutant of Answers: the transaction is not compared.
AnswersAnything(f) == f.type \in {"OFFER", "ACK"}
Answers(f) == f.type \in {"OFFER", "ACK"} /\ f.xid = dhclient.active_xid
send_dhcp_request(f) == Dhcp("REQUEST", f.xid, f.lease)
handle_rawsock_frame(f) ==
  /\ dhclient.at = "loop" /\ f.kind = "dhcp" /\ f.type \in {"OFFER", "ACK"}
  /\ \/ /\ Answers(f) /\ f.type = "OFFER" /\ dhclient.discovering
        /\ dhclient' = [dhclient EXCEPT !.discovering = FALSE, !.requesting = TRUE]
        /\ Take(f, <<send_dhcp_request(f)>>)
     \/ /\ Answers(f) /\ f.type = "ACK" /\ dhclient.requesting
        /\ dhclient' = [dhclient EXCEPT !.requesting = FALSE, !.at = "adding", !.lease = f.lease]
        /\ Take(f, <<>>)
     \/ /\ ~(Answers(f) /\ IF f.type = "OFFER" THEN dhclient.discovering ELSE dhclient.requesting)
        /\ Take(f, <<>>) /\ UNCHANGED dhclient
  /\ UNCHANGED <<ipv4addrs, table, arp_table, pending, ethernet, adding, properties, udp, looped,
                 leased, sent, commands, trouble>>

\* add_v4addr, then set_property for the gateway (the one for dns changes nothing else).
\* Without a mask the address stands alone.
Leased(lease) ==
  [ip |-> lease.ip, cidr_prefix |-> IF lease.mask = NoMask THEN AddrBits ELSE mask_to_cidr(lease.mask)]
AddLease ==
  /\ dhclient.at = "adding" /\ dhclient' = [dhclient EXCEPT !.at = "configuring"]
  /\ AddAddress("eth", Leased(dhclient.lease))
  /\ UNCHANGED <<table, arp_table, pending, ethernet, properties, udp, wire, looped, leased, sent,
                 commands, trouble>>
Configure ==
  /\ dhclient.at = "configuring" /\ adding["eth"] = None
  /\ dhclient' = [dhclient EXCEPT !.at = "loop"]
  /\ \/ dhclient.lease.router = NoIp /\ UNCHANGED <<table, properties>>
     \/ dhclient.lease.router # NoIp /\ SetGateway("eth", dhclient.lease.router)
  /\ UNCHANGED <<ipv4addrs, arp_table, pending, ethernet, adding, udp, wire, looped, leased, sent,
                 commands, trouble>>

----------------------------------------------------------------------------
\* External: the hosts on the Ethernet, the link and the clock.

\* A host answers an ARP request for its address, and the datagrams that come to it.
HostAnswersArp(f) ==
  /\ f.kind = "arp" /\ f.sender_mac = OurMac
  /\ Take(f, IF f.oper = "request" /\ f.target_ip \in DOMAIN MacOf
             THEN <<Arp(f.sender_mac, "response", f.target_ip, MacOf[f.target_ip], f.sender_ip)>>
             ELSE <<>>)
  /\ UNCHANGED <<ipv4addrs, table, arp_table, pending, ethernet, adding, properties, udp, looped,
                 dhclient, leased, sent, commands, trouble>>
HostAnswers(f) ==
  /\ f.kind = "ip" /\ f.to # OurMac
  /\ LET p == f.packet
         back == [p EXCEPT !.src = p.dst, !.dst = p.src, !.sport = p.dport, !.dport = p.sport]
     IN  Take(f, <<IpFrame(OurMac, back)>>)
  /\ UNCHANGED <<ipv4addrs, table, arp_table, pending, ethernet, adding, properties, udp, looped,
                 dhclient, leased, sent, commands, trouble>>
\* A host asks for an address.
HostAsks(ip, a) ==
  /\ Trouble(TRUE) /\ Put(<<Arp(Broadcast, "request", ip, MacOf[ip], a)>>)
  /\ UNCHANGED <<ipv4addrs, table, arp_table, pending, ethernet, adding, properties, udp, looped,
                 dhclient, leased, sent, commands>>

\* The DHCP server offers a lease, and acknowledges a request for one.
ServerAnswers(f) ==
  /\ f.kind = "dhcp"
  /\ \/ /\ f.type = "DISCOVER" /\ UNCHANGED leased
        /\ \E l \in Leases : Take(f, <<Dhcp("OFFER", f.xid, l)>>)
     \/ /\ f.type = "REQUEST" /\ leased' = leased \cup {[xid |-> f.xid, lease |-> f.lease]}
        /\ Take(f, <<Dhcp("ACK", f.xid, f.lease)>>)
  /\ UNCHANGED <<ipv4addrs, table, arp_table, pending, ethernet, adding, properties, udp, looped,
                 dhclient, sent, commands, trouble>>

Lost(f) ==
  /\ Trouble(TRUE) /\ Take(f, <<>>)
  /\ UNCHANGED <<ipv4addrs, table, arp_table, pending, ethernet, adding, properties, udp, looped,
                 dhclient, leased, sent, commands>>
Duplicated(f) ==
  /\ Trouble(TRUE) /\ Put(<<f>>)
  /\ UNCHANGED <<ipv4addrs, table, arp_table, pending, ethernet, adding, properties, udp, looped,
                 dhclient, leased, sent, commands>>
\* An ARP entry is no longer valid; a frame has waited for five seconds.
ArpEntryExpires(ip) ==
  /\ Trouble(TRUE) /\ arp_table' = Restrict(arp_table, DOMAIN arp_table \ {ip})
  /\ UNCHANGED <<ipv4addrs, table, pending, ethernet, adding, properties, udp, wire, looped, dhclient,
                 leased, sent, commands>>
WaitedTooLong(i) ==
  /\ ~pending[i].late /\ Trouble(TRUE) /\ pending' = [pending EXCEPT ![i].late = TRUE]
  /\ UNCHANGED <<ipv4addrs, table, arp_table, ethernet, adding, properties, udp, wire, looped, dhclient,
                 leased, sent, commands>>

----------------------------------------------------------------------------
NInit ==
  /\ ipv4addrs = [i \in {"lo", "eth"} |-> <<>>] /\ adding = [i \in {"lo", "eth"} |-> None]
  /\ table = <<>> /\ arp_table = <<>> /\ pending = <<>> /\ ethernet = "receiving"
  /\ properties = <<>> /\ udp = [s \in Sockets |-> NoSocket]
  /\ wire = EmptyBag /\ looped = <<>>
  /\ dhclient = [at |-> "loop", discovering |-> FALSE, requesting |-> FALSE, due |-> FALSE,
                 active_xid |-> 0, lease |-> None]
  /\ leased = {}
  /\ sent \in 0 .. MaxDatagrams /\ commands \in 0 .. MaxCommands /\ trouble \in 0 .. MaxTrouble

Interfaces ==
  \/ StartLoopback \/ \E i \in {"lo", "eth"} : AddLinkRoute(i)
  \/ LoopbackReceives \/ check_pending_arp_list
  \/ \E f \in BagToSet(wire) : EthernetReceives(f) \/ handle_arp_frame(f)
SocketThreads == \E s \in Sockets : Resolve(s) \/ WaitForArp(s) \/ UdpRegister(s)
DhClient ==
  \/ perform_discover \/ NextDiscover \/ AddLease \/ Configure
  \/ \E f \in BagToSet(wire) : handle_rawsock_frame(f)
OtherHosts == \E f \in BagToSet(wire) : HostAnswersArp(f) \/ HostAnswers(f) \/ ServerAnswers(f)
Clients ==
  \/ \E s \in Sockets : UdpBind(s) \/ UdpSend(s) \/ UdpRecv(s) \/ UdpClose(s)
  \/ \E g \in Gateways : ClientSetsGateway(g)
  \/ ClientUnsetsGateway
Troubles ==
  \/ \E f \in BagToSet(wire) : Lost(f) \/ Duplicated(f)
  \/ \E ip \in DOMAIN arp_table : ArpEntryExpires(ip)
  \/ \E i \in DOMAIN pending : WaitedTooLong(i)
  \/ \E ip \in DOMAIN MacOf, l \in Leases : HostAsks(ip, l.ip)

NNext == Interfaces \/ SocketThreads \/ DhClient \/ OtherHosts \/ Clients \/ Troubles
NFairness == WF_nvars(Interfaces) /\ WF_nvars(DhClient) /\ WF_nvars(OtherHosts)
NSpec == NInit /\ [][NNext]_nvars /\ NFairness

----------------------------------------------------------------------------
\* Properties.

\* The entries that match an address, and the most specific of them.
Matching(ip) == {i \in DOMAIN table : IsDefault(table[i]) \/ cidr_ip_matches(table[i].cidr_prefix, table[i].ip, ip)}
Specificity(e) == IF IsDefault(e) THEN -1 ELSE e.cidr_prefix


\* Nothing waits for what has already happened. A frame on frames_pending_arp whose hop has an
\* entry is looked at by the interface's thread, unless the answer overtook the frame between
\* send_arp_request and the list. A socket's thread that waits on wm_cv while there are
\* datagrams has been notified.
NothingStranded ==
  /\ \A i \in DOMAIN pending :
       mac_for_ip(pending[i].packet.hop) # NoMac => ethernet = "checking" \/ pending[i].overtaken
  /\ \A s \in Sockets : At(s, "waiting") /\ udp[s].queue # <<>> => udp[s].notified

\* The interface has at most one address, which is one that the server acknowledged in the
\* transaction that dhclient last started, although offers and acknowledgements are late,
\* lost or duplicated and transactions are started again (handle_rawsock_frame).
LeaseConsistent ==
  \A i \in DOMAIN ipv4addrs["eth"] :
    /\ Len(ipv4addrs["eth"]) = 1
    /\ \E l \in leased : l.xid = dhclient.active_xid /\ l.lease.ip = ipv4addrs["eth"][i].ip

\* Whatever goes wrong a finite number of times, the interface gets an address and a route: a
\* discovery or a request that is not answered is followed by a new discovery.
InterfaceConfigured == dhclient.discovering ~> (ipv4addrs["eth"] # <<>> /\ adding["eth"] = None)
=============================================================================
